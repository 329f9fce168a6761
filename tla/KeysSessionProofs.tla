--------------------------- MODULE KeysSessionProofs ---------------------------
(***************************************************************************)
(* Proofs about KeysSession, for any entries, values, passwords, files and *)
(* number of faults: a command that returns 0 was done, a copy that        *)
(* returns 0 is complete, the index lists the values there are, a search   *)
(* shows every match, and an edit replaces what was shown and gives back   *)
(* the entry if its text is left as it is.                                 *)
(***************************************************************************)
EXTENDS KeysSession, KeysIndexProofs, FiniteSetTheorems

Sized == [entry : EntryText]
Items == Sized \cup {Torn}
\* What the file of an entry may hold.
Contents == EntryText \cup {Unreadable}

\* The cell after the message of a request of job j.
Carries(cell, cmd, j) ==
  IF cmd \in {Cmd.add, Cmd.edit}
  THEN DOMAIN cell = {"entry"} /\ cell.entry = j.entry /\ cell.entry \in EntryText
  ELSE DOMAIN cell = {"value"} /\ (cmd = Cmd.passwd => cell.value = j.password)

(* A record that may be the m-th of a request of job j: the key, the message, *)
(* and what it announces; after an import, sizes and entries.                 *)
Fits(r, m, cmd, j) ==
  \/ m = 0 /\ Len(r) = KekLen
  \/ /\ m = 1 /\ Len(r) = 12
     /\ Number(r[4]) = cmd /\ cmd \in 1..8 /\ Number(r[8]) \in Nat
     /\ (Number(r[12]) > 0) = (cmd \notin {Cmd.rekey, Cmd.export, Cmd.import})
  \/ m = 2 /\ cmd \in 1..5 /\ Len(r) = 1 /\ Carries(r[1], cmd, j)
  \/ m = 3 /\ cmd = Cmd.edit /\ Len(r) = 1 /\ DOMAIN r[1] = {"value"}
  \/ m >= 2 /\ m % 2 = 0 /\ cmd = Cmd.import /\ Len(r) = 4
  \/ m >= 3 /\ m % 2 = 1 /\ cmd = Cmd.import /\ Len(r) = 1 /\ r[1] \in Sized

\* A request from its m-th record on, or the beginning of it.
Rest(s, m, cmd, j) == IsStream(s) /\ \A k \in DOMAIN s : Fits(s[k], m + k - 1, cmd, j)

Nothing == 0
\* The requests the client may have sent: that of its job, or a search before.
Requested ==
  \/ client \in {"receiving", "sending", "response", "off"}
  \/ client = "prompt" /\ job.cmd \in {Cmd.export, Cmd.import}
Sent(cmd) ==
  \/ cmd = Nothing
  \/ cmd = job.cmd /\ Requested
  \/ cmd = Cmd.find /\ \/ client = "matches"
                       \/ job.cmd # Cmd.find /\ ~ clientOn
Asked == {cmd \in 0..8 : Sent(cmd)}

RequestKnown ==
  /\ {"cmd", "arg"} \subseteq DOMAIN request
  /\ request.cmd \in Asked \ {Nothing} /\ request.arg \in Nat

EntryKnown == "entry" \in DOMAIN request /\ request.entry = job.entry /\ request.entry \in EntryText

\* No command is under way, and the server is at most left in the middle of one.
Idle == client \in {"off", "search"} /\ toServer = <<>> /\ server \notin {"serve", "import"}

\* What the server reads is what the client meant.
Understood ==
  ~ Idle =>
    /\ server = "kek" => \E cmd \in Asked : \E m \in {0, 1} : Rest(toServer, m, cmd, job)
    /\ server = "loop" => \E cmd \in Asked : Rest(toServer, 1, cmd, job)
    /\ server \in {"body", "value", "serve", "import"} => RequestKnown
    /\ server = "body" => request.cmd \in 1..5 /\ Rest(toServer, 2, request.cmd, job)
    /\ server = "value" => request.cmd = Cmd.edit /\ EntryKnown /\ Rest(toServer, 3, request.cmd, job)
    /\ server = "serve" =>
         /\ request.cmd \in {Cmd.add, Cmd.edit} => EntryKnown
         /\ request.cmd = Cmd.passwd => request.value = job.password
         /\ request.cmd = Cmd.find => toServer = <<>>
         /\ request.cmd # Cmd.import
    /\ server = "import" => request.cmd = Cmd.import /\ Rest(toServer, 2, request.cmd, job)

\* An import that is still sent is not cut short: it comes to an even record.
Whole ==
  client \in {"prompt", "sending"} /\ job.cmd = Cmd.import /\ serverOn =>
    /\ server = "kek" => \E m \in {0, 1} : /\ Rest(toServer, m, Cmd.import, job)
                                           /\ m + Len(toServer) >= 2 /\ (m + Len(toServer)) % 2 = 0
    /\ server = "loop" => Rest(toServer, 1, Cmd.import, job) /\ Len(toServer) % 2 = 1
    /\ server = "import" => Len(toServer) % 2 = 0

\* Who is there.
Present ==
  /\ client \in {"off", "search"} => ~ clientOn /\ toClient = <<>>
  /\ client \notin {"off", "search"} /\ ~ clientOn => ~ serverOn
  /\ client \in {"search", "hello"} => toServer = <<>> /\ served = <<>> /\ shown = <<>>
  /\ client = "search" => Idle
  /\ client = "hello" => server \in {"accept", "kek"} /\ toClient \in {<<>>, <<<<"kdfp">>>>}
  /\ search.ping => client = "search"
  /\ search.pong => client = "search" /\ server = "accept" /\ ~ serverOn
  /\ server = "accept" /\ serverOn => client = "hello" /\ toClient = <<>>
  /\ server = "down" => ~ serverOn

\* The job of the client.
JobKnown ==
  client # "off" =>
    /\ {"cmd", "value", "limit"} \subseteq DOMAIN job
    /\ job.cmd \in 1..8 /\ job.limit \in Nat
    /\ client = "matches" => job.cmd \in {Cmd.edit, Cmd.find}
    /\ client = "editor" => job.cmd \in {Cmd.add, Cmd.edit}
    /\ client = "prompt" => job.cmd \in {Cmd.passwd, Cmd.export, Cmd.import}
    /\ client = "receiving" => job.cmd = Cmd.export
    /\ client = "sending" => job.cmd = Cmd.import
    /\ client = "response" => job.cmd # Cmd.find

Announces(r) == Len(r) = 12 /\ Number(r[12]) \in Nat
IsReplies(s) ==
  IsStream(s) /\ \A k \in DOMAIN s :
    IF k % 2 = 1 THEN Announces(s[k]) /\ (Number(s[k][12]) = 0 => k = Len(s)) ELSE Len(s[k]) = 1

IsExport(s) ==
  IsStream(s) /\ \A k \in DOMAIN s :
    IF k % 2 = 1 THEN Len(s[k]) = 4 /\ (Number(s[k][4]) = 0 => k >= Len(s) - 1)
    ELSE \/ Len(s[k]) = 1 /\ s[k][1] \in Sized
         \/ k = Len(s) /\ Number(s[k - 1][4]) = 0
IsRefusal(s) == IsStream(s) /\ Len(s) = 1 /\ Len(s[1]) = 12 /\ s[1][5] = Zero /\ Number(s[1][9]) = 0
\* What is left of one that was taken for a size and an entry.
IsRefused(s) == IsStream(s) /\ s # <<>> /\ Len(s[1]) = 7 /\ Number(s[1][4]) = 0

Told == served # <<>> /\ Last(served).cmd = job.cmd /\ Last(served).ok
Changing == {Cmd.add, Cmd.edit, Cmd.delete, Cmd.passwd, Cmd.rekey}

\* What the client reads is what the server meant.
Heard ==
  /\ client \notin {"off", "search", "hello"} /\ clientOn /\ toClient # <<>> =>
       IF client = "matches" THEN server = "loop" /\ toServer = <<>> ELSE server = "accept" /\ ~ serverOn
  /\ client = "matches" =>
       /\ IsReplies(toClient)
       /\ clientOn /\ shown # <<>> => server = "loop" /\ toServer = <<>>
  /\ client = "editor" \/ (client = "prompt" /\ job.cmd = Cmd.passwd) => toClient = <<>>
  /\ client = "receiving" \/ (client = "prompt" /\ job.cmd = Cmd.export) =>
       /\ IsStream(toClient)
       /\ Zero \in Range(export) \/ IsExport(toClient) \/ IsRefusal(toClient) \/ IsRefused(toClient)
  /\ client = "response" /\ job.cmd \in Changing =>
       /\ IsStream(toClient)
       /\ toClient # <<>> =>
            Len(toClient) = 1 /\ Len(toClient[1]) = 12 /\ (Number(toClient[1][4]) = OK => Told)
  /\ client = "off" /\ code = OK /\ job.cmd \in Changing => Told

\* What was done is the command.
IsTheJob(done) ==
  /\ done.cmd = job.cmd
  /\ job.cmd \in {Cmd.add, Cmd.edit} => done.entry = job.entry
  /\ job.cmd = Cmd.passwd /\ done.ok => password = job.password
DoneRight ==
  /\ IsSeq(served)
  /\ \A k \in DOMAIN served :
       served[k].cmd # Cmd.find =>
         k = Len(served) /\ server = "accept" /\ ~ serverOn /\ Requested /\ IsTheJob(served[k])

\* Types
Typed ==
  /\ index \in Seq([str : Seq(Nat), ids : Seq(Ids)])
  /\ file \in [Ids -> Contents]
  /\ IsSeq(export) /\ (Zero \in Range(export) \/ export \in Seq(Items))
  /\ client = "sending" => unsent \in Seq(Items)
  /\ client \in {"search", "hello", "prompt"} =>
       IF job.cmd = Cmd.import THEN export \in Seq(Items) ELSE export = <<>>
  /\ search \in [sent : Nat, ping : BOOLEAN, pong : BOOLEAN]

SessionInv ==
  Typed /\ JobKnown /\ Present /\ Understood /\ Whole /\ Heard /\ DoneRight

-------------------------------------------------------------------------------
\* Records and streams

LEMMA OverFacts ==
  ASSUME NEW f, NEW g, NEW h, h = Over(f, g), NEW x
  PROVE  /\ x \in DOMAIN f => x \in DOMAIN h /\ h[x] = f[x]
         /\ x \in DOMAIN g /\ x \notin DOMAIN f => x \in DOMAIN h /\ h[x] = g[x]
<1>1. h = [y \in DOMAIN f \cup DOMAIN g |-> IF y \in DOMAIN f THEN f[y] ELSE g[y]]
  BY DEF Over
<1> QED
  BY <1>1

LEMMA WordFacts ==
  ASSUME NEW n
  PROVE  /\ IsSeq(Word(n)) /\ Len(Word(n)) = 4
         /\ Word(n)[1] = Zero /\ Word(n)[4] = IF n = 0 THEN Zero ELSE n
<1> DEFINE m == IF n = 0 THEN Zero ELSE n
<1>1. <<Zero, Zero, Zero, m>> \in Seq({Zero, m})
  OBVIOUS
<1>2. Word(n) = <<Zero, Zero, Zero, m>>
  BY DEF Word
<1> HIDE DEF m
<1>3. IsSeq(Word(n))
  BY <1>1, <1>2, SeqIsSeq
<1>4. Len(Word(n)) = 4 /\ Word(n)[1] = Zero /\ Word(n)[4] = m
  BY <1>2
<1> QED
  BY <1>3, <1>4 DEF m

LEMMA NumberFacts ==
  /\ Number(Zero) = 0
  /\ \A n \in Nat : Number(n) = n /\ Number(IF n = 0 THEN Zero ELSE n) = n
BY KeysSessionAssumption DEF Number

LEMMA MessageFacts ==
  ASSUME NEW cmd \in Nat, NEW arg \in Nat, NEW len \in Nat, NEW m, m = Message(cmd, arg, len)
  PROVE  /\ IsSeq(m) /\ Len(m) = 12
         /\ Number(m[4]) = cmd /\ Number(m[8]) = arg /\ Number(m[12]) = len
         /\ m[5] = Zero /\ Number(m[9]) = 0
<1> DEFINE a == Word(cmd)  b == Word(arg)  c == Word(len)  ab == a \o b
<1>1. /\ IsSeq(a) /\ Len(a) = 4 /\ a[4] = IF cmd = 0 THEN Zero ELSE cmd
      /\ IsSeq(b) /\ Len(b) = 4 /\ b[1] = Zero /\ b[4] = IF arg = 0 THEN Zero ELSE arg
      /\ IsSeq(c) /\ Len(c) = 4 /\ c[1] = Zero /\ c[4] = IF len = 0 THEN Zero ELSE len
  BY WordFacts
<1>2. m = ab \o c
  BY DEF Message
<1> HIDE DEF a, b, c, ab
<1>3. /\ IsSeq(ab) /\ Len(ab) = 8
      /\ \A k \in 1..4 : ab[k] = a[k] /\ ab[4 + k] = b[k]
  <2>0. IsSeq(a) /\ IsSeq(b)
    BY <1>1
  <2>1. /\ IsSeq(a \o b) /\ Len(a \o b) = Len(a) + Len(b)
        /\ \A k \in 1..Len(a) : (a \o b)[k] = a[k]
        /\ \A k \in 1..Len(b) : (a \o b)[Len(a) + k] = b[k]
    BY <2>0, JoinFacts
  <2> QED
    BY <1>1, <2>1 DEF ab
<1>4. /\ IsSeq(m) /\ Len(m) = 12
      /\ \A k \in 1..8 : m[k] = ab[k]
      /\ \A k \in 1..4 : m[8 + k] = c[k]
  <2>0. IsSeq(ab) /\ IsSeq(c)
    BY <1>1, <1>3
  <2>1. /\ IsSeq(m) /\ Len(m) = Len(ab) + Len(c)
        /\ \A k \in 1..Len(ab) : m[k] = ab[k]
        /\ \A k \in 1..Len(c) : m[Len(ab) + k] = c[k]
    BY <1>2, <2>0, JoinFacts
  <2> QED
    BY <1>1, <1>3, <2>1
<1>5. m[4] = a[4] /\ m[5] = b[1] /\ m[8] = b[4] /\ m[9] = c[1] /\ m[12] = c[4]
  <2>1. m[4] = ab[4] /\ m[5] = ab[5] /\ m[8] = ab[8] /\ m[8 + 1] = c[1] /\ m[8 + 4] = c[4]
    BY <1>4
  <2>2. ab[4] = a[4] /\ ab[4 + 1] = b[1] /\ ab[4 + 4] = b[4]
    BY <1>3
  <2> QED
    BY <2>1, <2>2
<1> QED
  BY <1>1, <1>4, <1>5, NumberFacts

(* A record that is not longer than what is asked for is read whole.          *)
LEMMA TakenWhole ==
  ASSUME NEW s, IsStream(s), s # <<>>, NEW n \in Nat, Len(s[1]) <= n
  PROVE  /\ Left(s, n) = Tail(s)
         /\ Len(Taken(s, n)) = Len(s[1])
         /\ \A k \in 1..Len(s[1]) : Taken(s, n)[k] = s[1][k]
<1>1. Head(s) = s[1] /\ IsSeq(s[1]) /\ Len(s[1]) \in Nat
  BY IsSeqFacts DEF IsStream
<1>2. Len(s[1]) \in 0..Len(s[1])
  BY <1>1
<1>3. Taken(s, n) = SubSeq(s[1], 1, Len(s[1]))
  BY <1>1 DEF Taken
<1> QED
  BY <1>1, <1>2, <1>3, PartFacts DEF Left

LEMMA TakenCells ==
  ASSUME NEW s, IsStream(s), s # <<>>
  PROVE  /\ Len(s[1]) = 1 => Left(s, 1) = Tail(s) /\ Len(Taken(s, 1)) = 1 /\ Taken(s, 1)[1] = s[1][1]
         /\ Len(s[1]) = 4 => Left(s, 4) = Tail(s) /\ Len(Taken(s, 4)) = 4 /\ Taken(s, 4)[4] = s[1][4]
         /\ Len(s[1]) = 12 => /\ Left(s, 12) = Tail(s) /\ Len(Taken(s, 12)) = 12
                              /\ Taken(s, 12)[4] = s[1][4] /\ Taken(s, 12)[8] = s[1][8]
                              /\ Taken(s, 12)[12] = s[1][12]
                              /\ Len(Taken(s, KekLen)) = 12
         /\ Len(s[1]) = KekLen => Left(s, KekLen) = Tail(s)
<1>1. ASSUME NEW n \in Nat, NEW l \in 1..n, Len(s[1]) = l
      PROVE  Left(s, n) = Tail(s) /\ Len(Taken(s, n)) = l /\ \A k \in 1..l : Taken(s, n)[k] = s[1][k]
  <2>1. Len(s[1]) <= n
    BY <1>1
  <2> QED
    BY <1>1, <2>1, TakenWhole
<1> DEFINE Whole1(n, l) == Left(s, n) = Tail(s) /\ Len(Taken(s, n)) = l /\ \A k \in 1..l : Taken(s, n)[k] = s[1][k]
<1>2. /\ Len(s[1]) = 1 => Whole1(1, 1)
      /\ Len(s[1]) = 4 => Whole1(4, 4)
      /\ Len(s[1]) = 12 => Whole1(12, 12) /\ Whole1(16, 12)
      /\ Len(s[1]) = 16 => Whole1(16, 16)
  <2>1. 1 \in 1..1 /\ 4 \in 1..4 /\ 12 \in 1..12 /\ 12 \in 1..16 /\ 16 \in 1..16
    OBVIOUS
  <2>2. \A n \in Nat : \A l \in 1..n : Len(s[1]) = l => Whole1(n, l)
    BY <1>1
  <2> HIDE DEF Whole1
  <2> QED
    BY <2>1, <2>2
<1>3. 1 \in 1..1 /\ 4 \in 1..4 /\ 4 \in 1..12 /\ 8 \in 1..12 /\ 12 \in 1..12
  OBVIOUS
<1> QED
  BY <1>2, <1>3 DEF KekLen

\* Of a longer one the end is left.
LEMMA TakenPart ==
  ASSUME NEW s, IsStream(s), s # <<>>, NEW n \in Nat, n < Len(s[1]), NEW r, r = Left(s, n)
  PROVE  /\ IsStream(r) /\ r # <<>> /\ Len(r) = Len(s)
         /\ Len(r[1]) = Len(s[1]) - n
         /\ \A k \in 1..(Len(s[1]) - n) : r[1][k] = s[1][n + k]
         /\ \A k \in 2..Len(s) : r[k] = s[k]
         /\ Len(Taken(s, n)) = n /\ \A k \in 1..n : Taken(s, n)[k] = s[1][k]
<1>1. Head(s) = s[1] /\ IsSeq(s[1]) /\ Len(s[1]) \in Nat /\ IsSeq(s) /\ Len(s) \in Nat \ {0}
  BY IsSeqFacts DEF IsStream
<1>2. n \in 0..Len(s[1])
  BY <1>1
<1>3. Taken(s, n) = SubSeq(s[1], 1, n)
  BY <1>1, <1>2 DEF Taken
<1>4. Len(Taken(s, n)) = n /\ \A k \in 1..n : Taken(s, n)[k] = s[1][k]
  BY <1>1, <1>2, <1>3, PartFacts
<1> DEFINE e == SubSeq(s[1], n + 1, Len(s[1]))
<1>5. r = <<e>> \o Tail(s)
  BY <1>1 DEF Left
<1>6. e \in Seq(Range(s[1])) /\ Len(e) = Len(s[1]) - n /\ \A k \in 1..(Len(s[1]) - n) : e[k] = s[1][n + k]
  <2>1. s[1] \in Seq(Range(s[1]))
    BY <1>1 DEF IsSeq
  <2> QED
    BY <1>1, <2>1
<1>7. IsSeq(e)
  BY <1>6, SeqIsSeq
<1> HIDE DEF e
<1>8. IsSeq(Tail(s)) /\ Len(Tail(s)) = Len(s) - 1 /\ \A k \in 1..(Len(s) - 1) : Tail(s)[k] = s[k + 1]
  BY <1>1, IsSeqFacts
<1>9. /\ IsSeq(r) /\ Len(r) = 1 + Len(Tail(s))
      /\ r[1] = e /\ \A k \in 1..Len(Tail(s)) : r[1 + k] = Tail(s)[k]
  BY <1>5, <1>8, JoinFacts, TupleFacts
<1>10. Len(r) = Len(s)
  BY <1>1, <1>8, <1>9
<1>11. ASSUME NEW k \in 2..Len(s) PROVE r[k] = s[k]
  <2>1. k - 1 \in 1..(Len(s) - 1) /\ 1 + (k - 1) = k /\ (k - 1) + 1 = k
    BY <1>1
  <2> QED
    BY <1>8, <1>9, <2>1
<1>12. \A k \in DOMAIN r : IsSeq(r[k])
  <2>1. DOMAIN r = 1..Len(s)
    BY <1>9, <1>10, IsSeqFacts
  <2>2. DOMAIN s = 1..Len(s)
    BY <1>1, IsSeqFacts
  <2> QED
    BY <1>7, <1>9, <1>11, <2>1, <2>2 DEF IsStream
<1>13. r # <<>>
  BY <1>1, <1>9, <1>10, IsSeqFacts
<1> QED
  BY <1>4, <1>6, <1>9, <1>10, <1>11, <1>12, <1>13 DEF IsStream

-------------------------------------------------------------------------------
\* Requests

LEMMA CmdFacts ==
  /\ Cmd.add = 1 /\ Cmd.delete = 2 /\ Cmd.edit = 3 /\ Cmd.find = 4 /\ Cmd.passwd = 5
  /\ Cmd.rekey = 6 /\ Cmd.export = 7 /\ Cmd.import = 8 /\ OK = 0
BY DEF Cmd, OK

LEMMA RestFirst ==
  ASSUME NEW s, NEW m \in Nat, NEW cmd, NEW j, Rest(s, m, cmd, j), s # <<>>
  PROVE  Fits(s[1], m, cmd, j) /\ Rest(Tail(s), m + 1, cmd, j) /\ IsStream(s)
<1>1. IsStream(s) /\ IsStream(Tail(s))
  BY StreamFacts DEF Rest
<1>2. /\ Len(s) \in Nat \ {0} /\ DOMAIN s = 1..Len(s)
      /\ DOMAIN Tail(s) = 1..(Len(s) - 1) /\ \A k \in 1..(Len(s) - 1) : Tail(s)[k] = s[k + 1]
  BY <1>1, IsSeqFacts DEF IsStream
<1>3. Fits(s[1], m + 1 - 1, cmd, j)
  BY <1>2 DEF Rest
<1>4. ASSUME NEW k \in DOMAIN Tail(s) PROVE Fits(Tail(s)[k], m + 1 + k - 1, cmd, j)
  <2>1. k + 1 \in DOMAIN s /\ Tail(s)[k] = s[k + 1] /\ m + (k + 1) - 1 = m + 1 + k - 1
    BY <1>2
  <2> QED
    BY <2>1 DEF Rest
<1>5. m + 1 - 1 = m
  OBVIOUS
<1> QED
  BY <1>1, <1>3, <1>4, <1>5 DEF Rest

LEMMA RestPart ==
  ASSUME NEW s, NEW m, NEW cmd, NEW j, Rest(s, m, cmd, j), NEW n \in 0..Len(s)
  PROVE  Rest(SubSeq(s, 1, n), m, cmd, j)
<1>1. IsStream(SubSeq(s, 1, n))
  BY StreamFacts DEF Rest
<1>2. /\ DOMAIN s = 1..Len(s) /\ Len(s) \in Nat
      /\ DOMAIN SubSeq(s, 1, n) = 1..n /\ \A k \in 1..n : SubSeq(s, 1, n)[k] = s[k]
  BY PartFacts, IsSeqFacts DEF Rest, IsStream
<1> QED
  BY <1>1, <1>2 DEF Rest

LEMMA RestEmpty == \A m, cmd, j : Rest(<<>>, m, cmd, j)
BY TupleStream DEF Rest

\* Of a request that was not made there is at most the key.
LEMMA RestNothing ==
  ASSUME NEW s, NEW j, NEW m \in {0, 1}, Rest(s, m, Nothing, j)
  PROVE  /\ s = <<>> \/ (m = 0 /\ Len(s) = 1)
         /\ \A cmd, i : Rest(s, m, cmd, i)
<1>1. IsStream(s) /\ Len(s) \in Nat /\ DOMAIN s = 1..Len(s) /\ (s = <<>> <=> Len(s) = 0)
  BY IsSeqFacts DEF Rest, IsStream
<1>2. \A k \in 1..Len(s) : Fits(s[k], m + k - 1, Nothing, j)
  BY <1>1 DEF Rest
<1>3. \A k \in 1..Len(s) : m + k - 1 = 0 /\ Len(s[k]) = KekLen
  BY <1>1, <1>2, CmdFacts DEF Fits, Nothing
<1>4. \A k \in 1..Len(s) : k = 1 /\ m = 0
  BY <1>1, <1>3
<1>5. Len(s) = 0 \/ (Len(s) = 1 /\ m = 0)
  BY <1>1, <1>4
<1>6. \A cmd, i : \A k \in 1..Len(s) : Fits(s[k], m + k - 1, cmd, i)
  BY <1>3 DEF Fits
<1> QED
  BY <1>1, <1>5, <1>6 DEF Rest

(* A request is one or two records, that of an edit three.                    *)
LEMMA RequestFits ==
  ASSUME NEW cmd \in 1..8, NEW arg \in Nat, NEW j
  PROVE  /\ cmd \in {Cmd.rekey, Cmd.export, Cmd.import} => Rest(<<Message(cmd, arg, 0)>>, 1, cmd, j)
         /\ \A what : cmd \in 1..5 /\ Carries(what, cmd, j) => Rest(Asks(cmd, arg, what), 1, cmd, j)
         /\ \A what, value : cmd = Cmd.edit /\ Carries(what, cmd, j) =>
              Rest(Append(Asks(cmd, arg, what), <<[value |-> value]>>), 1, cmd, j)
<1>1. ASSUME NEW len \in {0, 1}, (len > 0) = (cmd \notin {Cmd.rekey, Cmd.export, Cmd.import})
      PROVE  IsSeq(Message(cmd, arg, len)) /\ Fits(Message(cmd, arg, len), 1, cmd, j)
  <2> DEFINE r == Message(cmd, arg, len)
  <2>1. IsSeq(r) /\ Len(r) = 12 /\ Number(r[4]) = cmd /\ Number(r[8]) = arg /\ Number(r[12]) = len
    BY MessageFacts
  <2> HIDE DEF r
  <2>2. Fits(r, 1, cmd, j)
    BY <1>1, <2>1 DEF Fits
  <2> QED
    BY <2>1, <2>2 DEF r
<1>2. ASSUME cmd \in {Cmd.rekey, Cmd.export, Cmd.import} PROVE Rest(<<Message(cmd, arg, 0)>>, 1, cmd, j)
  <2> DEFINE r == Message(cmd, arg, 0)
  <2>1. IsSeq(r) /\ Fits(r, 1, cmd, j)
    BY <1>1, <1>2, CmdFacts
  <2> HIDE DEF r
  <2>2. IsStream(<<r>>) /\ DOMAIN <<r>> = 1..1 /\ <<r>>[1] = r
    BY <2>1, TupleStream
  <2>3. Rest(<<r>>, 1, cmd, j)
    BY <2>1, <2>2 DEF Rest
  <2> QED
    BY <2>3 DEF r
<1>3. ASSUME NEW what, cmd \in 1..5, Carries(what, cmd, j) PROVE Rest(Asks(cmd, arg, what), 1, cmd, j)
  <2> DEFINE r == Message(cmd, arg, 1)  t == <<what>>
  <2>1. IsSeq(r) /\ Fits(r, 1, cmd, j)
    BY <1>1, <1>3, CmdFacts
  <2>2. IsSeq(t) /\ Fits(t, 2, cmd, j)
    BY <1>3, TupleFacts DEF Fits
  <2>3. Asks(cmd, arg, what) = <<r, t>>
    BY DEF Asks
  <2> HIDE DEF r, t
  <2>4. IsStream(<<r, t>>) /\ DOMAIN <<r, t>> = 1..2 /\ <<r, t>>[1] = r /\ <<r, t>>[2] = t
    BY <2>1, <2>2, TupleStream
  <2>5. Rest(<<r, t>>, 1, cmd, j)
    BY <2>1, <2>2, <2>4 DEF Rest
  <2> QED
    BY <2>3, <2>5
<1>4. ASSUME NEW what, NEW value, cmd = Cmd.edit, Carries(what, cmd, j)
      PROVE  Rest(Append(Asks(cmd, arg, what), <<[value |-> value]>>), 1, cmd, j)
  <2> DEFINE s == Asks(cmd, arg, what)  t == <<[value |-> value]>>  all == Append(s, t)
  <2>1. Rest(s, 1, cmd, j)
    BY <1>3, <1>4, CmdFacts
  <2>2. IsSeq(t) /\ Fits(t, 3, cmd, j)
    BY <1>4, TupleFacts DEF Fits
  <2>3. Len(s) = 2
    BY DEF Asks
  <2> HIDE DEF s, t
  <2>4. IsStream(s) /\ IsSeq(s) /\ DOMAIN s = 1..2 /\ IsSeq(s[1]) /\ IsSeq(s[2])
    BY <2>1, <2>3, IsSeqFacts DEF Rest, IsStream
  <2>5. /\ IsSeq(all) /\ Len(all) = Len(s) + 1 /\ all[Len(s) + 1] = t
        /\ \A k \in 1..Len(s) : all[k] = s[k]
    BY <2>4, AppendFacts
  <2> HIDE DEF all
  <2>6. DOMAIN all = 1..3 /\ all[1] = s[1] /\ all[2] = s[2] /\ all[3] = t
    BY <2>3, <2>5, IsSeqFacts
  <2>7. IsStream(all)
    BY <2>2, <2>4, <2>5, <2>6 DEF IsStream
  <2>8. Fits(all[1], 1, cmd, j) /\ Fits(all[2], 2, cmd, j) /\ Fits(all[3], 3, cmd, j)
    <3>1. Fits(s[1], 1 + 1 - 1, cmd, j) /\ Fits(s[2], 1 + 2 - 1, cmd, j)
      BY <2>1, <2>4 DEF Rest
    <3> QED
      BY <2>2, <2>6, <3>1
  <2>9. Rest(all, 1, cmd, j)
    BY <2>6, <2>7, <2>8 DEF Rest
  <2> QED
    BY <2>9 DEF all, s, t
<1> QED
  BY <1>2, <1>3, <1>4

\* The key may come before it.
LEMMA RestAfterKey ==
  ASSUME NEW k, IsSeq(k), Len(k) = KekLen, NEW s, NEW cmd, NEW j, Rest(s, 1, cmd, j)
  PROVE  Rest(<<k>> \o s, 0, cmd, j)
<1> DEFINE all == <<k>> \o s
<1>1. IsStream(s) /\ IsSeq(s) /\ Len(s) \in Nat /\ DOMAIN s = 1..Len(s)
  BY IsSeqFacts DEF Rest, IsStream
<1>2. IsStream(<<k>>) /\ IsSeq(<<k>>) /\ Len(<<k>>) = 1 /\ <<k>>[1] = k
  BY TupleStream, TupleFacts
<1>3. IsStream(all) /\ IsSeq(all) /\ Len(all) = 1 + Len(s) /\ all[1] = k /\ \A n \in 1..Len(s) : all[1 + n] = s[n]
  BY <1>1, <1>2, StreamFacts, JoinFacts
<1>4. DOMAIN all = 1..(1 + Len(s))
  BY <1>3, IsSeqFacts
<1> HIDE DEF all
<1>5. ASSUME NEW n \in DOMAIN all PROVE Fits(all[n], 0 + n - 1, cmd, j)
  <2>1. CASE n = 1
    BY <1>3, <2>1 DEF Fits
  <2>2. CASE n # 1
    <3>1. n - 1 \in 1..Len(s) /\ 1 + (n - 1) = n /\ 1 + (n - 1) - 1 = 0 + n - 1
      BY <1>1, <1>4, <2>2
    <3> QED
      BY <1>1, <1>3, <3>1 DEF Rest
  <2> QED
    BY <2>1, <2>2
<1>6. Rest(all, 0, cmd, j)
  BY <1>3, <1>5 DEF Rest
<1> QED
  BY <1>6 DEF all

-------------------------------------------------------------------------------
\* What the server sends

\* What is read of the replies to a search, and what is left of them.
LEMMA RepliesRead ==
  ASSUME NEW s, IsReplies(s), s # <<>>
  PROVE  /\ IsStream(s) /\ Announces(s[1]) /\ IsStream(Tail(s))
         /\ Number(s[1][12]) = 0 => Tail(s) = <<>>
         /\ Tail(s) # <<>> => Len(Tail(s)[1]) = 1 /\ IsReplies(Tail(Tail(s)))
<1>1. IsStream(s) /\ Len(s) \in Nat /\ Len(s) >= 1 /\ DOMAIN s = 1..Len(s)
  BY StreamShape DEF IsReplies
<1>2. IsStream(Tail(s)) /\ Len(Tail(s)) = Len(s) - 1 /\ \A k \in 1..(Len(s) - 1) : Tail(s)[k] = s[k + 1]
  BY <1>1, TailShape
<1>3. \A k \in 1..Len(s) :
        IF k % 2 = 1 THEN Announces(s[k]) /\ (Number(s[k][12]) = 0 => k = Len(s)) ELSE Len(s[k]) = 1
  BY <1>1 DEF IsReplies
<1>4. Announces(s[1]) /\ (Number(s[1][12]) = 0 => 1 = Len(s))
  <2>1. 1 \in 1..Len(s) /\ 1 % 2 = 1
    BY <1>1
  <2> QED
    BY <1>3, <2>1
<1>5. Number(s[1][12]) = 0 => Tail(s) = <<>>
  <2> DEFINE t == Tail(s)
  <2>1. IsStream(t) /\ Len(t) = Len(s) - 1
    BY <1>2
  <2> HIDE DEF t
  <2>2. ASSUME Len(s) = 1 PROVE Len(t) = 0
    <3>1. Len(t) = 1 - 1
      BY <2>1, <2>2
    <3> QED
      BY <3>1
  <2>3. Len(s) = 1 => t = <<>>
    BY <2>1, <2>2, StreamShape
  <2> QED
    BY <1>4, <2>3 DEF t
<1>6. ASSUME Tail(s) # <<>> PROVE Len(Tail(s)[1]) = 1 /\ IsReplies(Tail(Tail(s)))
  <2> DEFINE u == Tail(Tail(s))
  <2>1. IsStream(u) /\ Len(u) = Len(s) - 2 /\ \A k \in 1..(Len(s) - 2) : u[k] = s[k + 2]
    BY <1>1, <1>6, SecondTailShape
  <2>2. Len(s) >= 2
    BY <1>1, <1>2, <1>6, StreamShape
  <2>3. Len(Tail(s)[1]) = 1
    <3>1. 1 \in 1..(Len(s) - 1) /\ 2 \in 1..Len(s) /\ 1 + 1 = 2 /\ 2 % 2 # 1
      BY <1>1, <2>2
    <3> QED
      BY <1>2, <1>3, <3>1
  <2> HIDE DEF u
  <2>4. DOMAIN u = 1..(Len(s) - 2)
    BY <2>1, StreamShape
  <2>5. ASSUME NEW k \in DOMAIN u
        PROVE  IF k % 2 = 1 THEN Announces(u[k]) /\ (Number(u[k][12]) = 0 => k = Len(u)) ELSE Len(u[k]) = 1
    <3>1. k + 2 \in 1..Len(s) /\ (k + 2) % 2 = k % 2 /\ (k + 2 = Len(s) => k = Len(u))
      BY <1>1, <2>1, <2>4
    <3>2. u[k] = s[k + 2]
      BY <2>1, <2>4
    <3> QED
      BY <1>3, <3>1, <3>2
  <2>6. IsReplies(u)
    BY <2>1, <2>5 DEF IsReplies
  <2> QED
    BY <2>3, <2>6 DEF u
<1> QED
  BY <1>1, <1>2, <1>4, <1>5, <1>6

LEMMA RepliesPart ==
  ASSUME NEW s, IsReplies(s), NEW n \in 0..Len(s)
  PROVE  IsReplies(SubSeq(s, 1, n))
<1> DEFINE p == SubSeq(s, 1, n)
<1>1. IsStream(s) /\ Len(s) \in Nat /\ DOMAIN s = 1..Len(s)
  BY StreamShape DEF IsReplies
<1>2. IsStream(p) /\ Len(p) = n /\ \A k \in 1..n : p[k] = s[k]
  BY <1>1, PartShape
<1> HIDE DEF p
<1>3. DOMAIN p = 1..n
  BY <1>2, StreamShape
<1>4. ASSUME NEW k \in DOMAIN p
      PROVE  IF k % 2 = 1 THEN Announces(p[k]) /\ (Number(p[k][12]) = 0 => k = Len(p)) ELSE Len(p[k]) = 1
  <2>1. k \in DOMAIN s /\ p[k] = s[k] /\ (k = Len(s) => k = Len(p))
    BY <1>1, <1>2, <1>3
  <2> QED
    BY <2>1 DEF IsReplies
<1>5. IsReplies(p)
  BY <1>2, <1>4 DEF IsReplies
<1> QED
  BY <1>5 DEF p

\* Pairs of a message and an entry, and a last message, are replies.
LEMMA RepliesMade ==
  ASSUME NEW p, NEW A, NEW B, Pairs(p, A, B),
         \A r \in A : IsSeq(r) /\ Announces(r) /\ Number(r[12]) # 0,
         \A r \in B : IsSeq(r) /\ Len(r) = 1,
         NEW m, IsSeq(m), Announces(m)
  PROVE  IsReplies(Append(p, m))
<1> DEFINE s == Append(p, m)
<1>1. IsSeq(p) /\ Len(p) \in Nat /\ Len(p) % 2 = 0
  BY IsSeqFacts DEF Pairs
<1>2. IsSeq(s) /\ Len(s) = Len(p) + 1 /\ s[Len(p) + 1] = m /\ \A k \in 1..Len(p) : s[k] = p[k]
  BY <1>1, AppendFacts
<1> HIDE DEF s
<1>3. DOMAIN s = 1..Len(s)
  BY <1>2, IsSeqFacts
<1>4. ASSUME NEW k \in DOMAIN s
      PROVE  /\ IsSeq(s[k])
             /\ IF k % 2 = 1 THEN Announces(s[k]) /\ (Number(s[k][12]) = 0 => k = Len(s)) ELSE Len(s[k]) = 1
  <2>1. CASE k = Len(s)
    <3>1. k % 2 = 1 /\ s[k] = m
      BY <1>1, <1>2, <2>1
    <3> QED
      BY <2>1, <3>1
  <2>2. CASE k # Len(s)
    <3>1. k \in 1..Len(p) /\ s[k] = p[k]
      BY <1>1, <1>2, <1>3, <2>2
    <3> QED
      BY <3>1 DEF Pairs
  <2> QED
    BY <2>1, <2>2
<1>5. IsReplies(s)
  BY <1>2, <1>4 DEF IsReplies, IsStream
<1> QED
  BY <1>5 DEF s

\* The same of an export.
LEMMA ExportRead ==
  ASSUME NEW s, IsExport(s), s # <<>>
  PROVE  /\ IsStream(s) /\ Len(s[1]) = 4 /\ IsStream(Tail(s))
         /\ Number(s[1][4]) # 0 /\ Tail(s) # <<>> =>
              Len(Tail(s)[1]) = 1 /\ Tail(s)[1][1] \in Sized /\ IsExport(Tail(Tail(s)))
<1>1. IsStream(s) /\ Len(s) \in Nat /\ Len(s) >= 1 /\ DOMAIN s = 1..Len(s)
  BY StreamShape DEF IsExport
<1>2. IsStream(Tail(s)) /\ Len(Tail(s)) = Len(s) - 1 /\ \A k \in 1..(Len(s) - 1) : Tail(s)[k] = s[k + 1]
  BY <1>1, TailShape
<1>3. \A k \in 1..Len(s) :
        IF k % 2 = 1 THEN Len(s[k]) = 4 /\ (Number(s[k][4]) = 0 => k >= Len(s) - 1)
        ELSE \/ Len(s[k]) = 1 /\ s[k][1] \in Sized
             \/ k = Len(s) /\ Number(s[k - 1][4]) = 0
  BY <1>1 DEF IsExport
<1>4. Len(s[1]) = 4
  <2>1. 1 \in 1..Len(s) /\ 1 % 2 = 1
    BY <1>1
  <2> QED
    BY <1>3, <2>1
<1>5. ASSUME Number(s[1][4]) # 0, Tail(s) # <<>>
      PROVE  Len(Tail(s)[1]) = 1 /\ Tail(s)[1][1] \in Sized /\ IsExport(Tail(Tail(s)))
  <2> DEFINE u == Tail(Tail(s))
  <2>1. IsStream(u) /\ Len(u) = Len(s) - 2 /\ \A k \in 1..(Len(s) - 2) : u[k] = s[k + 2]
    BY <1>1, <1>5, SecondTailShape
  <2>2. Len(s) >= 2
    BY <1>1, <1>2, <1>5, StreamShape
  <2>3. Len(Tail(s)[1]) = 1 /\ Tail(s)[1][1] \in Sized
    <3>1. 1 \in 1..(Len(s) - 1) /\ 2 \in 1..Len(s) /\ 1 + 1 = 2 /\ 2 % 2 # 1 /\ 2 - 1 = 1
      BY <1>1, <2>2
    <3> QED
      BY <1>2, <1>3, <1>5, <3>1
  <2> HIDE DEF u
  <2>4. DOMAIN u = 1..(Len(s) - 2)
    BY <2>1, StreamShape
  <2>5. ASSUME NEW k \in DOMAIN u
        PROVE  IF k % 2 = 1 THEN Len(u[k]) = 4 /\ (Number(u[k][4]) = 0 => k >= Len(u) - 1)
               ELSE \/ Len(u[k]) = 1 /\ u[k][1] \in Sized
                    \/ k = Len(u) /\ Number(u[k - 1][4]) = 0
    <3>1. k + 2 \in 1..Len(s) /\ (k + 2) % 2 = k % 2 /\ (k + 2 = Len(s) => k = Len(u))
          /\ (k + 2 >= Len(s) - 1 => k >= Len(u) - 1)
      BY <1>1, <2>1, <2>4
    <3>2. u[k] = s[k + 2]
      BY <2>1, <2>4
    <3>3. k % 2 # 1 => u[k - 1] = s[k + 2 - 1]
      <4>1. k % 2 # 1 => k - 1 \in 1..(Len(s) - 2) /\ (k - 1) + 2 = k + 2 - 1
        BY <1>1, <2>4
      <4> QED
        BY <2>1, <4>1
    <3> QED
      BY <1>3, <3>1, <3>2, <3>3
  <2>6. IsExport(u)
    BY <2>1, <2>5 DEF IsExport
  <2> QED
    BY <2>3, <2>6 DEF u
<1> QED
  BY <1>1, <1>2, <1>4, <1>5

LEMMA ExportPart ==
  ASSUME NEW s, IsExport(s), NEW n \in 0..Len(s)
  PROVE  IsExport(SubSeq(s, 1, n))
<1> DEFINE p == SubSeq(s, 1, n)
<1>1. IsStream(s) /\ Len(s) \in Nat /\ DOMAIN s = 1..Len(s)
  BY StreamShape DEF IsExport
<1>2. IsStream(p) /\ Len(p) = n /\ \A k \in 1..n : p[k] = s[k]
  BY <1>1, PartShape
<1> HIDE DEF p
<1>3. DOMAIN p = 1..n
  BY <1>2, StreamShape
<1>4. ASSUME NEW k \in DOMAIN p
      PROVE  IF k % 2 = 1 THEN Len(p[k]) = 4 /\ (Number(p[k][4]) = 0 => k >= Len(p) - 1)
             ELSE \/ Len(p[k]) = 1 /\ p[k][1] \in Sized
                  \/ k = Len(p) /\ Number(p[k - 1][4]) = 0
  <2>1. k \in DOMAIN s /\ p[k] = s[k] /\ (k = Len(s) => k = Len(p)) /\ (k >= Len(s) - 1 => k >= Len(p) - 1)
    BY <1>1, <1>2, <1>3
  <2>2. k % 2 # 1 => p[k - 1] = s[k - 1]
    <3>1. k % 2 # 1 => k - 1 \in 1..n
      BY <1>1, <1>3
    <3> QED
      BY <1>2, <3>1
  <2> QED
    BY <2>1, <2>2 DEF IsExport
<1>5. IsExport(p)
  BY <1>2, <1>4 DEF IsExport
<1> QED
  BY <1>5 DEF p

LEMMA ExportMade ==
  ASSUME NEW p, NEW A, NEW B, Pairs(p, A, B),
         \A r \in A : IsSeq(r) /\ Len(r) = 4 /\ Number(r[4]) # 0,
         \A r \in B : IsSeq(r) /\ Len(r) = 1 /\ r[1] \in Sized,
         NEW z, IsSeq(z), Len(z) = 4, Number(z[4]) = 0, NEW m, IsSeq(m)
  PROVE  IsExport(Append(Append(p, z), m))
<1> DEFINE q == Append(p, z)  s == Append(q, m)
<1>1. IsSeq(p) /\ Len(p) \in Nat /\ Len(p) % 2 = 0
  BY IsSeqFacts DEF Pairs
<1>2. IsSeq(q) /\ Len(q) = Len(p) + 1 /\ q[Len(p) + 1] = z /\ \A k \in 1..Len(p) : q[k] = p[k]
  BY <1>1, AppendFacts
<1> HIDE DEF q
<1>3. IsSeq(s) /\ Len(s) = Len(q) + 1 /\ s[Len(q) + 1] = m /\ \A k \in 1..Len(q) : s[k] = q[k]
  BY <1>2, AppendFacts
<1> HIDE DEF s
<1>4. DOMAIN s = 1..Len(s) /\ Len(s) = Len(p) + 2
  BY <1>1, <1>2, <1>3, IsSeqFacts
<1>5. ASSUME NEW k \in DOMAIN s
      PROVE  /\ IsSeq(s[k])
             /\ IF k % 2 = 1 THEN Len(s[k]) = 4 /\ (Number(s[k][4]) = 0 => k >= Len(s) - 1)
                ELSE \/ Len(s[k]) = 1 /\ s[k][1] \in Sized
                     \/ k = Len(s) /\ Number(s[k - 1][4]) = 0
  <2>1. CASE k = Len(s)
    <3>1. k % 2 # 1 /\ s[k] = m
      BY <1>1, <1>2, <1>3, <1>4, <2>1
    <3>2. s[k - 1] = z
      <4>1. k - 1 = Len(p) + 1 /\ k - 1 \in 1..Len(q)
        BY <1>1, <1>2, <1>4, <2>1
      <4> QED
        BY <1>2, <1>3, <4>1
    <3> QED
      BY <2>1, <3>1, <3>2
  <2>2. CASE k = Len(s) - 1
    <3>1. k % 2 = 1 /\ s[k] = z /\ k >= Len(s) - 1
      BY <1>1, <1>2, <1>3, <1>4, <2>2
    <3> QED
      BY <3>1
  <2>3. CASE k < Len(s) - 1
    <3>1. k \in 1..Len(p) /\ s[k] = p[k]
      BY <1>1, <1>2, <1>3, <1>4, <2>3
    <3> QED
      BY <3>1 DEF Pairs
  <2> QED
    BY <1>4, <2>1, <2>2, <2>3
<1>6. IsExport(s)
  BY <1>3, <1>5 DEF IsExport, IsStream
<1> QED
  BY <1>6 DEF s, q

-------------------------------------------------------------------------------
\* The index

Term == [str : Seq(Nat), ids : Seq(Ids)]

LEMMA TermAt ==
  ASSUME NEW idx \in Seq(Term), NEW i \in DOMAIN idx
  PROVE  idx[i].ids \in Seq(Ids)
<1>1. idx[i] \in Term
  OBVIOUS
<1> QED
  BY <1>1 DEF Term

LEMMA SearchType ==
  ASSUME NEW idx \in Seq(Term), NEW value, NEW limit \in Nat
  PROVE  SearchIndex(idx, value, limit) \in Seq(Ids)
<1> DEFINE f == [i \in DOMAIN idx |->
                   IF Len(idx[i].str) >= Len(value) /\ TermContains(idx[i].str, value)
                   THEN idx[i].ids ELSE <<>>]
           found == FlattenSeq(f)
<1>1. \A i \in DOMAIN idx : f[i] \in Seq(Ids)
  BY TermAt
<1>2. f = [i \in DOMAIN idx |-> f[i]]
  OBVIOUS
<1>3. SearchIndex(idx, value, limit) = SubSeq(found, 1, IF Len(found) < limit THEN Len(found) ELSE limit)
  BY DEF SearchIndex
<1> HIDE DEF f
<1>4. f \in Seq(Seq(Ids))
  BY <1>1, <1>2, OnPlaces
<1>5. found \in Seq(Ids)
  BY <1>4, FlattenType
<1> HIDE DEF found
<1> QED
  BY <1>3, <1>5

LEMMA UniqueType ==
  ASSUME NEW idx \in Seq(Term)
  PROVE  UniqueIds(idx) \in Seq(Ids)
<1> DEFINE all == FlattenSeq([i \in DOMAIN idx |-> idx[i].ids])
           first(k) == \A j \in 1..(k - 1) : all[j] # all[k]
           f == [k \in DOMAIN all |-> IF first(k) THEN <<all[k]>> ELSE <<>>]
<1>1. all \in Seq(Ids)
  <2> DEFINE g == [i \in DOMAIN idx |-> idx[i].ids]
  <2>1. \A i \in DOMAIN idx : g[i] \in Seq(Ids)
    BY TermAt
  <2>2. g = [i \in DOMAIN idx |-> g[i]]
    OBVIOUS
  <2> HIDE DEF g
  <2>3. g \in Seq(Seq(Ids))
    BY <2>1, <2>2, OnPlaces
  <2>4. FlattenSeq(g) \in Seq(Ids)
    BY <2>3, FlattenType
  <2> QED
    BY <2>4 DEF g
<1>2. UniqueIds(idx) = FlattenSeq(f)
  BY DEF UniqueIds
<1> HIDE DEF all
<1>3. \A k \in DOMAIN all : f[k] \in Seq(Ids)
  BY <1>1
<1>4. f = [k \in DOMAIN all |-> f[k]]
  OBVIOUS
<1> HIDE DEF f
<1>5. f \in Seq(Seq(Ids))
  BY <1>1, <1>3, <1>4, OnPlaces
<1> QED
  BY <1>2, <1>5, FlattenType

LEMMA WriteTermType ==
  ASSUME NEW term \in Term, NEW id \in Ids, NEW append \in BOOLEAN
  PROVE  WriteTerm(term, id, append) \in Term
<1> DEFINE old == term.ids
           f == [k \in DOMAIN old |-> IF old[k] = id THEN <<>> ELSE <<old[k]>>]
           new == IF ~ append THEN FlattenSeq(f) ELSE IF Contains(old, id) THEN old ELSE Append(old, id)
<1>1. WriteTerm(term, id, append) = [term EXCEPT !.ids = new]
  BY DEF WriteTerm
<1>2. old \in Seq(Ids)
  BY DEF Term
<1>3. FlattenSeq(f) \in Seq(Ids)
  <2>1. \A k \in DOMAIN old : f[k] \in Seq(Ids)
    BY <1>2
  <2>2. f = [k \in DOMAIN old |-> f[k]]
    OBVIOUS
  <2> HIDE DEF f, old
  <2>3. f \in Seq(Seq(Ids))
    BY <1>2, <2>1, <2>2, OnPlaces
  <2> QED
    BY <2>3, FlattenType
<1>4. new \in Seq(Ids)
  <2> HIDE DEF f, old
  <2> QED
    BY <1>2, <1>3
<1> HIDE DEF new
<1> QED
  BY <1>1, <1>4 DEF Term

LEMMA UpdateType ==
  ASSUME NEW idx \in Seq(Term), NEW id \in Ids, NEW e \in EntryText
  PROVE  UpdateIndex(idx, id, e) \in Seq(Term)
<1> DEFINE vals == Written(e)
           appends(i) == Contains(vals, idx[i].str) /\ \A k \in 1..(i - 1) : idx[k].str # idx[i].str
           old(i) == IF ~ appends(i) /\ idx[i].ids = <<id>> THEN <<>>
                     ELSE <<WriteTerm(idx[i], id, appends(i))>>
           isNew(val) == \A i \in DOMAIN idx : idx[i].str # val
           new(val) == IF isNew(val) THEN <<[str |-> val, ids |-> <<id>>]>> ELSE <<>>
           f == [i \in DOMAIN idx |-> old(i)]
           g == [j \in DOMAIN vals |-> new(vals[j])]
<1>1. UpdateIndex(idx, id, e) = FlattenSeq(f) \o FlattenSeq(g)
  BY DEF UpdateIndex
<1>2. vals \in Seq(Seq(Nat))
  BY WrittenType
<1>3. \A i \in DOMAIN idx : f[i] \in Seq(Term)
  <2> SUFFICES ASSUME NEW i \in DOMAIN idx PROVE old(i) \in Seq(Term)
    OBVIOUS
  <2>1. idx[i] \in Term /\ appends(i) \in BOOLEAN
    OBVIOUS
  <2> HIDE DEF appends
  <2>2. WriteTerm(idx[i], id, appends(i)) \in Term
    BY <2>1, WriteTermType
  <2> QED
    BY <2>2
<1>4. \A j \in DOMAIN vals : g[j] \in Seq(Term)
  <2> HIDE DEF vals
  <2> SUFFICES ASSUME NEW j \in DOMAIN vals PROVE new(vals[j]) \in Seq(Term)
    OBVIOUS
  <2>1. [str |-> vals[j], ids |-> <<id>>] \in Term
    BY <1>2 DEF Term
  <2> QED
    BY <2>1
<1>5. f = [i \in DOMAIN idx |-> f[i]] /\ g = [j \in DOMAIN vals |-> g[j]]
  OBVIOUS
<1> HIDE DEF f, g, vals
<1>6. f \in Seq(Seq(Term)) /\ g \in Seq(Seq(Term))
  BY <1>2, <1>3, <1>4, <1>5, OnPlaces
<1>7. FlattenSeq(f) \in Seq(Term) /\ FlattenSeq(g) \in Seq(Term)
  BY <1>6, FlattenType
<1> QED
  BY <1>1, <1>7

\* A file that is gone holds no field, and one that loads holds an entry.
LEMMA EntryTypes ==
  /\ Absent \in EntryText /\ <<>> \in EntryText
  /\ Absent \in Contents /\ Unreadable \in Contents /\ EntryText \subseteq Contents
BY DEF Absent, EntryText, Contents

LEMMA LoadsEntry == ASSUME NEW i, file[i] \in Contents, Loads(i) PROVE file[i] \in EntryText
BY DEF Loads, Contents

\* find_entry sends pairs of messages and entries, an export pairs of sizes and entries.
LEMMA FindPairs ==
  ASSUME NEW matches \in Seq(Ids)
  PROVE  Pairs(FindReplies(matches), {Message(OK, Len(matches), 1)}, {<<[entry |-> file[i]]>> : i \in Ids})
<1> DEFINE A == {Message(OK, Len(matches), 1)}  B == {<<[entry |-> file[i]]>> : i \in Ids}
           f == [k \in DOMAIN matches |->
                   IF Loads(matches[k])
                   THEN <<Message(OK, Len(matches), 1), <<[entry |-> file[matches[k]]]>>>> ELSE <<>>]
<1>1. FindReplies(matches) = FlattenSeq(f)
  BY DEF FindReplies
<1>2. \A k \in DOMAIN matches : f[k] \in Seq(A \cup B) /\ Pairs(f[k], A, B)
  <2> SUFFICES ASSUME NEW k \in DOMAIN matches PROVE f[k] \in Seq(A \cup B) /\ Pairs(f[k], A, B)
    OBVIOUS
  <2> DEFINE a == Message(OK, Len(matches), 1)  b == <<[entry |-> file[matches[k]]]>>
  <2>1. a \in A /\ b \in B /\ f[k] \in {<<>>, <<a, b>>}
    OBVIOUS
  <2> HIDE DEF a, b, f, A, B
  <2>2. Pairs(<<>>, A, B) /\ <<>> \in Seq(A \cup B)
    BY TupleFacts DEF Pairs
  <2>3. Pairs(<<a, b>>, A, B) /\ <<a, b>> \in Seq(A \cup B)
    BY <2>1, TupleFacts DEF Pairs
  <2> QED
    BY <2>1, <2>2, <2>3
<1>3. f = [k \in DOMAIN matches |-> f[k]] /\ DOMAIN f = DOMAIN matches
  OBVIOUS
<1> HIDE DEF f, A, B
<1>4. f \in Seq(Seq(A \cup B))
  <2> DEFINE T == Seq(A \cup B)
  <2>1. \A k \in DOMAIN matches : f[k] \in T
    BY <1>2
  <2> HIDE DEF T
  <2>2. f \in Seq(T)
    BY <1>3, <2>1, OnPlaces
  <2> QED
    BY <2>2 DEF T
<1>5. IsSeq(f) /\ DOMAIN f = 1..Len(f)
  BY <1>4, SeqIsSeq
<1>6. Pairs(FlattenSeq(f), A, B)
  BY <1>2, <1>3, <1>5, FlattenPairs
<1> QED
  BY <1>1, <1>6 DEF A, B

LEMMA ExportPairs ==
  ASSUME NEW ids \in Seq(Ids), NEW n \in 0..Len(ids), n \in Sendable(ids)
  PROVE  Pairs(SizedEntries(ids, n), {Word(1)}, {<<[entry |-> file[i]]>> : i \in {x \in Ids : Loads(x)}})
<1> DEFINE A == {Word(1)}  B == {<<[entry |-> file[i]]>> : i \in {x \in Ids : Loads(x)}}
           f == [k \in 1..n |-> <<Word(1), <<[entry |-> file[ids[k]]]>>>>]
<1>1. SizedEntries(ids, n) = FlattenSeq(f)
  BY DEF SizedEntries
<1>2. \A k \in 1..n : f[k] \in Seq(A \cup B) /\ Pairs(f[k], A, B)
  <2> SUFFICES ASSUME NEW k \in 1..n PROVE f[k] \in Seq(A \cup B) /\ Pairs(f[k], A, B)
    OBVIOUS
  <2> DEFINE a == Word(1)  b == <<[entry |-> file[ids[k]]]>>
  <2>1. a \in A /\ b \in B /\ f[k] = <<a, b>>
    <3>1. ids[k] \in Ids /\ Loads(ids[k])
      BY DEF Sendable
    <3> QED
      BY <3>1
  <2> HIDE DEF a, b, f, A, B
  <2>2. Pairs(<<a, b>>, A, B) /\ <<a, b>> \in Seq(A \cup B)
    BY <2>1, TupleFacts DEF Pairs
  <2> QED
    BY <2>1, <2>2
<1>3. f \in [1..n -> Seq(A \cup B)]
  BY <1>2
<1> HIDE DEF f, A, B
<1>4. f \in Seq(Seq(A \cup B)) /\ Len(f) = n
  BY <1>3, FunctionIsSeq
<1>5. IsSeq(f)
  BY <1>4, SeqIsSeq
<1>6. Pairs(FlattenSeq(f), A, B)
  BY <1>2, <1>4, <1>5, FlattenPairs
<1> QED
  BY <1>1, <1>6 DEF A, B

-------------------------------------------------------------------------------
\* More about requests

\* Only what adds, edits or sets a password depends on the job.
LEMMA RestOther ==
  ASSUME NEW s, NEW m, NEW cmd, NEW j, NEW i, Rest(s, m, cmd, j),
         cmd \notin {Cmd.add, Cmd.edit, Cmd.passwd}
  PROVE  Rest(s, m, cmd, i)
<1>1. \A c : Carries(c, cmd, j) <=> Carries(c, cmd, i)
  BY DEF Carries
<1>2. \A r, n : Fits(r, n, cmd, j) => Fits(r, n, cmd, i)
  BY <1>1 DEF Fits
<1> QED
  BY <1>2 DEF Rest

\* After an entry an import goes on as it did before.
LEMMA RestShift ==
  ASSUME NEW s, NEW j, Rest(s, 4, Cmd.import, j)
  PROVE  Rest(s, 2, Cmd.import, j)
<1>1. IsStream(s) /\ DOMAIN s = 1..Len(s) /\ Len(s) \in Nat
  BY StreamShape DEF Rest
<1>2. ASSUME NEW k \in 1..Len(s) PROVE Fits(s[k], 2 + k - 1, Cmd.import, j)
  <2>1. Fits(s[k], 4 + k - 1, Cmd.import, j)
    BY <1>1 DEF Rest
  <2>2. 4 + k - 1 >= 4 /\ 2 + k - 1 >= 2 /\ (4 + k - 1) % 2 = (2 + k - 1) % 2
        /\ ((2 + k - 1) % 2 = 1 => 2 + k - 1 >= 3)
    BY <1>1
  <2> DEFINE a == 4 + k - 1  b == 2 + k - 1
  <2>3. a >= 4 /\ b >= 2 /\ a % 2 = b % 2 /\ (b % 2 = 1 => b >= 3) /\ Fits(s[k], a, Cmd.import, j)
    BY <2>1, <2>2
  <2> HIDE DEF a, b
  <2>4. a # 0 /\ a # 1 /\ a # 2 /\ a # 3
    BY <2>3
  <2>5. Fits(s[k], b, Cmd.import, j)
    BY <2>3, <2>4 DEF Fits
  <2> QED
    BY <2>5 DEF b
<1> QED
  BY <1>1, <1>2 DEF Rest

\* What is not an edit or an import is over after what the message announces.
LEMMA RestOver ==
  ASSUME NEW s, NEW cmd, NEW j, cmd \notin {Cmd.edit, Cmd.import}, Rest(s, 3, cmd, j)
  PROVE  s = <<>>
<1>1. SUFFICES ASSUME s # <<>> PROVE FALSE
  OBVIOUS
<1>2. Fits(s[1], 3, cmd, j)
  BY <1>1, RestFirst
<1> QED
  BY <1>2 DEF Fits

LEMMA RestJoin ==
  ASSUME NEW s, NEW t, NEW m \in Nat, NEW n, NEW cmd, NEW j,
         Rest(s, m, cmd, j), n = m + Len(s), Rest(t, n, cmd, j)
  PROVE  Rest(s \o t, m, cmd, j)
<1> DEFINE a == s \o t
<1>1. /\ IsStream(s) /\ IsSeq(s) /\ Len(s) \in Nat /\ DOMAIN s = 1..Len(s)
      /\ IsStream(t) /\ IsSeq(t) /\ Len(t) \in Nat /\ DOMAIN t = 1..Len(t)
  BY StreamShape DEF Rest, IsStream
<1>2. /\ IsStream(a) /\ Len(a) = Len(s) + Len(t)
      /\ \A k \in 1..Len(s) : a[k] = s[k]
      /\ \A k \in 1..Len(t) : a[Len(s) + k] = t[k]
  BY <1>1, JoinFacts, StreamFacts
<1> HIDE DEF a
<1>3. DOMAIN a = 1..(Len(s) + Len(t))
  BY <1>2, StreamShape
<1>4. ASSUME NEW k \in DOMAIN a PROVE Fits(a[k], m + k - 1, cmd, j)
  <2>1. CASE k <= Len(s)
    <3>1. k \in DOMAIN s /\ a[k] = s[k]
      BY <1>1, <1>2, <1>3, <2>1
    <3> QED
      BY <3>1 DEF Rest
  <2>2. CASE ~ (k <= Len(s))
    <3>1. k - Len(s) \in DOMAIN t /\ Len(s) + (k - Len(s)) = k /\ n + (k - Len(s)) - 1 = m + k - 1
      BY <1>1, <1>3, <2>2
    <3>2. a[k] = t[k - Len(s)]
      BY <1>1, <1>2, <3>1
    <3>3. Fits(t[k - Len(s)], n + (k - Len(s)) - 1, cmd, j)
      BY <3>1 DEF Rest
    <3> QED
      BY <3>1, <3>2, <3>3
  <2> QED
    BY <2>1, <2>2
<1>5. Rest(a, m, cmd, j)
  BY <1>2, <1>4 DEF Rest
<1> QED
  BY <1>5 DEF a

LEMMA EmptyShapes == IsReplies(<<>>) /\ IsExport(<<>>) /\ Range(<<>>) = {}
<1>1. DOMAIN <<>> = {}
  OBVIOUS
<1> QED
  BY <1>1, TupleStream DEF IsReplies, IsExport, Range

-------------------------------------------------------------------------------
\* Steps

\* What each part of the invariant is about.
LEMMA Frames ==
  /\ Typed /\ UNCHANGED <<index, file, export, client, unsent, job, search>> => Typed'
  /\ JobKnown /\ UNCHANGED <<client, job>> => JobKnown'
  /\ Understood /\ UNCHANGED <<client, toServer, server, clientOn, job, request>> => Understood'
  /\ Whole /\ UNCHANGED <<client, job, server, serverOn, toServer>> => Whole'
  /\ Present /\ UNCHANGED <<client, clientOn, toClient, serverOn, toServer, server, served, shown, search>>
       => Present'
  /\ Heard /\ UNCHANGED <<client, clientOn, toClient, server, serverOn, toServer, shown, job, export, served, code>>
       => Heard'
  /\ DoneRight /\ UNCHANGED <<client, job, server, serverOn, served, password>> => DoneRight'
<1>1. Typed /\ UNCHANGED <<index, file, export, client, unsent, job, search>> => Typed'
  BY DEF Typed
<1>2. JobKnown /\ UNCHANGED <<client, job>> => JobKnown'
  BY DEF JobKnown
<1>3. Understood /\ UNCHANGED <<client, toServer, server, clientOn, job, request>> => Understood'
  BY DEF Understood, Idle, Asked, Sent, Requested, RequestKnown, EntryKnown
<1>4. Whole /\ UNCHANGED <<client, job, server, serverOn, toServer>> => Whole'
  BY DEF Whole
<1>5. Present /\ UNCHANGED <<client, clientOn, toClient, serverOn, toServer, server, served, shown, search>>
      => Present'
  BY DEF Present, Idle
<1>6. Heard /\ UNCHANGED <<client, clientOn, toClient, server, serverOn, toServer, shown, job, export, served, code>>
      => Heard'
  BY DEF Heard, Told
<1>7. DoneRight /\ UNCHANGED <<client, job, server, serverOn, served, password>> => DoneRight'
  BY DEF DoneRight, IsTheJob, Requested
<1> QED
  BY <1>1, <1>2, <1>3, <1>4, <1>5, <1>6, <1>7

\* While the server serves or reads, nothing but searches has been done.
LEMMA OnlySearches ==
  ASSUME DoneRight, server # "accept" \/ ~ Requested
  PROVE  /\ \A k \in DOMAIN served : served[k].cmd = Cmd.find
         /\ job.cmd # Cmd.find => ~ Told
<1>1. \A k \in DOMAIN served : served[k].cmd = Cmd.find
  BY DEF DoneRight
<1>2. ASSUME job.cmd # Cmd.find, Told PROVE FALSE
  <2>1. IsSeq(served) /\ served # <<>> /\ Last(served) = served[Len(served)]
    BY <1>2 DEF DoneRight, Told, Last
  <2>2. Len(served) \in DOMAIN served
    BY <2>1, IsSeqFacts
  <2> QED
    BY <1>1, <1>2, <2>1, <2>2 DEF Told
<1> QED
  BY <1>1, <1>2

LEMMA PongKeeps == ASSUME SessionInv, Pong PROVE SessionInv'
<1>1. search' \in [sent : Nat, ping : BOOLEAN, pong : BOOLEAN] /\ ~ search'.ping
      /\ UNCHANGED <<db, link, serving, using>>
      /\ search.ping /\ server = "accept" /\ ~ serverOn
  BY DEF Pong, SessionInv, Typed
<1>2. Typed'
  BY <1>1 DEF SessionInv, Typed, db, using
<1>3. Present'
  BY <1>1 DEF SessionInv, Present, Idle, db, link, serving, using
<1> QED
  BY <1>1, <1>2, <1>3, Frames DEF SessionInv, db, link, serving, using

LEMMA PingKeeps == ASSUME SessionInv, Ping PROVE SessionInv'
<1>0. search \in [sent : Nat, ping : BOOLEAN, pong : BOOLEAN]
  BY DEF SessionInv, Typed
<1>1. PICK up \in BOOLEAN :
      /\ search' = [search EXCEPT !.sent = @ + 1, !.ping = up]
      /\ UNCHANGED <<db, link, serving, using>>
      /\ client = "search"
  BY DEF Ping
<1>2. search' \in [sent : Nat, ping : BOOLEAN, pong : BOOLEAN] /\ search'.pong = search.pong
  <2>1. search.sent + 1 \in Nat
    BY <1>0
  <2>2. search' = [sent |-> search.sent + 1, ping |-> up, pong |-> search.pong]
    BY <1>0, <1>1
  <2> QED
    BY <1>0, <2>1, <2>2
<1>3. Typed'
  BY <1>1, <1>2 DEF SessionInv, Typed, db, using
<1>4. Present'
  BY <1>1, <1>2 DEF SessionInv, Present, Idle, db, link, serving, using
<1> QED
  BY <1>1, <1>3, <1>4, Frames DEF SessionInv, db, link, serving, using

LEMMA RestartKeeps == ASSUME SessionInv, Restart PROVE SessionInv'
<1> USE DEF Restart, db, link, serving, using
<1>1. Present'
  BY DEF SessionInv, Present, Idle
<1>2. Understood' /\ Whole'
  BY DEF SessionInv, Understood, Whole, Idle
<1>3. Heard'
  BY DEF SessionInv, Heard, Told, Present
<1>4. DoneRight'
  BY DEF SessionInv, DoneRight
<1> QED
  BY <1>1, <1>2, <1>3, <1>4, Frames DEF SessionInv

LEMMA AcceptKeeps == ASSUME SessionInv, Accept PROVE SessionInv'
<1> USE DEF Accept, db, serving, using
<1>1. client = "hello" /\ toClient = <<>> /\ toServer = <<>> /\ served = <<>>
  BY DEF SessionInv, Present
<1>2. toClient' \in {<<>>, <<<<"kdfp">>>>}
  <2>1. IsSeq(<<<<"kdfp">>>>)
    BY TupleFacts
  <2> QED
    BY <1>1, <2>1, JoinEmpty DEF SentBack
<1>3. Present'
  BY <1>1, <1>2 DEF SessionInv, Present, Idle
<1>4. Understood'
  <2>1. Nothing \in Asked' /\ Rest(<<>>, 0, Nothing, job)
    BY RestEmpty DEF Asked, Sent, Nothing
  <2> QED
    BY <1>1, <2>1 DEF Understood
<1>5. Heard' /\ Whole'
  BY <1>1 DEF SessionInv, Heard, Whole
<1>6. DoneRight'
  BY <1>1 DEF SessionInv, DoneRight
<1> QED
  BY <1>3, <1>4, <1>5, <1>6, Frames DEF SessionInv

\* The server hangs up without having done anything.
LEMMA HangUpKeeps ==
  ASSUME SessionInv, HangUp, server # "accept",
         ServerReads, UNCHANGED <<db, toClient, clientOn, served, using, search>>
  PROVE  SessionInv'
<1> USE DEF HangUp, db, using
<1>1. Present'
  BY DEF SessionInv, Present, Idle
<1>2. Understood' /\ Whole'
  BY DEF SessionInv, Understood, Whole, Idle
<1>3. Heard'
  BY DEF SessionInv, Heard, Told, Present, ServerReads, ServerHears
<1>4. DoneRight'
  BY DEF SessionInv, DoneRight
<1> QED
  BY <1>1, <1>2, <1>3, <1>4, Frames DEF SessionInv

\* The server goes on reading: what it has understood and whether an import comes
\* whole is shown for each step, the rest follows.
LEMMA ReadingKeeps ==
  ASSUME SessionInv, toServer # <<>>, server \notin {"accept", "down"},
         server' \notin {"accept", "down"},
         Understood', Whole',
         UNCHANGED <<db, toClient, clientOn, serverOn, served, using, search>>
  PROVE  SessionInv'
<1> USE DEF db, using
<1>1. Present'
  BY DEF SessionInv, Present, Idle
<1>2. Heard'
  BY DEF SessionInv, Heard, Told
<1>3. DoneRight'
  BY DEF SessionInv, DoneRight
<1> QED
  BY <1>1, <1>2, <1>3, Frames DEF SessionInv

LEMMA NotIdle == ASSUME toServer # <<>> \/ server \in {"serve", "import"} PROVE ~ Idle
BY DEF Idle

LEMMA AskedFrame ==
  ASSUME UNCHANGED <<client, clientOn, job>>
  PROVE  Asked' = Asked
BY DEF Asked, Sent, Requested

LEMMA ReadKekKeeps == ASSUME SessionInv, ReadKek PROVE SessionInv'
<1>1. server = "kek" /\ ServerReads /\ UNCHANGED <<db, toClient, clientOn, served, using, search>>
  BY DEF ReadKek
<1>2. CASE HangUp
  BY <1>1, <1>2, HangUpKeeps
<1>3. CASE ~ HangUp
  <2>1. /\ Len(Taken(toServer, KekLen)) = KekLen
        /\ server' = "loop" /\ toServer' = Left(toServer, KekLen) /\ UNCHANGED <<request, serverOn>>
    BY <1>3 DEF ReadKek
  <2>2. toServer # <<>>
    BY <2>1, TupleFacts DEF Taken, KekLen
  <2>3. ASSUME NEW cmd, NEW m \in {0, 1}, Rest(toServer, m, cmd, job)
        PROVE  m = 0 /\ toServer' = Tail(toServer) /\ Rest(toServer', 1, cmd, job)
               /\ Len(toServer') = Len(toServer) - 1 /\ Len(toServer) \in Nat
    <3>1. Fits(toServer[1], m, cmd, job) /\ Rest(Tail(toServer), m + 1, cmd, job) /\ IsStream(toServer)
      BY <2>2, <2>3, RestFirst
    <3>2. Len(toServer[1]) \in {KekLen, 12} /\ (m = 1 => Len(toServer[1]) = 12)
      BY <3>1 DEF Fits
    <3>3. Len(toServer[1]) # 12
      <4>1. Len(toServer[1]) = 12 => Len(Taken(toServer, KekLen)) = 12
        BY <2>2, <3>1, TakenCells
      <4> QED
        BY <2>1, <4>1 DEF KekLen
    <3>4. m = 0 /\ Left(toServer, KekLen) = Tail(toServer)
      BY <2>2, <3>1, <3>2, <3>3, TakenCells
    <3>5. Len(Tail(toServer)) = Len(toServer) - 1 /\ Len(toServer) \in Nat
      BY <2>2, <3>1, TailShape, StreamShape
    <3> QED
      <4>1. toServer' = Tail(toServer)
        BY <2>1, <3>4
      <4>2. Rest(Tail(toServer), 1, cmd, job)
        BY <3>1, <3>4
      <4> QED
        BY <3>4, <3>5, <4>1, <4>2
  <2>4. Understood'
    <3>1. PICK cmd \in Asked : \E m \in {0, 1} : Rest(toServer, m, cmd, job)
      BY <1>1, <2>2, NotIdle DEF SessionInv, Understood
    <3>2. Rest(toServer', 1, cmd, job')
      BY <1>1, <2>3, <3>1 DEF using
    <3>3. cmd \in Asked'
      BY <1>1, <3>1, AskedFrame DEF using
    <3> QED
      BY <2>1, <3>2, <3>3 DEF Understood
  <2>5. Whole'
    <3> SUFFICES ASSUME client \in {"prompt", "sending"}, job.cmd = Cmd.import, serverOn
                 PROVE  Rest(toServer', 1, Cmd.import, job) /\ Len(toServer') % 2 = 1
      BY <1>1, <2>1 DEF Whole, using
    <3>1. PICK m \in {0, 1} : /\ Rest(toServer, m, Cmd.import, job)
                              /\ m + Len(toServer) >= 2 /\ (m + Len(toServer)) % 2 = 0
      BY <1>1 DEF SessionInv, Whole
    <3>2. m = 0 /\ Rest(toServer', 1, Cmd.import, job)
          /\ Len(toServer') = Len(toServer) - 1 /\ Len(toServer) \in Nat
      BY <2>3, <3>1
    <3>3. Len(toServer) >= 2 /\ Len(toServer) % 2 = 0
      BY <3>1, <3>2
    <3> DEFINE a == Len(toServer)
    <3>4. a \in Nat /\ a >= 2 /\ a % 2 = 0
      BY <3>2, <3>3
    <3> HIDE DEF a
    <3>5. (a - 1) % 2 = 1
      BY <3>4
    <3> QED
      BY <3>2, <3>5 DEF a
  <2> QED
    BY <1>1, <2>1, <2>2, <2>4, <2>5, ReadingKeeps
<1> QED
  BY <1>2, <1>3

LEMMA ReadMessageKeeps == ASSUME SessionInv, ReadMessage PROVE SessionInv'
<1>1. server = "loop" /\ ServerReads /\ UNCHANGED <<db, toClient, clientOn, served, using, search>>
  BY DEF ReadMessage
<1>2. CASE HangUp
  BY <1>1, <1>2, HangUpKeeps
<1>3. CASE ~ HangUp
  <2> DEFINE msg == Taken(toServer, 12)
  <2>1. /\ Len(msg) = 12
        /\ request' = [cmd |-> Number(msg[4]), arg |-> Number(msg[8])]
        /\ server' = IF Number(msg[12]) > 0 THEN "body"
                     ELSE IF msg[4] = Cmd.import THEN "import" ELSE "serve"
        /\ toServer' = Left(toServer, 12) /\ UNCHANGED serverOn
    BY <1>3 DEF ReadMessage
  <2>2. toServer # <<>>
    BY <2>1, TupleFacts DEF Taken
  <2>3. ~ Idle
    BY <2>2, NotIdle
  <2>4. PICK cmd \in Asked : Rest(toServer, 1, cmd, job)
    BY <1>1, <2>3 DEF SessionInv, Understood
  <2>5. /\ Fits(toServer[1], 1, cmd, job) /\ Rest(Tail(toServer), 2, cmd, job) /\ IsStream(toServer)
    <3>1. Rest(Tail(toServer), 1 + 1, cmd, job) /\ 1 + 1 = 2
      BY <2>2, <2>4, RestFirst
    <3> QED
      BY <2>2, <2>4, <3>1, RestFirst
  <2>6. /\ Len(toServer[1]) = 12
        /\ Number(toServer[1][4]) = cmd /\ cmd \in 1..8 /\ Number(toServer[1][8]) \in Nat
        /\ (Number(toServer[1][12]) > 0) = (cmd \notin {Cmd.rekey, Cmd.export, Cmd.import})
    BY <2>5 DEF Fits
  <2>7. Left(toServer, 12) = Tail(toServer) /\ msg[4] = toServer[1][4] /\ msg[8] = toServer[1][8]
        /\ msg[12] = toServer[1][12]
    BY <2>2, <2>5, <2>6, TakenCells
  <2>8. msg[4] = cmd
    BY <2>6, <2>7, NumberFacts DEF Number
  <2> HIDE DEF msg
  <2>9. request'.cmd = cmd /\ request'.arg \in Nat /\ {"cmd", "arg"} \subseteq DOMAIN request'
    BY <2>1, <2>6, <2>7
  <2>10. server' = IF cmd \notin {Cmd.rekey, Cmd.export, Cmd.import} THEN "body"
                   ELSE IF cmd = Cmd.import THEN "import" ELSE "serve"
    BY <2>1, <2>6, <2>7, <2>8
  <2>11. Rest(toServer', 2, cmd, job')
    BY <1>1, <2>1, <2>5, <2>7 DEF using
  <2>12. cmd \in Asked' \ {Nothing}
    <3>1. Asked' = Asked
      BY <1>1, AskedFrame DEF using
    <3> QED
      BY <2>6, <3>1 DEF Nothing
  <2>13. RequestKnown'
    BY <2>9, <2>12 DEF RequestKnown
  <2>14. Understood'
    <3>1. CASE server' = "body"
      <4>1. cmd \in 1..5
        BY <2>6, <2>10, <3>1, CmdFacts
      <4> QED
        BY <2>9, <2>11, <2>13, <3>1, <4>1 DEF Understood
    <3>2. CASE server' = "import"
      <4>1. cmd = Cmd.import
        BY <2>10, <3>2
      <4> QED
        BY <2>9, <2>11, <2>13, <3>2, <4>1 DEF Understood
    <3>3. CASE server' = "serve"
      <4>1. cmd \in {Cmd.rekey, Cmd.export}
        BY <2>10, <3>3
      <4>2. cmd \notin {Cmd.add, Cmd.edit, Cmd.passwd, Cmd.find, Cmd.import}
        BY <4>1, CmdFacts
      <4> QED
        BY <2>9, <2>13, <3>3, <4>2 DEF Understood
    <3> QED
      BY <2>10, <3>1, <3>2, <3>3
  <2>15. Whole'
    <3> SUFFICES ASSUME client \in {"prompt", "sending"}, job.cmd = Cmd.import, serverOn, server' = "import"
                 PROVE  Len(toServer') % 2 = 0
      BY <1>1, <2>1, <2>10 DEF Whole, using
    <3>1. Len(toServer) % 2 = 1
      BY <1>1 DEF SessionInv, Whole
    <3>2. Len(toServer') = Len(toServer) - 1 /\ Len(toServer) \in Nat
      BY <2>1, <2>2, <2>5, <2>7, TailShape, StreamShape
    <3> DEFINE a == Len(toServer)
    <3>3. a \in Nat /\ a % 2 = 1
      BY <3>1, <3>2
    <3> HIDE DEF a
    <3>4. (a - 1) % 2 = 0
      BY <3>3
    <3> QED
      BY <3>2, <3>4 DEF a
  <2>16. server' \notin {"accept", "down"}
    BY <2>10
  <2> QED
    BY <1>1, <2>1, <2>2, <2>14, <2>15, <2>16, ReadingKeeps
<1> QED
  BY <1>2, <1>3

LEMMA ReadBodyKeeps == ASSUME SessionInv, ReadBody PROVE SessionInv'
<1>1. server = "body" /\ ServerReads /\ UNCHANGED <<db, toClient, clientOn, served, using, search>>
  BY DEF ReadBody
<1>2. CASE toServer = <<>>
  BY <1>1, <1>2, HangUpKeeps DEF ReadBody
<1>3. CASE toServer # <<>>
  <2> DEFINE new == Taken(toServer, 1)[1]
  <2>1. /\ toServer' = Left(toServer, 1) /\ request' = Over(new, request)
        /\ server' = IF request.cmd = Cmd.edit THEN "value" ELSE "serve"
        /\ UNCHANGED serverOn
    BY <1>3 DEF ReadBody
  <2>2. RequestKnown /\ request.cmd \in 1..5 /\ Rest(toServer, 2, request.cmd, job)
    BY <1>1, <1>3, NotIdle DEF SessionInv, Understood
  <2>3. Fits(toServer[1], 2, request.cmd, job) /\ Rest(Tail(toServer), 3, request.cmd, job) /\ IsStream(toServer)
    <3>1. Rest(Tail(toServer), 2 + 1, request.cmd, job) /\ 2 + 1 = 3
      BY <1>3, <2>2, RestFirst
    <3> QED
      BY <1>3, <2>2, <3>1, RestFirst
  <2>4. Len(toServer[1]) = 1 /\ Carries(toServer[1][1], request.cmd, job)
    BY <2>2, <2>3, CmdFacts DEF Fits
  <2>5. Left(toServer, 1) = Tail(toServer) /\ new = toServer[1][1]
    BY <1>3, <2>3, <2>4, TakenCells
  <2> HIDE DEF new
  <2>6. DOMAIN new \in {{"entry"}, {"value"}}
    BY <2>4, <2>5 DEF Carries
  <2>7. /\ {"cmd", "arg"} \subseteq DOMAIN request' /\ request'.cmd = request.cmd /\ request'.arg = request.arg
        /\ "entry" \in DOMAIN new => "entry" \in DOMAIN request' /\ request'.entry = new.entry
        /\ "value" \in DOMAIN new => request'.value = new.value
    <3>1. {"cmd", "arg"} \subseteq DOMAIN request
      BY <2>2 DEF RequestKnown
    <3>2. "cmd" \notin DOMAIN new /\ "arg" \notin DOMAIN new
      BY <2>6
    <3> QED
      BY <2>1, <2>6, <3>1, <3>2, OverFacts
  <2>8. Asked' = Asked
    BY <1>1, AskedFrame DEF using
  <2>9. RequestKnown'
    BY <2>2, <2>7, <2>8 DEF RequestKnown
  <2>10. Understood'
    <3>1. request.cmd \in {Cmd.add, Cmd.edit} => EntryKnown'
      BY <1>1, <2>4, <2>5, <2>7 DEF Carries, EntryKnown, using
    <3>2. Rest(toServer', 3, request'.cmd, job')
      BY <1>1, <2>1, <2>3, <2>5, <2>7 DEF using
    <3>3. request.cmd = Cmd.find => toServer' = <<>>
      <4>1. Cmd.find \notin {Cmd.edit, Cmd.import}
        BY CmdFacts
      <4> QED
        BY <2>7, <3>2, <4>1, RestOver
    <3>4. request.cmd = Cmd.passwd => request'.value = job'.password
      <4>1. Cmd.passwd \notin {Cmd.add, Cmd.edit}
        BY CmdFacts
      <4> QED
        BY <1>1, <2>4, <2>5, <2>7, <4>1 DEF Carries, using
    <3>5. request.cmd # Cmd.import
      BY <2>2, CmdFacts
    <3>6. CASE request.cmd = Cmd.edit
      BY <2>1, <2>7, <2>9, <3>1, <3>2, <3>6 DEF Understood
    <3>7. CASE request.cmd # Cmd.edit
      BY <2>1, <2>7, <2>9, <3>1, <3>3, <3>4, <3>5, <3>7 DEF Understood
    <3> QED
      BY <3>6, <3>7
  <2>11. Whole'
    BY <2>1 DEF Whole
  <2>12. server' \notin {"accept", "down"}
    BY <2>1
  <2> QED
    BY <1>1, <1>3, <2>1, <2>10, <2>11, <2>12, ReadingKeeps
<1> QED
  BY <1>2, <1>3

LEMMA ReadValueKeeps == ASSUME SessionInv, ReadValue PROVE SessionInv'
<1>1. server = "value" /\ ServerReads /\ UNCHANGED <<db, toClient, clientOn, served, using>>
  BY DEF ReadValue
<1>2. CASE toServer = <<>> /\ HangUp /\ UNCHANGED search
  BY <1>1, <1>2, HangUpKeeps
<1>3. CASE toServer # <<>>
  <2> DEFINE new == Taken(toServer, 1)[1]
  <2>1. /\ toServer' = Left(toServer, 1) /\ request' = Over(new, request)
        /\ server' = "serve" /\ UNCHANGED <<serverOn, search>>
    BY <1>3 DEF ReadValue
  <2>2. RequestKnown /\ request.cmd = Cmd.edit /\ EntryKnown /\ Rest(toServer, 3, request.cmd, job)
    BY <1>1, <1>3, NotIdle DEF SessionInv, Understood
  <2>3. Fits(toServer[1], 3, request.cmd, job) /\ IsStream(toServer)
    BY <1>3, <2>2, RestFirst
  <2>4. Len(toServer[1]) = 1 /\ DOMAIN toServer[1][1] = {"value"}
    BY <2>2, <2>3, CmdFacts DEF Fits
  <2>5. new = toServer[1][1]
    BY <1>3, <2>3, <2>4, TakenCells
  <2> HIDE DEF new
  <2>6. /\ {"cmd", "arg"} \subseteq DOMAIN request' /\ request'.cmd = request.cmd /\ request'.arg = request.arg
    <3>1. {"cmd", "arg"} \subseteq DOMAIN request
      BY <2>2 DEF RequestKnown
    <3>2. "cmd" \notin DOMAIN new /\ "arg" \notin DOMAIN new
      BY <2>4, <2>5
    <3> QED
      BY <2>1, <3>1, <3>2, OverFacts
  <2>7. EntryKnown'
    <3>1. "entry" \in DOMAIN request /\ "entry" \notin DOMAIN new
      BY <2>2, <2>4, <2>5 DEF EntryKnown
    <3>2. "entry" \in DOMAIN request' /\ request'.entry = request.entry
      BY <2>1, <3>1, OverFacts
    <3> QED
      BY <1>1, <2>2, <3>2 DEF EntryKnown, using
  <2>8. Asked' = Asked
    BY <1>1, AskedFrame DEF using
  <2>9. RequestKnown'
    BY <2>2, <2>6, <2>8 DEF RequestKnown
  <2>10. Understood'
    <3>1. request'.cmd \notin {Cmd.passwd, Cmd.find, Cmd.import}
      BY <2>2, <2>6, CmdFacts
    <3> QED
      BY <2>1, <2>7, <2>9, <3>1 DEF Understood
  <2>11. Whole'
    BY <2>1 DEF Whole
  <2> QED
    BY <1>1, <1>3, <2>1, <2>10, <2>11, ReadingKeeps
<1>4. CASE /\ toServer = <<>> /\ server' = "down" /\ request' = Nobody /\ serverOn' = FALSE
           /\ search' = [search EXCEPT !.ping = FALSE] /\ UNCHANGED toServer
  <2> USE <1>1, <1>4 DEF db, using
  <2>1. search' \in [sent : Nat, ping : BOOLEAN, pong : BOOLEAN] /\ ~ search'.ping /\ search'.pong = search.pong
    <3>1. search \in [sent : Nat, ping : BOOLEAN, pong : BOOLEAN]
      BY DEF SessionInv, Typed
    <3> QED
      BY <3>1
  <2>2. Typed'
    BY <2>1 DEF SessionInv, Typed
  <2>3. Present'
    BY <2>1 DEF SessionInv, Present, Idle
  <2>4. Understood' /\ Whole'
    BY DEF Understood, Whole
  <2>5. Heard'
    BY DEF SessionInv, Heard, Told, Present, ServerReads, ServerHears
  <2>6. DoneRight'
    BY DEF SessionInv, DoneRight
  <2> QED
    BY <2>2, <2>3, <2>4, <2>5, <2>6, Frames DEF SessionInv
<1> QED
  BY <1>2, <1>3, <1>4 DEF ReadValue

(* A command ends: all that the server did before were searches, and the      *)
(* client of the command, if it is still there, reads what is sent now first. *)
LEMMA ServeEnds ==
  ASSUME SessionInv, server \in {"serve", "import"}, request.cmd # Cmd.find, HangUp, Typed',
         UNCHANGED <<clientOn, using, search>>,
         NEW recs, IsStream(recs), toClient' = SentBack(recs),
         NEW did \in BOOLEAN, NEW done, served' = IF did THEN Append(served, done) ELSE served,
         did => IsTheJob(done)',
         request.cmd \in Changing =>
           Len(recs) = 1 /\ Len(recs[1]) = 12 /\ (Number(recs[1][4]) = OK => did /\ done.ok),
         request.cmd = Cmd.export => IsExport(recs) \/ IsRefusal(recs)
  PROVE  SessionInv'
<1> USE DEF HangUp, using
<1>1. request.cmd = job.cmd /\ Requested /\ request.cmd \in 0..8
  <2>1. RequestKnown
    BY NotIdle DEF SessionInv, Understood
  <2> QED
    BY <2>1 DEF RequestKnown, Asked, Sent, Nothing
<1>2. Requested'
  BY <1>1 DEF Requested
<1>3. /\ \A k \in DOMAIN served : served[k].cmd = Cmd.find
      /\ ~ Told
  BY <1>1, OnlySearches DEF SessionInv
<1>4. client \notin {"search", "hello", "matches", "editor"} /\ ~ (client = "prompt" /\ job.cmd = Cmd.passwd)
  BY <1>1, CmdFacts DEF Requested
<1>5. IF clientOn THEN toClient' = recs ELSE toClient' = toClient
  <2>1. clientOn => toClient = <<>>
    BY <1>4 DEF SessionInv, Heard, Present
  <2>2. <<>> \o recs = recs
    BY JoinEmpty DEF IsStream
  <2> QED
    BY <2>1, <2>2 DEF SentBack
<1>6. IsSeq(served) /\ Len(served) \in Nat /\ DOMAIN served = 1..Len(served)
  BY IsSeqFacts DEF SessionInv, DoneRight
<1>7. did => /\ IsSeq(served') /\ Len(served') = Len(served) + 1
             /\ \A k \in 1..Len(served) : served'[k] = served[k]
             /\ served'[Len(served')] = done /\ DOMAIN served' = 1..(Len(served) + 1)
  <2> SUFFICES ASSUME did PROVE /\ IsSeq(served') /\ Len(served') = Len(served) + 1
                                /\ \A k \in 1..Len(served) : served'[k] = served[k]
                                /\ served'[Len(served')] = done /\ DOMAIN served' = 1..(Len(served) + 1)
    OBVIOUS
  <2>1. served' = Append(served, done)
    OBVIOUS
  <2>2. IsSeq(served')
    BY <1>6, <2>1, AppendFacts
  <2>3. DOMAIN served' = 1..Len(served')
    BY <2>2, IsSeqFacts
  <2> QED
    BY <1>6, <2>1, <2>2, <2>3, AppendFacts
<1>8. did /\ done.ok => Told'
  <2> SUFFICES ASSUME did, done.ok PROVE Told'
    OBVIOUS
  <2>1. Last(served') = done
    BY <1>7 DEF Last
  <2>2. served' # <<>>
    <3>1. Len(served') # 0
      BY <1>6, <1>7
    <3> QED
      BY <1>7, <3>1, IsSeqFacts
  <2>3. done.cmd = job'.cmd
    BY DEF IsTheJob
  <2> QED
    BY <2>1, <2>2, <2>3 DEF Told
<1>9. Present'
  BY <1>4, <1>5 DEF SessionInv, Present, Idle
<1>10. Understood' /\ Whole'
  BY DEF Understood, Whole
<1>11. Heard'
  <2>1. ASSUME client = "receiving" \/ (client = "prompt" /\ job.cmd = Cmd.export)
        PROVE  IsStream(toClient') /\ (Zero \in Range(export) \/ IsExport(toClient')
                                           \/ IsRefusal(toClient') \/ IsRefused(toClient'))
    <3>1. job.cmd = Cmd.export
      BY <2>1 DEF SessionInv, JobKnown
    <3> QED
      BY <1>1, <1>5, <2>1, <3>1 DEF SessionInv, Heard
  <2>2. ASSUME client = "response", job.cmd \in Changing
        PROVE  /\ IsStream(toClient')
               /\ toClient' # <<>> => Len(toClient') = 1 /\ Len(toClient'[1]) = 12
                                      /\ (Number(toClient'[1][4]) = OK => Told')
    <3>1. CASE clientOn
      BY <1>1, <1>5, <1>8, <2>2, <3>1
    <3>2. CASE ~ clientOn
      BY <1>3, <1>5, <2>2, <3>2 DEF SessionInv, Heard
    <3> QED
      BY <3>1, <3>2
  <2>3. ~ (client = "off" /\ code = OK /\ job.cmd \in Changing)
    BY <1>3 DEF SessionInv, Heard
  <2> QED
    BY <1>4, <2>1, <2>2, <2>3 DEF Heard
<1>12. DoneRight'
  <2>1. CASE did
    <3>1. ASSUME NEW k \in DOMAIN served', served'[k].cmd # Cmd.find
          PROVE  k = Len(served') /\ IsTheJob(served[k])'
      <4>1. k = Len(served')
        BY <1>3, <1>6, <1>7, <2>1, <3>1
      <4>2. served'[k] = done
        BY <1>7, <2>1, <4>1
      <4> QED
        BY <2>1, <4>1, <4>2
    <3> QED
      BY <1>2, <1>7, <2>1, <3>1 DEF DoneRight
  <2>2. CASE ~ did
    BY <1>3, <1>6, <2>2 DEF DoneRight
  <2> QED
    BY <2>1, <2>2
<1>13. JobKnown'
  BY Frames DEF SessionInv
<1> QED
  BY <1>9, <1>10, <1>11, <1>12, <1>13 DEF SessionInv

\* The reply alone.
LEMMA ReplyAlone ==
  ASSUME NEW ok \in BOOLEAN, NEW count \in Nat, Reply(ok, count, <<>>)
  PROVE  \E recs : /\ toClient' = SentBack(recs) /\ IsStream(recs)
                   /\ Len(recs) = 1 /\ Len(recs[1]) = 12
                   /\ (Number(recs[1][4]) = OK) = ok /\ recs[1][5] = Zero /\ Number(recs[1][9]) = 0
<1> DEFINE m == Message(IF ok THEN OK ELSE 1, count, 0)
<1>1. (IF ok THEN OK ELSE 1) \in Nat
  BY CmdFacts
<1>2. IsSeq(m) /\ Len(m) = 12 /\ Number(m[4]) = (IF ok THEN OK ELSE 1) /\ m[5] = Zero /\ Number(m[9]) = 0
  BY <1>1, MessageFacts
<1>3. Append(<<>>, m) = <<m>>
  OBVIOUS
<1>4. toClient' = SentBack(Append(<<>>, m))
  BY DEF Reply
<1> HIDE DEF m
<1>5. IsStream(<<m>>) /\ Len(<<m>>) = 1 /\ <<m>>[1] = m
  BY <1>2, TupleStream, TupleFacts
<1>6. (Number(m[4]) = OK) = ok
  BY <1>2, CmdFacts
<1> QED
  BY <1>2, <1>3, <1>4, <1>5, <1>6

\* What an update leaves is typed as what there was.
LEMMA UpdateTypes ==
  ASSUME Typed, NEW i \in Ids, NEW e \in EntryText, NEW good,
         Update(i, e, good) \/ Delete(i, good), UNCHANGED <<using, search>>
  PROVE  Typed' /\ password' = password
<1> USE DEF using
<1>1. index \in Seq(Term) /\ file \in [Ids -> Contents]
  BY DEF Typed, Term
<1>2. UpdateIndex(index, i, e) \in Seq(Term) /\ UpdateIndex(index, i, <<>>) \in Seq(Term)
  BY <1>1, UpdateType, EntryTypes
<1>3. password' = password /\ index' \in Seq(Term)
  BY <1>1, <1>2 DEF Update, Delete, Stores
<1>4. file' \in {file, [file EXCEPT ![i] = e], [file EXCEPT ![i] = Absent]}
  BY DEF Update, Delete, Stores
<1>5. file' \in [Ids -> Contents]
  BY <1>1, <1>4, EntryTypes
<1> QED
  BY <1>3, <1>5 DEF Typed, Term

LEMMA RekeyTypes ==
  ASSUME Typed, NEW good, Rekey(good), UNCHANGED <<using, search>>
  PROVE  Typed' /\ password' = password
<1> USE DEF using
<1>1. file \in [Ids -> Contents]
  BY DEF Typed
<1>2. password' = password /\ index' = index
  BY DEF Rekey
<1>3. file' \in [Ids -> Contents]
  <2>1. PICK lost : file' = [i \in Ids |-> IF i \in lost THEN Unreadable ELSE file[i]]
    BY DEF Rekey
  <2> QED
    BY <1>1, <2>1, EntryTypes
<1> QED
  BY <1>2, <1>3 DEF Typed

\* What the server serves is the job of the client, but for a search.
LEMMA ServesTheJob ==
  ASSUME SessionInv, server \in {"serve", "import"}
  PROVE  RequestKnown /\ (request.cmd # Cmd.find => request.cmd = job.cmd)
<1>1. RequestKnown
  BY NotIdle DEF SessionInv, Understood
<1> QED
  BY <1>1 DEF RequestKnown, Asked, Sent, Nothing

LEMMA ServeAddKeeps ==
  ASSUME SessionInv, NEW i \in Ids, NEW good \in BOOLEAN, ServeAdd(i, good)
  PROVE  SessionInv'
<1> DEFINE done == [cmd |-> Cmd.add, ok |-> good, entry |-> request.entry]
<1>1. /\ server = "serve" /\ request.cmd = Cmd.add
      /\ Update(i, request.entry, good) /\ Reply(good, 0, <<>>)
      /\ served' = Append(served, done) /\ HangUp /\ UNCHANGED <<clientOn, using, search>>
  BY DEF ServeAdd, Serving, Done
<1>2. request.cmd # Cmd.find /\ request.cmd # Cmd.export /\ request.cmd = job.cmd /\ job.cmd # Cmd.passwd
  BY <1>1, ServesTheJob, CmdFacts
<1>3. request.entry = job.entry /\ request.entry \in EntryText
  BY <1>1, NotIdle DEF SessionInv, Understood, EntryKnown
<1>4. Typed'
  BY <1>1, <1>3, UpdateTypes DEF SessionInv
<1>5. PICK recs : /\ toClient' = SentBack(recs) /\ IsStream(recs)
                  /\ Len(recs) = 1 /\ Len(recs[1]) = 12 /\ (Number(recs[1][4]) = OK) = good
  BY <1>1, ReplyAlone
<1>6. done.cmd = job'.cmd /\ done.entry = job'.entry /\ job'.cmd # Cmd.passwd
  BY <1>1, <1>2, <1>3 DEF using
<1>7. done.ok = good
  OBVIOUS
<1> HIDE DEF done
<1>8. \E d : IsTheJob(d)' /\ d.ok = good /\ served' = Append(served, d)
  BY <1>1, <1>6, <1>7 DEF IsTheJob
<1> QED
  BY <1>1, <1>2, <1>4, <1>5, <1>8, ServeEnds

LEMMA ServeEditKeeps ==
  ASSUME SessionInv, NEW good \in BOOLEAN, ServeEdit(good)
  PROVE  SessionInv'
<1> DEFINE matches == SearchIndex(index, request.value, 2)
           done == [cmd |-> Cmd.edit, ok |-> good, entry |-> request.entry, old |-> file[matches[1]]]
<1>1. server = "serve" /\ request.cmd = Cmd.edit /\ HangUp /\ UNCHANGED <<clientOn, using, search>>
  BY DEF ServeEdit, Serving
<1>2. request.cmd # Cmd.find /\ request.cmd # Cmd.export /\ request.cmd = job.cmd /\ job.cmd # Cmd.passwd
  BY <1>1, ServesTheJob, CmdFacts
<1>3. request.entry = job.entry /\ request.entry \in EntryText
  BY <1>1, NotIdle DEF SessionInv, Understood, EntryKnown
<1>4. matches \in Seq(Ids)
  BY SearchType DEF SessionInv, Typed, Term
<1>5. CASE matches # <<>>
  <2>1. /\ Update(matches[1], request.entry, good) /\ Reply(good, Len(matches), <<>>)
        /\ served' = Append(served, done)
    BY <1>5 DEF ServeEdit, Done
  <2>2. matches[1] \in Ids /\ Len(matches) \in Nat
    BY <1>4, <1>5
  <2>3. done.cmd = job'.cmd /\ done.entry = job'.entry /\ job'.cmd # Cmd.passwd /\ done.ok = good
    BY <1>1, <1>2, <1>3 DEF using
  <2> HIDE DEF matches, done
  <2>4. Typed'
    BY <1>1, <1>3, <2>1, <2>2, UpdateTypes DEF SessionInv
  <2>5. PICK recs : /\ toClient' = SentBack(recs) /\ IsStream(recs)
                    /\ Len(recs) = 1 /\ Len(recs[1]) = 12 /\ (Number(recs[1][4]) = OK) = good
    BY <2>1, <2>2, ReplyAlone
  <2>6. \E d : IsTheJob(d)' /\ d.ok = good /\ served' = Append(served, d)
    BY <2>1, <2>3 DEF IsTheJob
  <2> QED
    BY <1>1, <1>2, <2>4, <2>5, <2>6, ServeEnds
<1>6. CASE matches = <<>>
  <2>1. Reply(FALSE, 0, <<>>) /\ UNCHANGED <<db, served>>
    BY <1>6 DEF ServeEdit
  <2>2. Typed'
    BY <1>1, <2>1, Frames DEF SessionInv, db, using
  <2>3. PICK recs : /\ toClient' = SentBack(recs) /\ IsStream(recs)
                    /\ Len(recs) = 1 /\ Len(recs[1]) = 12 /\ (Number(recs[1][4]) = OK) = FALSE
    BY <2>1, ReplyAlone
  <2> QED
    BY <1>1, <1>2, <2>1, <2>2, <2>3, ServeEnds
<1> QED
  BY <1>5, <1>6

LEMMA ServeDeleteKeeps ==
  ASSUME SessionInv, NEW good \in BOOLEAN, ServeDelete(good)
  PROVE  SessionInv'
<1> DEFINE matches == SearchIndex(index, request.value, 2)
           done == [cmd |-> Cmd.delete, ok |-> good]
<1>1. server = "serve" /\ request.cmd = Cmd.delete /\ HangUp /\ UNCHANGED <<clientOn, using, search>>
  BY DEF ServeDelete, Serving
<1>2. /\ request.cmd # Cmd.find /\ request.cmd # Cmd.export /\ request.cmd = job.cmd
      /\ job.cmd \notin {Cmd.add, Cmd.edit, Cmd.passwd}
  BY <1>1, ServesTheJob, CmdFacts
<1>3. matches \in Seq(Ids)
  BY SearchType DEF SessionInv, Typed, Term
<1>4. Len(matches) \in Nat
  BY <1>3
<1>5. CASE Len(matches) = 1 /\ Loads(matches[1])
  <2>1. Delete(matches[1], good) /\ Reply(good, 1, <<>>) /\ served' = Append(served, done)
    BY <1>5 DEF ServeDelete, Done
  <2>2. matches[1] \in Ids
    BY <1>3, <1>5
  <2>3. done.cmd = job'.cmd /\ job'.cmd \notin {Cmd.add, Cmd.edit, Cmd.passwd} /\ done.ok = good
    BY <1>1, <1>2 DEF using
  <2> HIDE DEF matches, done
  <2>4. Typed'
    BY <1>1, <2>1, <2>2, UpdateTypes, EntryTypes DEF SessionInv
  <2>5. PICK recs : /\ toClient' = SentBack(recs) /\ IsStream(recs)
                    /\ Len(recs) = 1 /\ Len(recs[1]) = 12 /\ (Number(recs[1][4]) = OK) = good
    BY <2>1, ReplyAlone
  <2>6. \E d : IsTheJob(d)' /\ d.ok = good /\ served' = Append(served, d)
    BY <2>1, <2>3 DEF IsTheJob
  <2> QED
    BY <1>1, <1>2, <2>4, <2>5, <2>6, ServeEnds
<1>6. CASE ~ (Len(matches) = 1 /\ Loads(matches[1]))
  <2>1. Reply(FALSE, Len(matches), <<>>) /\ UNCHANGED <<db, served>>
    BY <1>6 DEF ServeDelete
  <2> HIDE DEF matches
  <2>2. Typed'
    BY <1>1, <2>1, Frames DEF SessionInv, db, using
  <2>3. PICK recs : /\ toClient' = SentBack(recs) /\ IsStream(recs)
                    /\ Len(recs) = 1 /\ Len(recs[1]) = 12 /\ (Number(recs[1][4]) = OK) = FALSE
    BY <1>4, <2>1, ReplyAlone
  <2> QED
    BY <1>1, <1>2, <2>1, <2>2, <2>3, ServeEnds
<1> QED
  BY <1>5, <1>6

LEMMA ServePasswdKeeps ==
  ASSUME SessionInv, NEW good \in BOOLEAN, ServePasswd(good)
  PROVE  SessionInv'
<1> DEFINE done == [cmd |-> Cmd.passwd, ok |-> good]
<1>1. /\ server = "serve" /\ request.cmd = Cmd.passwd /\ UpdateKek(request.value, good)
      /\ Reply(good, 0, <<>>) /\ served' = Append(served, done)
      /\ HangUp /\ UNCHANGED <<clientOn, using, search>>
  BY DEF ServePasswd, Serving, Done
<1>2. /\ request.cmd # Cmd.find /\ request.cmd # Cmd.export /\ request.cmd = job.cmd
      /\ job.cmd \notin {Cmd.add, Cmd.edit}
  BY <1>1, ServesTheJob, CmdFacts
<1>3. request.value = job.password
  BY <1>1, NotIdle DEF SessionInv, Understood
<1>4. Typed' /\ (good => password' = request.value)
  BY <1>1, Frames DEF UpdateKek, SessionInv, using
<1>5. PICK recs : /\ toClient' = SentBack(recs) /\ IsStream(recs)
                  /\ Len(recs) = 1 /\ Len(recs[1]) = 12 /\ (Number(recs[1][4]) = OK) = good
  BY <1>1, ReplyAlone
<1>6. /\ done.cmd = job'.cmd /\ job'.cmd \notin {Cmd.add, Cmd.edit} /\ done.ok = good
      /\ good => password' = job'.password
  BY <1>1, <1>2, <1>3, <1>4 DEF using
<1> HIDE DEF done
<1>7. \E d : IsTheJob(d)' /\ d.ok = good /\ served' = Append(served, d)
  BY <1>1, <1>6 DEF IsTheJob
<1> QED
  BY <1>1, <1>2, <1>4, <1>5, <1>7, ServeEnds

LEMMA ServeRekeyKeeps ==
  ASSUME SessionInv, NEW good \in BOOLEAN, ServeRekey(good)
  PROVE  SessionInv'
<1> DEFINE done == [cmd |-> Cmd.rekey, ok |-> good]
<1>1. /\ server = "serve" /\ request.cmd = Cmd.rekey /\ Rekey(good)
      /\ Reply(good, 0, <<>>) /\ served' = Append(served, done)
      /\ HangUp /\ UNCHANGED <<clientOn, using, search>>
  BY DEF ServeRekey, Serving, Done
<1>2. /\ request.cmd # Cmd.find /\ request.cmd # Cmd.export /\ request.cmd = job.cmd
      /\ job.cmd \notin {Cmd.add, Cmd.edit, Cmd.passwd}
  BY <1>1, ServesTheJob, CmdFacts
<1>3. Typed'
  BY <1>1, RekeyTypes DEF SessionInv
<1>4. PICK recs : /\ toClient' = SentBack(recs) /\ IsStream(recs)
                  /\ Len(recs) = 1 /\ Len(recs[1]) = 12 /\ (Number(recs[1][4]) = OK) = good
  BY <1>1, ReplyAlone
<1>5. done.cmd = job'.cmd /\ job'.cmd \notin {Cmd.add, Cmd.edit, Cmd.passwd} /\ done.ok = good
  BY <1>1, <1>2 DEF using
<1> HIDE DEF done
<1>6. \E d : IsTheJob(d)' /\ d.ok = good /\ served' = Append(served, d)
  BY <1>1, <1>5 DEF IsTheJob
<1> QED
  BY <1>1, <1>2, <1>3, <1>4, <1>6, ServeEnds

LEMMA ServeFindKeeps == ASSUME SessionInv, ServeFind PROVE SessionInv'
<1> DEFINE matches == SearchIndex(index, request.value, request.arg)
           recs == Append(FindReplies(matches), Message(IF TRUE THEN OK ELSE 1, Len(matches), 0))
           done == [cmd |-> Cmd.find]
<1>1. /\ server = "serve" /\ request.cmd = Cmd.find
      /\ toClient' = SentBack(recs) /\ served' = Append(served, done)
      /\ server' = "loop" /\ UNCHANGED <<db, toServer, clientOn, serverOn, using, search>>
  BY DEF ServeFind, Serving, Reply, Done
<1>2. IsReplies(recs)
  <2>1. request.arg \in Nat
    BY <1>1, ServesTheJob DEF RequestKnown
  <2>2. matches \in Seq(Ids)
    BY <2>1, SearchType DEF SessionInv, Typed, Term
  <2>3. Len(matches) \in Nat
    BY <2>2
  <2> HIDE DEF matches
  <2> DEFINE A == {Message(OK, Len(matches), 1)}  B == {<<[entry |-> file[i]]>> : i \in Ids}
             m == Message(IF TRUE THEN OK ELSE 1, Len(matches), 0)
  <2>4. Pairs(FindReplies(matches), A, B)
    BY <2>2, FindPairs
  <2>5. \A r \in A : IsSeq(r) /\ Announces(r) /\ Number(r[12]) # 0
    BY <2>3, MessageFacts, CmdFacts DEF Announces
  <2>6. \A r \in B : IsSeq(r) /\ Len(r) = 1
    BY TupleFacts
  <2>7. IsSeq(m) /\ Announces(m)
    <3>1. m = Message(OK, Len(matches), 0) /\ OK \in Nat /\ 0 \in Nat
      BY CmdFacts
    <3> HIDE DEF m
    <3> QED
      BY <2>3, <3>1, MessageFacts DEF Announces
  <2> HIDE DEF A, B, m
  <2>8. IsReplies(Append(FindReplies(matches), m))
    BY <2>4, <2>5, <2>6, <2>7, RepliesMade
  <2> QED
    BY <2>8 DEF m
<1>3. done.cmd = Cmd.find
  OBVIOUS
<1> HIDE DEF recs, done
<1> USE DEF db, using
<1>4. RequestKnown /\ toServer = <<>>
  BY <1>1, ServesTheJob, NotIdle DEF SessionInv, Understood
<1>5. Cmd.find \in Asked /\ client \notin {"search", "hello"}
  BY <1>1, <1>4 DEF RequestKnown, SessionInv, Present, Idle
<1>6. clientOn => client = "matches"
  <2> SUFFICES ASSUME clientOn, client # "matches" PROVE FALSE
    OBVIOUS
  <2>1. job.cmd = Cmd.find /\ Requested
    BY <1>5, CmdFacts DEF Asked, Sent, Nothing
  <2>2. client # "off"
    BY DEF SessionInv, Present
  <2> QED
    BY <2>1, <2>2, CmdFacts DEF SessionInv, JobKnown, Requested
<1>7. IF clientOn THEN toClient' = recs ELSE toClient' = toClient
  <2>1. clientOn => toClient = <<>>
    BY <1>1, <1>6 DEF SessionInv, Heard
  <2>2. <<>> \o recs = recs
    BY <1>2, JoinEmpty DEF IsReplies, IsStream
  <2> QED
    BY <1>1, <2>1, <2>2 DEF SentBack
<1>8. /\ \A k \in DOMAIN served : served[k].cmd = Cmd.find
      /\ job.cmd \in Changing => ~ Told
  BY <1>1, OnlySearches, CmdFacts DEF SessionInv, Changing
<1>9. Present'
  BY <1>1, <1>4, <1>5, <1>7 DEF SessionInv, Present
<1>10. Understood'
  <2>1. Nothing \in Asked' /\ Rest(<<>>, 1, Nothing, job)
    BY RestEmpty DEF Asked, Sent, Nothing
  <2> QED
    BY <1>1, <1>4, <2>1 DEF Understood
<1>11. Whole'
  <2>1. client \in {"prompt", "sending"} => ~ serverOn
    BY <1>6 DEF SessionInv, Present
  <2> QED
    BY <1>1, <2>1 DEF Whole
<1>12. Heard'
  <2>1. client = "matches" => IsReplies(toClient')
    BY <1>2, <1>7 DEF SessionInv, Heard
  <2>2. client = "response" /\ job.cmd \in Changing =>
          /\ IsStream(toClient)
          /\ toClient # <<>> => Len(toClient) = 1 /\ Len(toClient[1]) = 12 /\ Number(toClient[1][4]) # OK
    BY <1>8 DEF SessionInv, Heard
  <2>3. ~ (client = "off" /\ code = OK /\ job.cmd \in Changing)
    BY <1>8 DEF SessionInv, Heard
  <2>4. client # "matches" => toClient' = toClient /\ ~ clientOn
    BY <1>6, <1>7
  <2>5. CASE client = "matches"
    BY <1>1, <1>4, <2>1, <2>5 DEF Heard
  <2>6. CASE client # "matches"
    BY <1>1, <2>2, <2>3, <2>4, <2>6 DEF SessionInv, Heard
  <2> QED
    BY <2>5, <2>6
<1>13. DoneRight'
  <2>1. IsSeq(served) /\ Len(served) \in Nat /\ DOMAIN served = 1..Len(served)
    BY IsSeqFacts DEF SessionInv, DoneRight
  <2>2. IsSeq(served')
    BY <1>1, <2>1, AppendFacts
  <2>3. DOMAIN served' = 1..(Len(served) + 1)
    BY <1>1, <2>1, <2>2, IsSeqFacts, AppendFacts
  <2>4. \A k \in DOMAIN served' : served'[k].cmd = Cmd.find
    BY <1>1, <1>3, <1>8, <2>1, <2>3, AppendFacts
  <2> QED
    BY <2>2, <2>4 DEF DoneRight
<1>14. Typed' /\ JobKnown'
  BY <1>1, Frames DEF SessionInv
<1> QED
  BY <1>9, <1>10, <1>11, <1>12, <1>13, <1>14 DEF SessionInv

\* There is a last entry that an export can send.
LEMMA ServeExportKeeps ==
  ASSUME SessionInv, NEW n, ServeExport(n)
  PROVE  SessionInv'
<1> DEFINE ids == UniqueIds(index)
           ok == AllSent(ids, n)
           done == [cmd |-> Cmd.export, ok |-> ok]
<1>1. server = "serve" /\ request.cmd = Cmd.export /\ HangUp /\ UNCHANGED <<db, clientOn, using, search>>
  BY DEF ServeExport, Serving
<1>2. /\ request.cmd # Cmd.find /\ request.cmd \notin Changing /\ request.cmd = job.cmd
      /\ job.cmd \notin {Cmd.add, Cmd.edit, Cmd.passwd}
  BY <1>1, ServesTheJob, CmdFacts DEF Changing
<1>3. Typed'
  BY <1>1, Frames DEF SessionInv, db, using
<1>4. CASE Reply(ids # <<>>, 0, <<>>) /\ UNCHANGED served
  <2>1. Reply(ids # <<>>, 0, <<>>) /\ UNCHANGED served
    BY <1>4
  <2>2. PICK recs : /\ toClient' = SentBack(recs) /\ IsStream(recs)
                    /\ Len(recs) = 1 /\ Len(recs[1]) = 12 /\ recs[1][5] = Zero /\ Number(recs[1][9]) = 0
    <3> HIDE DEF ids
    <3> QED
      BY <2>1, ReplyAlone
  <2>3. IsRefusal(recs)
    BY <2>2 DEF IsRefusal
  <2> QED
    BY <1>1, <1>2, <1>3, <2>1, <2>2, <2>3, ServeEnds
<1>5. ASSUME n \in Sendable(ids), Reply(ok, 0, Append(SizedEntries(ids, n), Word(0))), Done(done) PROVE SessionInv'
  <2> DEFINE m == Message(IF ok THEN OK ELSE 1, 0, 0)
             recs == Append(Append(SizedEntries(ids, n), Word(0)), m)
  <2>1. toClient' = SentBack(recs) /\ served' = Append(served, done)
    BY <1>5 DEF Reply, Done
  <2>2. ids \in Seq(Ids)
    BY UniqueType DEF SessionInv, Typed, Term
  <2>3. n \in 0..Len(ids) /\ n \in Sendable(ids)
    BY <1>5 DEF Sendable
  <2>4. done.cmd = job'.cmd /\ job'.cmd \notin {Cmd.add, Cmd.edit, Cmd.passwd}
    BY <1>1, <1>2 DEF using
  <2> HIDE DEF ids, ok, done
  <2>5. IsExport(recs)
    <3> DEFINE A == {Word(1)}  B == {<<[entry |-> file[i]]>> : i \in {x \in Ids : Loads(x)}}
    <3>1. Pairs(SizedEntries(ids, n), A, B)
      BY <2>2, <2>3, ExportPairs
    <3>2. \A r \in A : IsSeq(r) /\ Len(r) = 4 /\ Number(r[4]) # 0
      BY WordFacts, NumberFacts
    <3>3. \A r \in B : IsSeq(r) /\ Len(r) = 1 /\ r[1] \in Sized
      <4>1. \A i \in Ids : Loads(i) => [entry |-> file[i]] \in Sized
        BY LoadsEntry DEF SessionInv, Typed, Sized
      <4> QED
        BY <4>1, TupleFacts
    <3>4. IsSeq(Word(0)) /\ Len(Word(0)) = 4 /\ Number(Word(0)[4]) = 0
      BY WordFacts, NumberFacts
    <3>5. IsSeq(m)
      <4>1. (IF ok THEN OK ELSE 1) \in Nat
        BY CmdFacts
      <4> QED
        BY <4>1, MessageFacts
    <3> HIDE DEF A, B, m
    <3> QED
      BY <3>1, <3>2, <3>3, <3>4, <3>5, ExportMade
  <2>6. IsStream(recs)
    BY <2>5 DEF IsExport
  <2> HIDE DEF recs
  <2>7. \E d : IsTheJob(d)' /\ served' = Append(served, d)
    BY <2>1, <2>4 DEF IsTheJob
  <2> QED
    BY <1>1, <1>2, <1>3, <2>1, <2>5, <2>6, <2>7, ServeEnds
<1> QED
  BY <1>4, <1>5 DEF ServeExport

LEMMA ImportEndsKeeps == ASSUME SessionInv, ImportEnds PROVE SessionInv'
<1> DEFINE done == [cmd |-> Cmd.import, ok |-> TRUE, count |-> request.arg]
<1>1. /\ server = "import" /\ Reply(TRUE, request.arg, <<>>) /\ served' = Append(served, done)
      /\ HangUp /\ UNCHANGED <<db, clientOn, using, search>>
  BY DEF ImportEnds, Done
<1>2. RequestKnown /\ request.cmd = Cmd.import
  BY <1>1, NotIdle DEF SessionInv, Understood
<1>3. /\ request.cmd # Cmd.find /\ request.cmd \notin Changing /\ request.cmd # Cmd.export
      /\ request.cmd = job.cmd /\ job.cmd \notin {Cmd.add, Cmd.edit, Cmd.passwd} /\ request.arg \in Nat
  BY <1>1, <1>2, ServesTheJob, CmdFacts DEF Changing, RequestKnown
<1>4. Typed'
  BY <1>1, Frames DEF SessionInv, db, using
<1>5. PICK recs : toClient' = SentBack(recs) /\ IsStream(recs)
  BY <1>1, <1>3, ReplyAlone
<1>6. done.cmd = job'.cmd /\ job'.cmd \notin {Cmd.add, Cmd.edit, Cmd.passwd}
  BY <1>1, <1>2, <1>3 DEF using
<1> HIDE DEF done
<1>7. \E d : IsTheJob(d)' /\ served' = Append(served, d)
  BY <1>1, <1>6 DEF IsTheJob
<1> QED
  BY <1>1, <1>3, <1>4, <1>5, <1>7, ServeEnds

LEMMA ImportAddsKeeps ==
  ASSUME SessionInv, NEW i \in Ids, NEW good \in BOOLEAN, ImportAdds(i, good)
  PROVE  SessionInv'
<1> DEFINE e == Left(toServer, 4)[1][1].entry
           done == [cmd |-> Cmd.import, ok |-> FALSE, count |-> request.arg + 1]
<1>1. /\ server = "import" /\ NumberIn(Taken(toServer, 4)) # 0 /\ Left(toServer, 4) # <<>>
      /\ Update(i, e, good) /\ UNCHANGED <<clientOn, using, search>>
  BY DEF ImportAdds
<1>2. RequestKnown /\ request.cmd = Cmd.import /\ Rest(toServer, 2, Cmd.import, job)
  BY <1>1, NotIdle DEF SessionInv, Understood
<1>3. /\ request.cmd # Cmd.find /\ request.cmd \notin Changing /\ request.cmd # Cmd.export
      /\ request.cmd = job.cmd /\ job.cmd \notin {Cmd.add, Cmd.edit, Cmd.passwd} /\ request.arg \in Nat
  BY <1>1, <1>2, ServesTheJob, CmdFacts DEF Changing, RequestKnown
<1>4. toServer # <<>>
  <2>1. Taken(<<>>, 4) = <<>> /\ NumberIn(<<>>) = 0
    BY TupleFacts DEF Taken, NumberIn
  <2> QED
    BY <1>1, <2>1
<1>5. Fits(toServer[1], 2, Cmd.import, job) /\ Rest(Tail(toServer), 3, Cmd.import, job) /\ IsStream(toServer)
  <2>1. Rest(Tail(toServer), 2 + 1, Cmd.import, job) /\ 2 + 1 = 3
    BY <1>2, <1>4, RestFirst
  <2> QED
    BY <1>2, <1>4, <2>1, RestFirst
<1>6. Left(toServer, 4) = Tail(toServer)
  <2>1. Len(toServer[1]) = 4
    BY <1>5, CmdFacts DEF Fits
  <2> QED
    BY <1>4, <1>5, <2>1, TakenCells
<1>7. /\ Tail(toServer) # <<>> /\ IsStream(Tail(toServer))
      /\ Fits(Tail(toServer)[1], 3, Cmd.import, job) /\ Rest(Tail(Tail(toServer)), 4, Cmd.import, job)
  <2> DEFINE t == Tail(toServer)
  <2>1. t # <<>> /\ Rest(t, 3, Cmd.import, job)
    BY <1>1, <1>5, <1>6
  <2> HIDE DEF t, e, done
  <2>2. Fits(t[1], 3, Cmd.import, job) /\ IsStream(t)
    BY <2>1, RestFirst
  <2>3. Rest(Tail(t), 3 + 1, Cmd.import, job) /\ 3 + 1 = 4
    BY <2>1, RestFirst
  <2> QED
    BY <2>1, <2>2, <2>3 DEF t
<1>8. Len(Tail(toServer)[1]) = 1 /\ Tail(toServer)[1][1] \in Sized
  BY <1>7, CmdFacts DEF Fits
<1>9. e \in EntryText
  BY <1>6, <1>8 DEF Sized
<1>10. Left(Left(toServer, 4), 1) = Tail(Tail(toServer))
  BY <1>6, <1>7, <1>8, TakenCells
<1> HIDE DEF e
<1>11. Typed' /\ password' = password
  BY <1>1, <1>9, UpdateTypes DEF SessionInv
<1>12. CASE good
  <2>1. /\ request' = [request EXCEPT !.arg = request.arg + 1] /\ toServer' = Tail(Tail(toServer))
        /\ UNCHANGED <<server, serverOn, toClient, served>>
    BY <1>10, <1>12 DEF ImportAdds
  <2> USE DEF using
  <2>2. RequestKnown' /\ request'.cmd = Cmd.import
    <3>1. request'.cmd = request.cmd /\ request'.arg = request.arg + 1 /\ DOMAIN request' = DOMAIN request
      BY <1>2, <2>1 DEF RequestKnown
    <3>2. Asked' = Asked
      BY <1>1, AskedFrame
    <3> QED
      BY <1>2, <1>3, <3>1, <3>2 DEF RequestKnown
  <2>3. Rest(toServer', 2, Cmd.import, job')
    BY <1>1, <1>7, <2>1, RestShift
  <2>4. Understood'
    BY <1>1, <2>1, <2>2, <2>3 DEF Understood
  <2>5. Whole'
    <3> SUFFICES ASSUME client \in {"prompt", "sending"}, job.cmd = Cmd.import, serverOn
                 PROVE  Len(toServer') % 2 = 0
      BY <1>1, <2>1 DEF Whole
    <3>1. Len(toServer) % 2 = 0
      BY <1>1 DEF SessionInv, Whole
    <3>2. Len(toServer') = Len(toServer) - 2 /\ Len(toServer) \in Nat
      BY <1>4, <1>5, <1>7, <2>1, SecondTailShape, StreamShape
    <3> DEFINE a == Len(toServer)
    <3>3. a \in Nat /\ a % 2 = 0
      BY <3>1, <3>2
    <3> HIDE DEF a
    <3>4. (a - 2) % 2 = 0
      BY <3>3
    <3> QED
      BY <3>2, <3>4 DEF a
  <2>6. Present'
    BY <1>1, <2>1 DEF SessionInv, Present, Idle
  <2>7. Heard'
    BY <1>1, <2>1 DEF SessionInv, Heard, Told
  <2>8. DoneRight'
    BY <1>1, <2>1 DEF SessionInv, DoneRight
  <2>9. JobKnown'
    BY <1>1, Frames DEF SessionInv
  <2> QED
    BY <1>11, <2>4, <2>5, <2>6, <2>7, <2>8, <2>9 DEF SessionInv
<1>13. CASE ~ good
  <2>1. Reply(FALSE, request.arg + 1, <<>>) /\ served' = Append(served, done) /\ HangUp
    BY <1>13 DEF ImportAdds, Done
  <2>2. request.arg + 1 \in Nat
    BY <1>3
  <2>3. PICK recs : toClient' = SentBack(recs) /\ IsStream(recs)
    BY <2>1, <2>2, ReplyAlone
  <2>4. done.cmd = job'.cmd /\ job'.cmd \notin {Cmd.add, Cmd.edit, Cmd.passwd}
    BY <1>1, <1>2, <1>3 DEF using
  <2> HIDE DEF done
  <2>5. \E d : IsTheJob(d)' /\ served' = Append(served, d)
    BY <2>1, <2>4 DEF IsTheJob
  <2> QED
    BY <1>1, <1>3, <1>11, <2>1, <2>3, <2>5, ServeEnds
<1> QED
  BY <1>12, <1>13

\* If the client may have sent no less, and nothing else changes, the server still
\* understands.
LEMMA StillUnderstood ==
  ASSUME Understood, Asked \subseteq Asked', ~ Idle' => ~ Idle, UNCHANGED <<toServer, server, request, job>>
  PROVE  Understood'
<1>1. SUFFICES ASSUME ~ Idle' PROVE Understood'
  BY DEF Understood
<1>2. /\ server = "kek" => \E cmd \in Asked' : \E m \in {0, 1} : Rest(toServer', m, cmd, job')
      /\ server = "loop" => \E cmd \in Asked' : Rest(toServer', 1, cmd, job')
  BY <1>1 DEF Understood
<1>3. server \in {"body", "value", "serve", "import"} => RequestKnown'
  BY <1>1 DEF Understood, RequestKnown
<1>4. EntryKnown => EntryKnown'
  BY DEF EntryKnown
<1> QED
  BY <1>1, <1>2, <1>3, <1>4 DEF Understood

\* The client that is gone may have sent whatever it was asked for.
LEMMA OffAsked ==
  ASSUME client' = "off", clientOn' = FALSE, UNCHANGED job
  PROVE  Asked \subseteq Asked'
BY DEF Asked, Sent, Requested

\* The client ends: what it returns is true.
LEMMA EndKeeps ==
  ASSUME SessionInv, NEW status, End(status), client \notin {"off", "hello"},
         UNCHANGED <<db, serverOn, serving, job, export>>, Understood',
         search' \in {search, NoSearch}, client = "search" => search' = NoSearch,
         status = OK /\ job.cmd \in Changing => Told
  PROVE  SessionInv'
<1> USE DEF End, db, serving
<1>1. search' \in [sent : Nat, ping : BOOLEAN, pong : BOOLEAN] /\ search'.ping = FALSE /\ search'.pong = FALSE
  <2>1. search \in [sent : Nat, ping : BOOLEAN, pong : BOOLEAN] /\ NoSearch \in [sent : Nat, ping : BOOLEAN, pong : BOOLEAN]
    BY DEF SessionInv, Typed, NoSearch
  <2>2. CASE search' = NoSearch
    BY <2>1, <2>2 DEF NoSearch
  <2>3. CASE search' = search /\ client # "search"
    BY <2>1, <2>3 DEF SessionInv, Present
  <2> QED
    BY <2>2, <2>3
<1>2. Typed'
  BY <1>1 DEF SessionInv, Typed
<1>3. Present'
  BY <1>1 DEF SessionInv, Present, Idle
<1>4. JobKnown' /\ Whole'
  BY DEF JobKnown, Whole
<1>5. Heard'
  BY DEF Heard, Told
<1>6. DoneRight'
  BY DEF SessionInv, DoneRight, IsTheJob, Requested
<1> QED
  BY <1>2, <1>3, <1>4, <1>5, <1>6 DEF SessionInv

\* It ends without having sent any more.
LEMMA EndQuietly ==
  ASSUME SessionInv, NEW status, End(status), client \notin {"off", "hello"},
         UNCHANGED <<db, toServer, serverOn, serving, job, export>>,
         search' \in {search, NoSearch}, client = "search" => search' = NoSearch,
         status = OK /\ job.cmd \in Changing => Told
  PROVE  SessionInv'
<1>1. Understood'
  <2>1. Asked \subseteq Asked'
    BY OffAsked DEF End
  <2>2. ~ Idle' => ~ Idle
    BY DEF Idle, End, serving
  <2> QED
    BY <2>1, <2>2, StillUnderstood DEF SessionInv, serving
<1> QED
  BY <1>1, EndKeeps

LEMMA GiveUpKeeps == ASSUME SessionInv, GiveUp PROVE SessionInv'
<1>1. 1 # OK
  BY CmdFacts
<1> QED
  BY <1>1, EndQuietly DEF GiveUp

LEMMA RefusedKeeps == ASSUME SessionInv, Refused PROVE SessionInv'
<1>1. 1 # OK
  BY CmdFacts
<1> QED
  BY <1>1, EndQuietly DEF Refused

LEMMA ConnectKeeps == ASSUME SessionInv, NEW good \in BOOLEAN, Connect(good) PROVE SessionInv'
<1>1. client = "search" /\ search.pong /\ search' = NoSearch /\ UNCHANGED <<db, serving, job, shown, unsent, export>>
  BY DEF Connect, Found
<1>2. CASE ~ good
  <2>1. End(1) /\ UNCHANGED <<toServer, serverOn>> /\ 1 # OK
    BY <1>2, CmdFacts DEF Connect
  <2> QED
    BY <1>1, <2>1, EndQuietly
<1>3. CASE good
  <2>1. /\ client' = "hello" /\ clientOn' = TRUE /\ serverOn' = TRUE
        /\ toServer' = <<>> /\ toClient' = <<>>
    BY <1>3 DEF Connect
  <2> USE DEF db, serving
  <2>2. server = "accept" /\ served = <<>> /\ shown = <<>>
    BY <1>1 DEF SessionInv, Present
  <2>3. Typed'
    <3>1. NoSearch \in [sent : Nat, ping : BOOLEAN, pong : BOOLEAN]
      BY DEF NoSearch
    <3> QED
      BY <1>1, <2>1, <3>1 DEF SessionInv, Typed
  <2>4. Present'
    BY <1>1, <2>1, <2>2 DEF Present, NoSearch
  <2>5. JobKnown'
    BY <1>1, <2>1 DEF SessionInv, JobKnown
  <2>6. Understood' /\ Whole' /\ Heard'
    BY <1>1, <2>1, <2>2 DEF Understood, Whole, Heard
  <2>7. DoneRight'
    BY <1>1, <2>2, TupleFacts DEF DoneRight
  <2> QED
    BY <2>3, <2>4, <2>5, <2>6, <2>7 DEF SessionInv
<1> QED
  BY <1>2, <1>3

LEMMA StartKeeps ==
  ASSUME SessionInv, NEW cmd \in 1..8, NEW value, NEW limit \in Nat, Start(cmd, value, limit)
  PROVE  SessionInv'
<1>1. /\ client = "off" /\ toServer = <<>> /\ server \notin {"serve", "import"}
      /\ client' = "search" /\ job' = [cmd |-> cmd, value |-> value, limit |-> limit]
      /\ shown' = <<>> /\ served' = <<>>
      /\ UNCHANGED <<db, link, server, request, search>>
  BY DEF Start
<1> USE DEF db, link
<1>2. {"cmd", "value", "limit"} \subseteq DOMAIN job' /\ job'.cmd = cmd /\ job'.limit = limit
  BY <1>1
<1>3. JobKnown'
  BY <1>1, <1>2 DEF JobKnown
<1>4. /\ IsSeq(export') /\ (Zero \in Range(export') \/ export' \in Seq(Items))
      /\ IF cmd = Cmd.import THEN export' \in Seq(Items) ELSE export' = <<>>
  <2>1. CASE cmd = Cmd.import
    <3>1. export' \in Files \cup {export} /\ Zero \notin Range(export')
      BY <2>1 DEF Start
    <3>2. Files \subseteq Seq(Items)
      <4>1. Files \subseteq Seq(Sized)
        BY KeysSessionAssumption DEF Sized
      <4>2. \A f \in Seq(Sized) : f \in Seq(Items)
        BY DEF Items
      <4> QED
        BY <4>1, <4>2
    <3>3. export' \in Seq(Items)
      BY <3>1, <3>2 DEF SessionInv, Typed
    <3> QED
      BY <2>1, <3>3, SeqIsSeq
  <2>2. CASE cmd # Cmd.import
    <3>1. export' = <<>>
      BY <2>2 DEF Start
    <3>2. <<>> \in Seq(Items)
      OBVIOUS
    <3> QED
      BY <2>2, <3>1, <3>2, TupleFacts
  <2> QED
    BY <2>1, <2>2
<1>5. Typed'
  BY <1>1, <1>2, <1>4 DEF SessionInv, Typed
<1>6. Present'
  BY <1>1 DEF SessionInv, Present, Idle
<1>7. Understood' /\ Whole' /\ Heard'
  BY <1>1 DEF Understood, Idle, Whole, Heard
<1>8. DoneRight'
  BY <1>1, TupleFacts DEF DoneRight
<1> QED
  BY <1>3, <1>5, <1>6, <1>7, <1>8 DEF SessionInv

\* What the client sends at first is the request that it may be asked for.
LEMMA FirstRequestFits ==
  ASSUME job.cmd \in 1..8, job.limit \in Nat, client' = NextStep, UNCHANGED job
  PROVE  /\ \E cmd \in Asked' : Rest(FirstRequest, 1, cmd, job)
         /\ job.cmd = Cmd.import => Rest(FirstRequest, 1, Cmd.import, job) /\ Len(FirstRequest) = 1
<1>1. CASE job.cmd \in {Cmd.add, Cmd.passwd}
  <2>1. FirstRequest = <<>> /\ job.cmd # Cmd.import
    BY <1>1, CmdFacts DEF FirstRequest
  <2>2. Nothing \in Asked'
    BY DEF Asked, Sent, Nothing
  <2> QED
    BY <2>1, <2>2, RestEmpty
<1>2. CASE job.cmd \in {Cmd.rekey, Cmd.export, Cmd.import}
  <2>1. FirstRequest = <<Message(job.cmd, 0, 0)>>
    BY <1>2, CmdFacts DEF FirstRequest
  <2>2. Rest(FirstRequest, 1, job.cmd, job)
    BY <1>2, <2>1, RequestFits
  <2>3. job.cmd \in Asked'
    <3>1. client' = IF job.cmd = Cmd.rekey THEN "response" ELSE "prompt"
      BY <1>2, CmdFacts DEF NextStep
    <3> QED
      BY <1>2, <3>1 DEF Asked, Sent, Requested
  <2>4. Len(FirstRequest) = 1
    BY <2>1, TupleFacts
  <2> QED
    BY <2>2, <2>3, <2>4
<1>3. CASE job.cmd = Cmd.delete
  <2>1. FirstRequest = Asks(Cmd.delete, 0, [value |-> job.value])
    BY <1>3, CmdFacts DEF FirstRequest
  <2>2. Carries([value |-> job.value], Cmd.delete, job)
    BY CmdFacts DEF Carries
  <2>3. Rest(FirstRequest, 1, Cmd.delete, job)
    BY <2>1, <2>2, RequestFits, CmdFacts
  <2>4. client' = "response"
    BY <1>3, CmdFacts DEF NextStep
  <2>5. Cmd.delete \in Asked'
    BY <1>3, <2>4 DEF Asked, Sent, Requested
  <2> QED
    BY <1>3, <2>3, <2>5, CmdFacts
<1>4. CASE job.cmd \in {Cmd.edit, Cmd.find}
  <2>1. \E n \in Nat : FirstRequest = Asks(Cmd.find, n, [value |-> job.value])
    <3>1. job.limit + 1 \in Nat /\ 2 \in Nat
      OBVIOUS
    <3> QED
      BY <1>4, <3>1, CmdFacts DEF FirstRequest
  <2>2. Carries([value |-> job.value], Cmd.find, job)
    BY CmdFacts DEF Carries
  <2>3. Rest(FirstRequest, 1, Cmd.find, job)
    BY <2>1, <2>2, RequestFits, CmdFacts
  <2>4. client' = "matches"
    BY <1>4, CmdFacts DEF NextStep
  <2>5. Cmd.find \in Asked'
    BY <2>4, CmdFacts DEF Asked, Sent
  <2> QED
    BY <1>4, <2>3, <2>5, CmdFacts
<1>5. job.cmd \in {Cmd.add, Cmd.passwd, Cmd.rekey, Cmd.export, Cmd.import, Cmd.delete, Cmd.edit, Cmd.find}
  BY CmdFacts
<1> QED
  BY <1>1, <1>2, <1>3, <1>4, <1>5

LEMMA HelloKeeps == ASSUME SessionInv, NEW kek, Hello(kek) PROVE SessionInv'
<1> DEFINE key == [k \in 1..KekLen |-> kek]
           kekRecord == IF kek \in Passwords /\ toClient # <<>> THEN <<key>> ELSE <<>>
<1>1. /\ client = "hello" /\ ClientReads /\ toServer' = SentOn(kekRecord \o FirstRequest)
      /\ toClient' = Left(toClient, 1) /\ client' = NextStep
      /\ UNCHANGED <<db, clientOn, serverOn, serving, job, shown, unsent, code, export, search>>
  BY DEF Hello
<1> USE DEF db, serving
<1>2. /\ toServer = <<>> /\ served = <<>> /\ shown = <<>> /\ server \in {"accept", "kek"}
      /\ toClient \in {<<>>, <<<<"kdfp">>>>}
  BY <1>1 DEF SessionInv, Present
<1>3. job.cmd \in 1..8 /\ job.limit \in Nat /\ {"cmd", "value", "limit"} \subseteq DOMAIN job
  BY <1>1 DEF SessionInv, JobKnown
<1>4. toClient' = <<>>
  <2>1. Left(<<>>, 1) = <<>> /\ Left(<<<<"kdfp">>>>, 1) = <<>>
    BY DEF Left
  <2> QED
    BY <1>1, <1>2, <2>1
<1>5. server = "accept" => ~ serverOn
  BY <1>1, <1>2 DEF SessionInv, Present, ClientReads
<1>6. IsSeq(key) /\ Len(key) = KekLen
  <2>1. 16 \in Nat /\ [k \in 1..16 |-> kek] \in [1..16 -> {kek}]
    OBVIOUS
  <2>2. [k \in 1..16 |-> kek] \in Seq({kek}) /\ Len([k \in 1..16 |-> kek]) = 16
    BY <2>1, FunctionIsSeq
  <2> QED
    BY <2>2, SeqIsSeq DEF KekLen
<1> HIDE DEF key
<1>7. ASSUME NEW cmd, Rest(FirstRequest, 1, cmd, job), serverOn
      PROVE  \E m \in {0, 1} : /\ Rest(toServer', m, cmd, job)
                               /\ Len(FirstRequest) = 1 => m + Len(toServer') = 2
  <2>0. toServer' = kekRecord \o FirstRequest
    BY <1>1, <1>2, <1>7, JoinEmpty, JoinFacts, TupleFacts DEF SentOn, Rest, IsStream
  <2>1. CASE kekRecord = <<key>>
    <3>1. Rest(toServer', 0, cmd, job)
      BY <1>6, <1>7, <2>0, <2>1, RestAfterKey
    <3>2. Len(toServer') = 1 + Len(FirstRequest)
      <4>1. IsSeq(<<key>>) /\ Len(<<key>>) = 1 /\ IsSeq(FirstRequest)
        BY <1>7, TupleFacts DEF Rest, IsStream
      <4> QED
        BY <2>0, <2>1, <4>1, JoinFacts
    <3>3. 0 \in {0, 1} /\ (Len(FirstRequest) = 1 => 0 + Len(toServer') = 2)
      <4> DEFINE a == Len(FirstRequest)  b == Len(toServer')
      <4>1. b = 1 + a
        BY <3>2
      <4> HIDE DEF a, b
      <4>2. a = 1 => 0 + b = 2
        BY <4>1
      <4> QED
        BY <4>2 DEF a, b
    <3> QED
      BY <3>1, <3>3, Zenon
  <2>2. CASE kekRecord = <<>>
    <3>1. toServer' = FirstRequest
      BY <1>7, <2>0, <2>2, JoinEmpty DEF Rest, IsStream
    <3>2. 1 \in {0, 1} /\ (Len(FirstRequest) = 1 => 1 + Len(toServer') = 2)
      <4> DEFINE a == Len(FirstRequest)  b == Len(toServer')
      <4>1. b = a
        BY <3>1
      <4> HIDE DEF a, b
      <4>2. a = 1 => 1 + b = 2
        BY <4>1
      <4> QED
        BY <4>2 DEF a, b
    <3>3. Rest(toServer', 1, cmd, job)
      BY <1>7, <3>1
    <3> QED
      BY <3>2, <3>3, Zenon
  <2> QED
    BY <2>1, <2>2
<1> HIDE DEF kekRecord
<1>8. PICK cmd \in Asked' : Rest(FirstRequest, 1, cmd, job)
  BY <1>1, <1>3, FirstRequestFits
<1>9. Understood'
  <2>1. CASE server = "accept"
    BY <1>1, <2>1 DEF Understood
  <2>2. CASE server = "kek" /\ serverOn
    <3>1. \E m \in {0, 1} : Rest(toServer', m, cmd, job)
      BY <1>7, <1>8, <2>2
    <3> QED
      BY <1>1, <1>8, <2>2, <3>1 DEF Understood
  <2>3. CASE server = "kek" /\ ~ serverOn
    <3>1. toServer' = <<>>
      BY <1>1, <1>2, <2>3 DEF SentOn
    <3>2. Rest(<<>>, 1, cmd, job)
      BY RestEmpty
    <3> QED
      BY <1>1, <1>8, <2>3, <3>1, <3>2 DEF Understood
  <2> QED
    BY <1>2, <2>1, <2>2, <2>3
<1>10. Whole'
  <2> SUFFICES ASSUME job.cmd = Cmd.import, serverOn, server = "kek"
               PROVE  \E m \in {0, 1} : /\ Rest(toServer', m, Cmd.import, job)
                                        /\ m + Len(toServer') >= 2 /\ (m + Len(toServer')) % 2 = 0
    BY <1>1, <1>2, <1>5 DEF Whole
  <2>1. Rest(FirstRequest, 1, Cmd.import, job) /\ Len(FirstRequest) = 1
    BY <1>1, <1>3, FirstRequestFits
  <2>2. PICK m \in {0, 1} : Rest(toServer', m, Cmd.import, job) /\ m + Len(toServer') = 2
    BY <1>7, <2>1
  <2>3. m + Len(toServer') >= 2 /\ (m + Len(toServer')) % 2 = 0
    BY <2>2
  <2> QED
    BY <2>2, <2>3
<1>11. /\ client' \in {"editor", "matches", "response", "prompt"}
       /\ client' = "matches" => job.cmd \in {Cmd.edit, Cmd.find}
       /\ client' = "editor" => job.cmd \in {Cmd.add, Cmd.edit}
       /\ client' = "prompt" => job.cmd \in {Cmd.passwd, Cmd.export, Cmd.import}
       /\ client' = "response" => job.cmd # Cmd.find
  BY <1>1, <1>3, CmdFacts DEF NextStep
<1>12. Typed'
  BY <1>1, <1>11 DEF SessionInv, Typed
<1>13. JobKnown'
  BY <1>1, <1>3, <1>11 DEF JobKnown
<1>14. Present'
  BY <1>1, <1>2, <1>4, <1>5, <1>11 DEF SessionInv, Present
<1>15. Heard'
  <2>1. IsStream(<<>>)
    BY TupleStream
  <2> QED
    BY <1>1, <1>2, <1>4, <1>11, <2>1, EmptyShapes DEF Heard
<1>16. DoneRight'
  BY <1>1, <1>2, TupleFacts DEF DoneRight
<1> QED
  BY <1>9, <1>10, <1>12, <1>13, <1>14, <1>15, <1>16 DEF SessionInv

\* What the server has understood of a search does not depend on the rest of the job.
LEMMA SearchUnderstood ==
  ASSUME Understood, ~ Idle, Asked \subseteq {Nothing, Cmd.find}, Asked \subseteq Asked',
         UNCHANGED <<toServer, server, request>>
  PROVE  Understood'
<1>1. \A cmd \in Asked : cmd \notin {Cmd.add, Cmd.edit, Cmd.passwd, Cmd.import}
  BY CmdFacts DEF Nothing
<1>2. \A cmd \in Asked : \A m : Rest(toServer, m, cmd, job) => Rest(toServer', m, cmd, job')
  BY <1>1, RestOther
<1>3. /\ server = "kek" => \E cmd \in Asked' : \E m \in {0, 1} : Rest(toServer', m, cmd, job')
      /\ server = "loop" => \E cmd \in Asked' : Rest(toServer', 1, cmd, job')
  <2>1. server = "kek" => \E cmd \in Asked : \E m \in {0, 1} : Rest(toServer, m, cmd, job)
    BY DEF Understood
  <2>2. server = "loop" => \E cmd \in Asked : Rest(toServer, 1, cmd, job)
    BY DEF Understood
  <2> QED
    BY <1>2, <2>1, <2>2
<1>4. CASE server \in {"body", "value", "serve", "import"}
  <2>1. RequestKnown /\ request.cmd \in Asked /\ RequestKnown'
    BY <1>4 DEF Understood, RequestKnown
  <2>2. request.cmd \notin {Cmd.add, Cmd.edit, Cmd.passwd, Cmd.import}
    BY <1>1, <2>1
  <2>3. server # "value" /\ server # "import"
    BY <2>2 DEF Understood
  <2>4. server = "body" => request'.cmd \in 1..5 /\ Rest(toServer', 2, request'.cmd, job')
    BY <1>2, <2>1 DEF Understood
  <2>5. server = "serve" => (request'.cmd = Cmd.find => toServer' = <<>>)
    BY DEF Understood
  <2>6. UNCHANGED <<server, request>>
    OBVIOUS
  <2> QED
    BY <1>4, <2>1, <2>2, <2>3, <2>4, <2>5, <2>6 DEF Understood
<1>5. CASE server \notin {"body", "value", "serve", "import"}
  BY <1>3, <1>5 DEF Understood
<1> QED
  BY <1>4, <1>5

\* A server that was not asked for anything understands a request.
LEMMA RequestUnderstood ==
  ASSUME Understood, ~ Idle, Asked = {Nothing}, NEW s, NEW cmd \in Asked', Rest(s, 1, cmd, job'),
         toServer' = toServer \o s, UNCHANGED <<server, request>>
  PROVE  Understood'
<1>1. ASSUME NEW m \in {0, 1}, Rest(toServer, m, Nothing, job)
      PROVE  \E n \in {0, 1} : Rest(toServer', n, cmd, job') /\ (m = 1 => n = 1)
  <2>1. /\ toServer = <<>> \/ (m = 0 /\ Len(toServer) = 1)
        /\ Rest(toServer, m, cmd, job')
    BY <1>1, RestNothing
  <2>2. CASE toServer = <<>>
    <3>1. toServer' = s
      BY <2>2, JoinEmpty DEF Rest, IsStream
    <3> QED
      BY <3>1
  <2>3. CASE m = 0 /\ Len(toServer) = 1
    <3>1. 1 = m + Len(toServer)
      BY <2>3
    <3>2. Rest(toServer \o s, 0, cmd, job')
      BY <2>1, <2>3, <3>1, RestJoin
    <3> QED
      BY <2>3, <3>2
  <2> QED
    BY <2>1, <2>2, <2>3
<1>2. server = "kek" => \E n \in {0, 1} : Rest(toServer', n, cmd, job')
  <2>1. server = "kek" => \E m \in {0, 1} : Rest(toServer, m, Nothing, job)
    BY DEF Understood
  <2> QED
    BY <1>1, <2>1
<1>3. server = "loop" => Rest(toServer', 1, cmd, job')
  <2>1. server = "loop" => Rest(toServer, 1, Nothing, job)
    BY DEF Understood
  <2> QED
    BY <1>1, <2>1
<1>4. server \notin {"body", "value", "serve", "import"}
  BY DEF Understood, RequestKnown
<1> QED
  BY <1>2, <1>3, <1>4 DEF Understood

\* The user has entered what the command needs, and the request is sent.
LEMMA AsksKeeps ==
  ASSUME SessionInv, client = "editor" \/ (client = "prompt" /\ job.cmd = Cmd.passwd),
         client' = "response",
         {"cmd", "value", "limit"} \subseteq DOMAIN job', job'.cmd = job.cmd, job'.limit = job.limit,
         NEW s, Rest(s, 1, job.cmd, job'), toServer' = SentOn(s),
         UNCHANGED <<db, toClient, clientOn, serverOn, serving, shown, unsent, code, export, search>>
  PROVE  SessionInv'
<1> USE DEF db, serving
<1>1. job.cmd \in {Cmd.add, Cmd.edit, Cmd.passwd} /\ job.cmd \in 1..8 /\ job.limit \in Nat
  BY DEF SessionInv, JobKnown
<1>2. ~ Requested /\ client # "matches" /\ ~ Idle
  BY <1>1, CmdFacts DEF Requested, Idle
<1>3. Asked \subseteq {Nothing, Cmd.find} /\ (clientOn => Asked \subseteq {Nothing}) /\ Nothing \in Asked
  BY <1>2 DEF Asked, Sent, Nothing
<1>4. Asked \subseteq Asked' /\ job.cmd \in Asked'
  BY <1>1, <1>2 DEF Asked, Sent, Requested
<1>5. Understood'
  <2>1. CASE serverOn
    <3>1. clientOn
      BY <2>1 DEF SessionInv, Present
    <3>2. Asked = {Nothing} /\ toServer' = toServer \o s
      BY <1>3, <2>1, <3>1 DEF SentOn
    <3> QED
      BY <1>2, <1>4, <3>2, RequestUnderstood DEF SessionInv
  <2>2. CASE ~ serverOn
    <3>1. toServer' = toServer
      BY <2>2 DEF SentOn
    <3> QED
      BY <1>2, <1>3, <1>4, <3>1, SearchUnderstood DEF SessionInv
  <2> QED
    BY <2>1, <2>2
<1>6. \A k \in DOMAIN served : served[k].cmd = Cmd.find
  BY <1>2, OnlySearches DEF SessionInv
<1>7. toClient = <<>>
  BY DEF SessionInv, Heard
<1>8. Typed'
  BY DEF SessionInv, Typed
<1>9. JobKnown'
  BY <1>1, CmdFacts DEF JobKnown
<1>10. Present'
  BY DEF SessionInv, Present
<1>11. Whole'
  BY DEF Whole
<1>12. Heard'
  BY <1>7, TupleStream DEF Heard
<1>13. DoneRight'
  BY <1>6 DEF SessionInv, DoneRight
<1> QED
  BY <1>5, <1>8, <1>9, <1>10, <1>11, <1>12, <1>13 DEF SessionInv

\* What is added to the job changes nothing of it.
LEMMA JobGrows ==
  ASSUME SessionInv, client \in {"editor", "prompt"},
         NEW new, job' = Over(new, job), DOMAIN new \cap {"cmd", "value", "limit"} = {}
  PROVE  {"cmd", "value", "limit"} \subseteq DOMAIN job' /\ job'.cmd = job.cmd /\ job'.limit = job.limit
<1>1. {"cmd", "value", "limit"} \subseteq DOMAIN job
  BY DEF SessionInv, JobKnown
<1> QED
  BY <1>1, OverFacts

LEMMA EditedKeeps == ASSUME SessionInv, NEW e \in Entries, Edited(e) PROVE SessionInv'
<1> DEFINE new == [entry |-> e]
           s == IF job.cmd = Cmd.add THEN Asks(Cmd.add, 0, new)
                ELSE Append(Asks(Cmd.edit, 1, new), <<[value |-> job.value]>>)
<1>1. /\ client = "editor" /\ job' = Over(new, job) /\ toServer' = SentOn(s) /\ client' = "response"
      /\ UNCHANGED <<db, toClient, clientOn, serverOn, serving, shown, unsent, code, export, search>>
  BY DEF Edited
<1>2. e \in EntryText
  BY KeysSessionAssumption
<1>3. job.cmd \in {Cmd.add, Cmd.edit}
  BY <1>1 DEF SessionInv, JobKnown
<1>4. DOMAIN new = {"entry"} /\ new.entry = e
  OBVIOUS
<1>5. job'.entry = e
  BY <1>1, <1>4, OverFacts
<1>6. Carries(new, job.cmd, job')
  BY <1>2, <1>3, <1>4, <1>5 DEF Carries
<1> HIDE DEF new
<1>7. Rest(s, 1, job.cmd, job')
  <2>1. CASE job.cmd = Cmd.add
    BY <1>6, <2>1, RequestFits, CmdFacts
  <2>2. CASE job.cmd = Cmd.edit
    <3>1. s = Append(Asks(Cmd.edit, 1, new), <<[value |-> job.value]>>)
      BY <2>2, CmdFacts
    <3> HIDE DEF s
    <3> QED
      BY <1>6, <2>2, <3>1, RequestFits, CmdFacts
  <2> QED
    BY <1>3, <2>1, <2>2
<1> HIDE DEF s
<1>8. {"cmd", "value", "limit"} \subseteq DOMAIN job' /\ job'.cmd = job.cmd /\ job'.limit = job.limit
  BY <1>1, <1>4, JobGrows
<1> QED
  BY <1>1, <1>7, <1>8, AsksKeeps

LEMMA NewPasswdKeeps == ASSUME SessionInv, NEW p, NewPasswd(p) PROVE SessionInv'
<1> DEFINE new == [password |-> p]
           what == [value |-> p]
           s == Asks(Cmd.passwd, 0, what)
<1>1. /\ client = "prompt" /\ job.cmd = Cmd.passwd /\ job' = Over(new, job)
      /\ toServer' = SentOn(s) /\ client' = "response"
      /\ UNCHANGED <<db, toClient, clientOn, serverOn, serving, shown, unsent, code, export, search>>
  BY DEF NewPasswd
<1>2. DOMAIN new = {"password"} /\ new.password = p /\ DOMAIN what = {"value"} /\ what.value = p
  OBVIOUS
<1>3. job'.password = p
  BY <1>1, <1>2, OverFacts
<1>4. Carries(what, Cmd.passwd, job')
  BY <1>2, <1>3, CmdFacts DEF Carries
<1> HIDE DEF new, what
<1>5. Rest(s, 1, job.cmd, job')
  BY <1>1, <1>4, RequestFits, CmdFacts
<1> HIDE DEF s
<1>6. {"cmd", "value", "limit"} \subseteq DOMAIN job' /\ job'.cmd = job.cmd /\ job'.limit = job.limit
  BY <1>1, <1>2, JobGrows
<1> QED
  BY <1>1, <1>5, <1>6, AsksKeeps

LEMMA ExportPasswdKeeps == ASSUME SessionInv, ExportPasswd PROVE SessionInv'
<1>1. /\ client = "prompt" /\ job.cmd = Cmd.export /\ export' = <<>> /\ client' = "receiving"
      /\ UNCHANGED <<db, link, serving, job, shown, unsent, code, search>>
  BY DEF ExportPasswd
<1> USE DEF db, link, serving
<1>2. export = <<>>
  BY <1>1, CmdFacts DEF SessionInv, Typed
<1>3. Requested /\ Requested' /\ Asked \subseteq Asked'
  BY <1>1 DEF Asked, Sent, Requested
<1>4. Understood'
  <2>1. ~ Idle' => ~ Idle
    BY <1>1 DEF Idle
  <2> QED
    BY <1>1, <1>3, <2>1, StillUnderstood DEF SessionInv
<1>5. Typed'
  <2>1. IsSeq(<<>>) /\ <<>> \in Seq(Items)
    BY TupleFacts
  <2> QED
    BY <1>1, <1>2, <2>1 DEF SessionInv, Typed
<1>6. JobKnown' /\ Whole' /\ Present'
  BY <1>1 DEF SessionInv, JobKnown, Whole, Present, Idle
<1>7. Heard'
  BY <1>1, <1>2 DEF SessionInv, Heard
<1>8. DoneRight'
  BY <1>1, <1>3 DEF SessionInv, DoneRight, IsTheJob
<1> QED
  BY <1>4, <1>5, <1>6, <1>7, <1>8 DEF SessionInv

LEMMA ImportPasswdKeeps == ASSUME SessionInv, NEW right \in BOOLEAN, ImportPasswd(right) PROVE SessionInv'
<1>1. /\ client = "prompt" /\ job.cmd = Cmd.import /\ unsent' \in {export, <<>>} /\ client' = "sending"
      /\ UNCHANGED <<db, link, serving, job, shown, code, export, search>>
  BY DEF ImportPasswd
<1> USE DEF db, link, serving
<1>2. Requested /\ Requested' /\ Asked \subseteq Asked'
  BY <1>1 DEF Asked, Sent, Requested
<1>3. Understood'
  <2>1. ~ Idle' => ~ Idle
    BY <1>1 DEF Idle
  <2> QED
    BY <1>1, <1>2, <2>1, StillUnderstood DEF SessionInv
<1>4. Typed'
  <2>1. export \in Seq(Items) /\ <<>> \in Seq(Items)
    BY <1>1 DEF SessionInv, Typed
  <2> QED
    BY <1>1, <2>1 DEF SessionInv, Typed
<1>5. JobKnown' /\ Whole' /\ Present'
  BY <1>1 DEF SessionInv, JobKnown, Whole, Present, Idle
<1>6. Heard'
  BY <1>1, CmdFacts DEF SessionInv, Heard
<1>7. DoneRight'
  BY <1>1, <1>2 DEF SessionInv, DoneRight, IsTheJob
<1> QED
  BY <1>3, <1>4, <1>5, <1>6, <1>7 DEF SessionInv

LEMMA ResponseKeeps == ASSUME SessionInv, Response PROVE SessionInv'
<1> DEFINE status == IF Len(Taken(toClient, 12)) = 12 THEN Number(Taken(toClient, 12)[4]) ELSE 1
<1>1. client = "response" /\ End(status)
      /\ UNCHANGED <<db, toServer, serverOn, serving, job, shown, unsent, export, search>>
  BY DEF Response
<1>2. ASSUME status = OK, job.cmd \in Changing PROVE Told
  <2>1. Len(Taken(toClient, 12)) = 12 /\ Number(Taken(toClient, 12)[4]) = OK
    BY <1>2, CmdFacts
  <2>2. toClient # <<>>
    BY <2>1, TupleFacts DEF Taken
  <2>3. IsStream(toClient) /\ Len(toClient[1]) = 12 /\ (Number(toClient[1][4]) = OK => Told)
    BY <1>1, <1>2, <2>2 DEF SessionInv, Heard
  <2>4. Taken(toClient, 12)[4] = toClient[1][4]
    BY <2>2, <2>3, TakenCells
  <2> QED
    BY <2>1, <2>3, <2>4
<1> HIDE DEF status
<1> QED
  BY <1>1, <1>2, EndQuietly

LEMMA ReadMatchKeeps == ASSUME SessionInv, ReadMatch PROVE SessionInv'
<1> DEFINE msg == Taken(toClient, 12)
           rest == Left(toClient, 12)
<1>1. client = "matches" /\ UNCHANGED <<db, toServer, serverOn, serving, job, unsent, export, search>>
  BY DEF ReadMatch
<1>2. IsReplies(toClient)
  BY <1>1 DEF SessionInv, Heard
<1>3. ASSUME toClient # <<>>
      PROVE  /\ rest = Tail(toClient) /\ Len(msg) = 12 /\ Number(msg[12]) \in Nat
             /\ Number(msg[12]) = 0 => rest = <<>>
             /\ rest # <<>> => Len(rest[1]) = 1 /\ IsStream(rest) /\ IsReplies(Tail(rest))
  <2>1. IsStream(toClient) /\ Announces(toClient[1]) /\ IsStream(Tail(toClient))
    BY <1>2, <1>3, RepliesRead
  <2>2. Len(toClient[1]) = 12 /\ Number(toClient[1][12]) \in Nat
    BY <2>1 DEF Announces
  <2>3. rest = Tail(toClient) /\ Len(msg) = 12 /\ msg[12] = toClient[1][12]
    BY <1>3, <2>1, <2>2, TakenCells
  <2> HIDE DEF rest, msg
  <2> QED
    BY <1>2, <1>3, <2>1, <2>2, <2>3, RepliesRead
<1>4. toClient = <<>> => rest = <<>> /\ Len(msg) # 12
  BY TupleFacts DEF Taken, Left
<1>5. CASE Len(msg) = 12 /\ Number(msg[12]) > 0
  <2>1. toClient' = Left(rest, 1) /\ UNCHANGED <<client, clientOn, code>>
    BY <1>5 DEF ReadMatch
  <2>2. toClient # <<>>
    BY <1>4, <1>5
  <2> HIDE DEF rest, msg
  <2>3. IsReplies(toClient')
    <3>1. CASE rest = <<>>
      BY <2>1, <3>1, EmptyShapes DEF Left
    <3>2. CASE rest # <<>>
      <4>1. Left(rest, 1) = Tail(rest)
        BY <1>3, <2>2, <3>2, TakenCells
      <4> QED
        BY <1>3, <2>1, <2>2, <3>2, <4>1
    <3> QED
      BY <3>1, <3>2
  <2> USE DEF db, serving
  <2>4. Present'
    BY <1>1, <2>1 DEF SessionInv, Present
  <2>5. Heard'
    BY <1>1, <2>1, <2>2, <2>3 DEF SessionInv, Heard
  <2>6. Typed'
    BY <1>1, <2>1 DEF SessionInv, Typed
  <2> QED
    BY <1>1, <2>1, <2>4, <2>5, <2>6, Frames DEF SessionInv
<1>6. CASE ~ (Len(msg) = 12 /\ Number(msg[12]) > 0)
  <2>1. CASE job.cmd = Cmd.edit /\ shown # <<>>
    <3>1. client' = "editor" /\ toClient' = rest /\ UNCHANGED <<shown, clientOn, code>>
      BY <1>6, <2>1 DEF ReadMatch
    <3> HIDE DEF msg, rest
    <3>2. toClient' = <<>>
      <4>1. toClient # <<>> => Number(msg[12]) = 0
        BY <1>3, <1>6
      <4> QED
        BY <1>3, <1>4, <3>1, <4>1
    <3> USE DEF db, serving
    <3>3. Understood'
      <4>1. CASE clientOn
        <5>1. server = "loop" /\ toServer = <<>>
          BY <1>1, <2>1, <4>1 DEF SessionInv, Heard
        <5>2. Nothing \in Asked' /\ Rest(<<>>, 1, Nothing, job)
          BY RestEmpty DEF Asked, Sent, Nothing
        <5> QED
          BY <1>1, <5>1, <5>2 DEF Understood
      <4>2. CASE ~ clientOn
        <5>1. Asked \subseteq Asked'
          BY <1>1, <2>1, <3>1, <4>2, CmdFacts DEF Asked, Sent, Requested
        <5>2. ~ Idle' => ~ Idle
          BY <1>1 DEF Idle
        <5> QED
          BY <1>1, <5>1, <5>2, StillUnderstood DEF SessionInv
      <4> QED
        BY <4>1, <4>2
    <3>4. Typed'
      BY <1>1, <3>1 DEF SessionInv, Typed
    <3>5. JobKnown' /\ Whole' /\ Present'
      BY <1>1, <2>1, <3>1 DEF SessionInv, JobKnown, Whole, Present
    <3>6. Heard'
      BY <3>1, <3>2, CmdFacts DEF Heard
    <3>7. DoneRight'
      <4>1. \A k \in DOMAIN served : served[k].cmd = Cmd.find
        BY <1>1, OnlySearches DEF SessionInv, Requested
      <4> QED
        BY <1>1, <4>1 DEF SessionInv, DoneRight
    <3> QED
      BY <3>3, <3>4, <3>5, <3>6, <3>7 DEF SessionInv
  <2>2. CASE ~ (job.cmd = Cmd.edit /\ shown # <<>>)
    <3>1. \E status : End(status) /\ (status = OK => job.cmd = Cmd.find)
      <4>1. End(IF job.cmd = Cmd.find THEN OK ELSE 1)
        BY <1>6, <2>2 DEF ReadMatch
      <4>2. (IF job.cmd = Cmd.find THEN OK ELSE 1) = OK => job.cmd = Cmd.find
        BY CmdFacts
      <4> QED
        BY <4>1, <4>2
    <3>2. Cmd.find \notin Changing
      BY CmdFacts DEF Changing
    <3> QED
      BY <1>1, <3>1, <3>2, EndQuietly
  <2> QED
    BY <2>1, <2>2
<1> QED
  BY <1>5, <1>6

\* What is left of a stream is a stream, and what is read of it a sequence.
LEMMA LeftStream ==
  ASSUME NEW s, IsStream(s), NEW n \in Nat
  PROVE  IsStream(Left(s, n)) /\ IsSeq(Taken(s, n))
<1>1. CASE s = <<>>
  BY <1>1, TupleFacts DEF Left, Taken
<1>2. CASE s # <<>>
  <2>1. Head(s) = s[1] /\ IsSeq(s[1]) /\ Len(s[1]) \in Nat
    <3>1. IsSeq(s)
      BY DEF IsStream
    <3>2. 1 \in 1..Len(s) /\ Head(s) = s[1]
      BY <1>2, <3>1, IsSeqFacts
    <3> QED
      BY <3>2, StreamShape
  <2>2. CASE Len(s[1]) <= n
    <3>1. Left(s, n) = Tail(s)
      BY <1>2, <2>2, TakenWhole
    <3>2. Taken(s, n) = SubSeq(s[1], 1, IF Len(s[1]) < n THEN Len(s[1]) ELSE n)
      BY <1>2, <2>1 DEF Taken
    <3>3. (IF Len(s[1]) < n THEN Len(s[1]) ELSE n) \in 0..Len(s[1])
      BY <2>1, <2>2
    <3> QED
      BY <1>2, <2>1, <3>1, <3>2, <3>3, TailShape, PartFacts
  <2>3. CASE ~ (Len(s[1]) <= n)
    <3>1. n < Len(s[1])
      BY <2>1, <2>3
    <3>2. IsStream(Left(s, n))
      BY <1>2, <3>1, TakenPart
    <3>3. Taken(s, n) = SubSeq(s[1], 1, n)
      BY <1>2, <2>1, <3>1 DEF Taken
    <3>4. n \in 0..Len(s[1])
      BY <2>1, <3>1
    <3> QED
      BY <2>1, <3>2, <3>3, <3>4, PartFacts
  <2> QED
    BY <2>2, <2>3
<1> QED
  BY <1>1, <1>2

\* A refusal that is taken for an export leaves a zero in it.
LEMMA RefusalRead ==
  ASSUME NEW s, IsRefusal(s)
  PROVE  /\ LET t == Taken(Left(s, 4), 1) IN IsSeq(t) /\ Len(t) = 1 /\ t[1] = Zero
         /\ IsRefused(Left(Left(s, 4), 1))
<1> DEFINE r == Left(s, 4)
           q == Left(r, 1)
<1>0. r = Left(s, 4) /\ q = Left(r, 1)
  OBVIOUS
<1> HIDE DEF r, q
<1>1. IsStream(s) /\ s # <<>> /\ Len(s[1]) = 12 /\ s[1][5] = Zero /\ Number(s[1][9]) = 0
  <2>1. IsStream(s) /\ Len(s) = 1
    BY DEF IsRefusal
  <2>2. s = <<>> <=> Len(s) = 0
    BY <2>1, StreamShape
  <2> QED
    BY <2>1, <2>2 DEF IsRefusal
<1>2. /\ IsStream(r) /\ r # <<>> /\ Len(r[1]) = Len(s[1]) - 4
      /\ \A k \in 1..(Len(s[1]) - 4) : r[1][k] = s[1][4 + k]
  <2> DEFINE n == 4
  <2>1. n < Len(s[1]) /\ n \in Nat /\ r = Left(s, n)
    BY <1>0, <1>1
  <2> HIDE DEF n
  <2>2. IsStream(s) /\ s # <<>>
    BY <1>1
  <2>3. IsStream(r) /\ r # <<>> /\ Len(r[1]) = Len(s[1]) - n
    BY <2>1, <2>2, TakenPart
  <2>4. \A k \in 1..(Len(s[1]) - n) : r[1][k] = s[1][n + k]
    BY <2>1, <2>2, TakenPart
  <2> QED
    BY <2>3, <2>4 DEF n
<1>3. /\ 1 \in 1..(Len(s[1]) - 4) /\ 4 + 1 = 5 /\ 1 < Len(r[1])
      /\ 5 \in 1..(Len(s[1]) - 4) /\ 4 + 5 = 9 /\ Len(r[1]) = 8
  BY <1>1, <1>2
<1>4. r[1][1] = Zero /\ r[1][5] = s[1][9]
  BY <1>1, <1>2, <1>3
<1>5. Len(Taken(r, 1)) = 1 /\ Taken(r, 1)[1] = r[1][1]
  <2>1. 1 \in Nat /\ 1 \in 1..1
    OBVIOUS
  <2> QED
    BY <1>0, <1>2, <1>3, <2>1, TakenPart
<1>6. IsSeq(Taken(r, 1))
  BY <1>2, LeftStream
<1>7. IsRefused(q)
  <2>1. /\ IsStream(q) /\ q # <<>> /\ Len(q[1]) = Len(r[1]) - 1
        /\ \A k \in 1..(Len(r[1]) - 1) : q[1][k] = r[1][1 + k]
    <3>1. 1 \in Nat /\ 1 < Len(r[1]) /\ IsStream(r) /\ r # <<>>
      BY <1>2, <1>3
    <3> QED
      BY <1>0, <3>1, TakenPart
  <2>2. 4 \in 1..(Len(r[1]) - 1) /\ 1 + 4 = 5 /\ Len(r[1]) - 1 = 7
    BY <1>3
  <2>3. q[1][4] = r[1][5]
    BY <2>1, <2>2
  <2> QED
    BY <1>1, <1>4, <2>1, <2>2, <2>3 DEF IsRefused
<1> QED
  BY <1>4, <1>5, <1>6, <1>7 DEF r, q

\* What is left of a refusal ends the export.
LEMMA RefusedRead ==
  ASSUME NEW s, IsRefused(s)
  PROVE  NumberIn(Taken(s, 4)) = 0
<1> DEFINE n == 4
<1>1. IsStream(s) /\ s # <<>> /\ n \in Nat /\ n < Len(s[1]) /\ n \in 1..n
  BY DEF IsRefused
<1> HIDE DEF n
<1>2. Len(Taken(s, n)) = n /\ Taken(s, n)[n] = s[1][n]
  BY <1>1, TakenPart
<1> QED
  BY <1>2 DEF n, NumberIn, IsRefused

\* The client goes on with what it has read, or with what a short write left of it.
LEMMA ReceivesOn ==
  ASSUME SessionInv, client = "receiving", NumberIn(Taken(toClient, 4)) # 0, Left(toClient, 4) # <<>>,
         UNCHANGED <<db, toServer, clientOn, serverOn, serving, client, job, shown, unsent, code, search>>,
         toClient' = Left(Left(toClient, 4), 1),
         export' = export \o Taken(Left(toClient, 4), 1) \/ export' = Append(export, Torn)
  PROVE  SessionInv'
<1> DEFINE size == NumberIn(Taken(toClient, 4))
           rest == Left(toClient, 4)
           part == Taken(rest, 1)
<1> USE DEF db, serving
<1>1. size # 0 /\ rest # <<>> /\ toClient' = Left(rest, 1) /\ export' \in {export \o part, Append(export, Torn)}
  OBVIOUS
<1>2. job.cmd = Cmd.export
  BY DEF SessionInv, JobKnown
<1>3. /\ IsStream(toClient)
      /\ Zero \in Range(export) \/ IsExport(toClient) \/ IsRefusal(toClient) \/ IsRefused(toClient)
  BY DEF SessionInv, Heard
<1>4. ~ IsRefused(toClient)
  BY <1>1, RefusedRead
<1>5. IsStream(rest) /\ toClient # <<>>
  BY <1>1, <1>3, LeftStream DEF Left
<1>6. IsStream(toClient') /\ IsSeq(part)
  <2> HIDE DEF rest
  <2> QED
    BY <1>1, <1>5, LeftStream
<1>7. IsSeq(export) /\ Len(export) \in Nat /\ (Zero \in Range(export) \/ export \in Seq(Items))
  BY IsSeqFacts DEF SessionInv, Typed
<1>8. IsSeq(export') /\ (Zero \in Range(export) => Zero \in Range(export'))
  <2> HIDE DEF part
  <2>1. CASE export' = export \o part
    BY <1>6, <1>7, <2>1, JoinFacts, JoinRange
  <2>2. CASE export' = Append(export, Torn)
    <3>1. IsSeq(export') /\ Range(export) \subseteq Range(export')
      <4>1. /\ IsSeq(export') /\ Len(export') = Len(export) + 1
            /\ \A k \in 1..Len(export) : export'[k] = export[k]
        BY <1>7, <2>2, AppendFacts
      <4>2. DOMAIN export = 1..Len(export) /\ DOMAIN export' = 1..(Len(export) + 1)
        BY <1>7, <4>1, IsSeqFacts
      <4>3. \A k \in 1..Len(export) : k \in 1..(Len(export) + 1)
        BY <1>7
      <4> QED
        BY <4>1, <4>2, <4>3 DEF Range
    <3> QED
      BY <3>1
  <2> QED
    BY <1>1, <2>1, <2>2
<1>9. ASSUME IsExport(toClient) PROVE IsExport(toClient') /\ (export \in Seq(Items) => export' \in Seq(Items))
  <2>1. Len(toClient[1]) = 4
    BY <1>5, <1>9, ExportRead
  <2>2. /\ rest = Tail(toClient) /\ Len(Taken(toClient, 4)) = 4
        /\ Taken(toClient, 4)[4] = toClient[1][4]
    BY <1>3, <1>5, <2>1, TakenCells
  <2>3. Number(toClient[1][4]) # 0
    BY <1>1, <2>2 DEF NumberIn
  <2>4. Len(rest[1]) = 1 /\ rest[1][1] \in Sized /\ IsExport(Tail(rest))
    <3> HIDE DEF rest, part
    <3> QED
      BY <1>1, <1>5, <1>9, <2>2, <2>3, ExportRead
  <2>5. Left(rest, 1) = Tail(rest) /\ Len(part) = 1 /\ part[1] = rest[1][1]
    <3> HIDE DEF rest
    <3> QED
      BY <1>1, <1>5, <2>4, TakenCells
  <2>6. part \in Seq(Items) /\ Torn \in Items
    <3> HIDE DEF part, rest
    <3>1. part \in Seq(Range(part)) /\ \A k \in 1..Len(part) : part[k] \in Items
      BY <1>6, <2>4, <2>5 DEF IsSeq, Items
    <3> QED
      BY <3>1 DEF Items
  <2> HIDE DEF part, rest, size
  <2>7. IsExport(toClient')
    BY <1>1, <2>4, <2>5
  <2>8. export \in Seq(Items) => export' \in Seq(Items)
    <3>1. export \in Seq(Items) => export \o part \in Seq(Items) /\ Append(export, Torn) \in Seq(Items)
      BY <2>6
    <3> QED
      BY <1>1, <3>1
  <2> QED
    BY <2>7, <2>8
<1>10. ASSUME IsRefusal(toClient) PROVE Zero \in Range(export') \/ (IsRefused(toClient') /\ export' = Append(export, Torn))
  <2>1. Len(part) = 1 /\ part[1] = Zero /\ IsRefused(toClient')
    BY <1>10, RefusalRead
  <2>2. 1 \in 1..Len(part)
    BY <2>1
  <2> HIDE DEF part
  <2>3. CASE export' = export \o part
    BY <1>6, <1>7, <2>1, <2>2, <2>3, JoinRange
  <2> QED
    BY <1>1, <2>1, <2>3
<1> HIDE DEF part, rest, size
<1>11. \/ Zero \in Range(export')
       \/ export' \in Seq(Items) /\ (IsExport(toClient') \/ IsRefused(toClient'))
  <2>1. CASE Zero \in Range(export)
    BY <1>8, <2>1
  <2>2. CASE Zero \notin Range(export) /\ IsExport(toClient)
    BY <1>7, <1>9, <2>2
  <2>3. CASE Zero \notin Range(export) /\ IsRefusal(toClient)
    <3>1. Append(export, Torn) \in Seq(Items)
      <4>1. export \in Seq(Items) /\ Torn \in Items
        BY <1>7, <2>3 DEF Items
      <4> QED
        BY <4>1
    <3> QED
      BY <1>10, <2>3, <3>1
  <2> QED
    BY <1>3, <1>4, <2>1, <2>2, <2>3
<1>12. Typed'
  BY <1>8, <1>11 DEF SessionInv, Typed
<1>13. Present'
  BY DEF SessionInv, Present, Idle
<1>14. Heard'
  BY <1>2, <1>5, <1>6, <1>11, CmdFacts DEF SessionInv, Heard
<1> QED
  BY <1>12, <1>13, <1>14, Frames DEF SessionInv

\* The client reads no more of the export.
LEMMA ReceiveStops ==
  ASSUME SessionInv, client = "receiving", client' = "response",
         UNCHANGED <<db, toServer, clientOn, serverOn, serving, job, shown, unsent, code, search>>,
         toClient = <<>> => toClient' = <<>>,
         IsSeq(export'), Zero \in Range(export') \/ export' \in Seq(Items)
  PROVE  SessionInv'
<1> USE DEF db, serving
<1>1. job.cmd = Cmd.export
  BY DEF SessionInv, JobKnown
<1>2. Requested /\ Requested' /\ Asked \subseteq Asked'
  BY DEF Asked, Sent, Requested
<1>3. Understood'
  <2>1. ~ Idle' => ~ Idle
    BY DEF Idle
  <2> QED
    BY <1>2, <2>1, StillUnderstood DEF SessionInv
<1>4. Typed'
  BY DEF SessionInv, Typed
<1>5. JobKnown' /\ Whole' /\ Present'
  BY <1>1, CmdFacts DEF SessionInv, JobKnown, Whole, Present
<1>6. Heard'
  <2>1. job.cmd \notin Changing
    BY <1>1, CmdFacts DEF Changing
  <2> QED
    BY <2>1 DEF SessionInv, Heard
<1>7. DoneRight'
  BY <1>2 DEF SessionInv, DoneRight, IsTheJob
<1> QED
  BY <1>3, <1>4, <1>5, <1>6, <1>7 DEF SessionInv

LEMMA ReceiveKeeps == ASSUME SessionInv, Receive PROVE SessionInv'
<1> DEFINE size == NumberIn(Taken(toClient, 4))
           rest == Left(toClient, 4)
<1>1. client = "receiving" /\ UNCHANGED <<db, toServer, clientOn, serverOn, serving, job, shown, unsent, code, search>>
  BY DEF Receive
<1>2. CASE size # 0 /\ rest # <<>>
  <2>1. export' = export \o Taken(rest, 1) /\ toClient' = Left(rest, 1) /\ UNCHANGED client
    BY <1>2 DEF Receive
  <2> QED
    BY <1>1, <1>2, <2>1, ReceivesOn
<1>3. CASE ~ (size # 0 /\ rest # <<>>)
  <2>1. toClient' = rest /\ client' = "response" /\ UNCHANGED export
    BY <1>3 DEF Receive
  <2>2. toClient = <<>> => rest = <<>>
    BY DEF Left
  <2>3. IsSeq(export') /\ (Zero \in Range(export') \/ export' \in Seq(Items))
    BY <2>1 DEF SessionInv, Typed
  <2> QED
    BY <1>1, <2>1, <2>2, <2>3, ReceiveStops
<1> QED
  BY <1>2, <1>3

LEMMA ReceiveFailsKeeps == ASSUME SessionInv, ReceiveFails PROVE SessionInv'
<1> DEFINE size == NumberIn(Taken(toClient, 4))
           rest == Left(toClient, 4)
<1>1. client = "receiving" /\ UNCHANGED <<db, toServer, clientOn, serverOn, serving, job, shown, unsent, code, search>>
  BY DEF ReceiveFails
<1>2. IsSeq(export) /\ (Zero \in Range(export) \/ export \in Seq(Items))
  BY DEF SessionInv, Typed
<1>3. CASE export' = Unmade /\ client' = "response" /\ UNCHANGED toClient
  <2>1. Unmade \in Seq({Zero}) /\ Len(Unmade) = 2 /\ Unmade[1] = Zero
    BY DEF Unmade
  <2>2. IsSeq(export') /\ Zero \in Range(export')
    <3>1. IsSeq(Unmade) /\ DOMAIN Unmade = 1..2 /\ 1 \in 1..2
      BY <2>1, SeqIsSeq
    <3> QED
      BY <1>3, <2>1, <3>1 DEF Range
  <2> QED
    BY <1>1, <1>3, <2>2, ReceiveStops
<1>4. CASE size # 0 /\ rest # <<>> /\ toClient' = Left(rest, 1) /\ export' = Append(export, Torn) /\ UNCHANGED client
  BY <1>1, <1>4, ReceivesOn
<1>5. CASE toClient' = Left(rest, 1) /\ client' = "response" /\ UNCHANGED export
  <2>1. toClient = <<>> => rest = <<>> /\ Left(rest, 1) = <<>>
    BY DEF Left
  <2> QED
    BY <1>1, <1>2, <1>5, <2>1, ReceiveStops
<1> QED
  BY <1>3, <1>4, <1>5 DEF ReceiveFails

\* What an import sends in turn: a size, and an entry if it is not the last.
LEMMA ImportSends ==
  ASSUME NEW n \in Nat, n >= 2, n % 2 = 0, NEW w, NEW j
  PROVE  /\ Rest(<<Word(w)>>, n, Cmd.import, j)
         /\ \A x \in Sized : Rest(<<Word(w), <<x>>>>, n, Cmd.import, j)
<1>1. IsSeq(Word(w)) /\ Len(Word(w)) = 4
  BY WordFacts
<1>2. ASSUME NEW r, Len(r) = 4 PROVE Fits(r, n, Cmd.import, j)
  BY <1>2 DEF Fits
<1>3. n + 1 >= 3 /\ (n + 1) % 2 = 1
  OBVIOUS
<1>4. ASSUME NEW x \in Sized PROVE Fits(<<x>>, n + 1, Cmd.import, j)
  <2>1. Len(<<x>>) = 1 /\ <<x>>[1] = x
    BY TupleFacts
  <2> QED
    BY <1>3, <2>1 DEF Fits
<1> DEFINE word == Word(w)
<1>5. IsSeq(word) /\ Fits(word, n, Cmd.import, j)
  BY <1>1, <1>2
<1> HIDE DEF word
<1>6. Rest(<<word>>, n, Cmd.import, j)
  <2>1. IsStream(<<word>>) /\ DOMAIN <<word>> = 1..1 /\ <<word>>[1] = word
    BY <1>5, TupleStream
  <2>2. \A k \in 1..1 : k = 1 /\ n + k - 1 = n
    OBVIOUS
  <2> QED
    BY <1>5, <2>1, <2>2 DEF Rest
<1>7. ASSUME NEW x \in Sized PROVE Rest(<<word, <<x>>>>, n, Cmd.import, j)
  <2> DEFINE s == <<word, <<x>>>>
  <2>1. IsSeq(<<x>>)
    BY TupleFacts
  <2>2. IsStream(s) /\ DOMAIN s = 1..2 /\ s[1] = word /\ s[2] = <<x>>
    BY <1>5, <2>1, TupleStream
  <2> HIDE DEF s
  <2>3. \A k \in 1..2 : (k = 1 /\ n + k - 1 = n) \/ (k = 2 /\ n + k - 1 = n + 1)
    OBVIOUS
  <2>4. Rest(s, n, Cmd.import, j)
    BY <1>4, <1>5, <2>2, <2>3 DEF Rest
  <2> QED
    BY <2>4 DEF s
<1> QED
  BY <1>6, <1>7 DEF word

\* While an import is sent the server reads it from an even record on.
LEMMA ImportGrows ==
  ASSUME SessionInv, client = "sending", Asked \subseteq Asked',
         NEW s, \A n \in Nat : n >= 2 /\ n % 2 = 0 => Rest(s, n, Cmd.import, job),
         toServer' = SentOn(s), UNCHANGED <<server, request, job>>
  PROVE  /\ Understood'
         /\ serverOn /\ Len(s) = 2 =>
              /\ server = "kek" => \E m \in {0, 1} : /\ Rest(toServer', m, Cmd.import, job)
                                                     /\ m + Len(toServer') >= 2 /\ (m + Len(toServer')) % 2 = 0
              /\ server = "loop" => Rest(toServer', 1, Cmd.import, job) /\ Len(toServer') % 2 = 1
              /\ server = "import" => Len(toServer') % 2 = 0
<1>1. job.cmd = Cmd.import /\ ~ Idle
  BY DEF SessionInv, JobKnown, Idle
<1>2. CASE ~ serverOn
  <2>1. toServer' = toServer
    BY <1>2 DEF SentOn
  <2> QED
    BY <1>1, <1>2, <2>1, StillUnderstood DEF SessionInv
<1>3. CASE serverOn
  <2>1. toServer' = toServer \o s /\ clientOn
    BY <1>3 DEF SentOn, SessionInv, Present
  <2>2. Cmd.import \in Asked /\ \A cmd \in Asked : cmd \in {Nothing, Cmd.import}
    BY <1>1, <2>1, CmdFacts DEF Asked, Sent, Requested
  <2>3. server \notin {"accept", "body", "value", "serve", "down"}
    <3>1. server \in {"body", "value", "serve"} => RequestKnown /\ request.cmd = Cmd.import
      BY <1>1, <2>2 DEF SessionInv, Understood, RequestKnown
    <3>2. Cmd.import \notin 1..5 /\ Cmd.import # Cmd.edit
      BY CmdFacts
    <3>3. server \notin {"body", "value", "serve"}
      BY <1>1, <3>1, <3>2 DEF SessionInv, Understood
    <3> QED
      BY <1>3, <3>3 DEF SessionInv, Present
  <2>4. IsSeq(s) /\ Len(s) \in Nat
    BY IsSeqFacts DEF Rest, IsStream
  <2>5. ASSUME NEW m \in Nat, Rest(toServer, m, Cmd.import, job), m + Len(toServer) >= 2, (m + Len(toServer)) % 2 = 0
        PROVE  /\ Rest(toServer', m, Cmd.import, job)
               /\ Len(s) = 2 => m + Len(toServer') >= 2 /\ (m + Len(toServer')) % 2 = 0
    <3>1. IsSeq(toServer) /\ Len(toServer) \in Nat
      BY <2>5, IsSeqFacts DEF Rest, IsStream
    <3>2. m + Len(toServer) \in Nat
      BY <3>1
    <3>3. Rest(s, m + Len(toServer), Cmd.import, job)
      BY <2>5, <3>2
    <3>4. Rest(toServer', m, Cmd.import, job)
      BY <2>1, <2>5, <3>3, RestJoin
    <3>5. Len(toServer') = Len(toServer) + Len(s)
      BY <2>1, <2>4, <3>1, JoinFacts
    <3> DEFINE a == Len(toServer)  b == Len(toServer')
    <3>6. a \in Nat /\ m + a >= 2 /\ (m + a) % 2 = 0 /\ b = a + Len(s)
      BY <2>5, <3>1, <3>5
    <3> HIDE DEF a, b
    <3>7. Len(s) = 2 => m + b >= 2 /\ (m + b) % 2 = 0
      <4>1. Len(s) = 2 => m + b = (m + a) + 2
        BY <3>6
      <4> DEFINE c == m + a
      <4>2. c \in Nat /\ c >= 2 /\ c % 2 = 0
        BY <3>6
      <4> HIDE DEF c
      <4>3. c + 2 >= 2 /\ (c + 2) % 2 = 0
        BY <4>2
      <4> QED
        BY <4>1, <4>3 DEF c
    <3> QED
      BY <3>4, <3>7 DEF b
  <2>6. CASE server = "kek"
    <3>1. PICK m \in {0, 1} : /\ Rest(toServer, m, Cmd.import, job)
                              /\ m + Len(toServer) >= 2 /\ (m + Len(toServer)) % 2 = 0
      BY <1>1, <1>3, <2>6 DEF SessionInv, Whole
    <3>2. /\ Rest(toServer', m, Cmd.import, job)
          /\ Len(s) = 2 => m + Len(toServer') >= 2 /\ (m + Len(toServer')) % 2 = 0
      BY <2>5, <3>1
    <3>3. Understood'
      BY <2>2, <2>6, <3>2 DEF Understood
    <3> QED
      BY <2>6, <3>2, <3>3
  <2>7. CASE server = "loop"
    <3>1. Rest(toServer, 1, Cmd.import, job) /\ Len(toServer) % 2 = 1
      BY <1>1, <1>3, <2>7 DEF SessionInv, Whole
    <3>2. IsSeq(toServer) /\ Len(toServer) \in Nat
      BY <3>1, IsSeqFacts DEF Rest, IsStream
    <3> DEFINE a == Len(toServer)  b == Len(toServer')
    <3>3. a \in Nat /\ a % 2 = 1
      BY <3>1, <3>2
    <3>4. b = a + Len(s)
      BY <2>1, <2>4, <3>2, JoinFacts
    <3>5. 1 + a >= 2 /\ (1 + a) % 2 = 0
      <4> HIDE DEF a
      <4> QED
        BY <3>3
    <3>6. Rest(toServer', 1, Cmd.import, job)
      BY <2>5, <3>1, <3>5
    <3>7. Len(s) = 2 => b % 2 = 1
      <4> HIDE DEF a, b
      <4>1. (a + 2) % 2 = 1
        BY <3>3
      <4> QED
        BY <3>4, <4>1
    <3>8. Understood'
      BY <2>2, <2>7, <3>6 DEF Understood
    <3> QED
      BY <2>7, <3>6, <3>7, <3>8
  <2>8. CASE server = "import"
    <3>1. RequestKnown /\ request.cmd = Cmd.import /\ Rest(toServer, 2, Cmd.import, job) /\ Len(toServer) % 2 = 0
      BY <1>1, <1>3, <2>8 DEF SessionInv, Whole, Understood
    <3>2. IsSeq(toServer) /\ Len(toServer) \in Nat
      BY <3>1, IsSeqFacts DEF Rest, IsStream
    <3> DEFINE a == Len(toServer)  b == Len(toServer')
    <3>3. a \in Nat /\ a % 2 = 0
      BY <3>1, <3>2
    <3>4. b = a + Len(s)
      BY <2>1, <2>4, <3>2, JoinFacts
    <3>5. 2 + a >= 2 /\ (2 + a) % 2 = 0
      <4> HIDE DEF a
      <4> QED
        BY <3>3
    <3>6. Rest(toServer', 2, Cmd.import, job)
      BY <2>5, <3>1, <3>5
    <3>7. Len(s) = 2 => b % 2 = 0
      <4> HIDE DEF a, b
      <4>1. (a + 2) % 2 = 0
        BY <3>3
      <4> QED
        BY <3>4, <4>1
    <3>8. RequestKnown'
      BY <3>1 DEF RequestKnown
    <3>9. Understood'
      BY <2>8, <3>1, <3>6, <3>8 DEF Understood
    <3> QED
      BY <2>8, <3>7, <3>9
  <2>9. CASE server \notin {"kek", "loop", "import"}
    BY <2>3, <2>9 DEF Understood
  <2> QED
    BY <2>6, <2>7, <2>8, <2>9
<1> QED
  BY <1>2, <1>3

LEMMA SendKeeps == ASSUME SessionInv, Send PROVE SessionInv'
<1>1. client = "sending" /\ CanRead /\ UNCHANGED <<db, serverOn, serving, job, export, search>>
  BY DEF Send
<1>2. job.cmd = Cmd.import /\ unsent \in Seq(Items)
  BY <1>1 DEF SessionInv, JobKnown, Typed
<1> USE DEF db, serving
<1>3. SessionInv'
  <2> DEFINE s == <<Word(1), <<Head(unsent)>>>>
  <2>1. /\ toServer' = SentOn(s) /\ shown' = Append(shown, Head(unsent)) /\ unsent' = Tail(unsent)
        /\ UNCHANGED <<client, clientOn, toClient, code>>
    BY DEF Send
  <2>2. Head(unsent) \in Sized /\ Tail(unsent) \in Seq(Items)
    <3>1. Head(unsent) \in Items /\ Tail(unsent) \in Seq(Items)
      BY <1>1, <1>2 DEF CanRead
    <3> QED
      BY <1>1, <3>1 DEF CanRead, Items
  <2>3. \A n \in Nat : n >= 2 /\ n % 2 = 0 => Rest(s, n, Cmd.import, job)
    BY <2>2, ImportSends
  <2>4. Len(s) = 2
    BY TupleFacts
  <2> HIDE DEF s
  <2>5. Asked \subseteq Asked'
    BY <1>1, <2>1, AskedFrame
  <2>6. /\ Understood'
        /\ serverOn =>
             /\ server = "kek" => \E m \in {0, 1} : /\ Rest(toServer', m, Cmd.import, job)
                                                    /\ m + Len(toServer') >= 2 /\ (m + Len(toServer')) % 2 = 0
             /\ server = "loop" => Rest(toServer', 1, Cmd.import, job) /\ Len(toServer') % 2 = 1
             /\ server = "import" => Len(toServer') % 2 = 0
    BY <1>1, <2>1, <2>3, <2>4, <2>5, ImportGrows
  <2>7. Whole'
    BY <1>1, <2>1, <2>6 DEF Whole
  <2>8. Typed'
    BY <1>1, <2>1, <2>2 DEF SessionInv, Typed
  <2>9. Present'
    BY <1>1, <2>1 DEF SessionInv, Present
  <2>10. Heard'
    BY <1>1, <2>1 DEF SessionInv, Heard
  <2> QED
    BY <1>1, <2>1, <2>6, <2>7, <2>8, <2>9, <2>10, Frames DEF SessionInv
<1> QED
  BY <1>3

LEMMA SendEndKeeps == ASSUME SessionInv, SendEnd PROVE SessionInv'
<1>1. client = "sending" /\ UNCHANGED <<db, serverOn, serving, job, shown, unsent, export, search>>
  BY DEF SendEnd
<1>2. job.cmd = Cmd.import /\ unsent \in Seq(Items)
  BY <1>1 DEF SessionInv, JobKnown, Typed
<1> USE DEF db, serving
<1>3. SessionInv'
  <2> DEFINE s == <<Word(0)>>
  <2>1. toServer' = SentOn(s) /\ UNCHANGED <<shown, unsent>>
    BY <1>1 DEF SendEnd
  <2>2. \A n \in Nat : n >= 2 /\ n % 2 = 0 => Rest(s, n, Cmd.import, job)
    BY ImportSends
  <2> HIDE DEF s
  <2>3. CASE client' = "response" /\ UNCHANGED <<clientOn, toClient, code>>
    <3>1. Requested /\ Requested' /\ Asked \subseteq Asked'
      BY <1>1, <2>3 DEF Asked, Sent, Requested
    <3>2. Understood'
      BY <1>1, <2>1, <2>2, <3>1, ImportGrows
    <3>3. Typed'
      BY <1>1, <2>3 DEF SessionInv, Typed
    <3>4. JobKnown' /\ Whole' /\ Present'
      BY <1>1, <1>2, <2>1, <2>3, CmdFacts DEF SessionInv, JobKnown, Whole, Present
    <3>5. Heard'
      <4>1. job.cmd \notin Changing
        BY <1>2, CmdFacts DEF Changing
      <4> QED
        BY <1>1, <2>1, <2>3, <4>1 DEF SessionInv, Heard
    <3>6. DoneRight'
      BY <1>1, <3>1 DEF SessionInv, DoneRight, IsTheJob
    <3> QED
      BY <3>2, <3>3, <3>4, <3>5, <3>6 DEF SessionInv
  <2>4. CASE End(1)
    <3>1. Asked \subseteq Asked'
      BY <1>1, <2>4, OffAsked DEF End
    <3>2. Understood'
      BY <1>1, <2>1, <2>2, <3>1, ImportGrows
    <3>3. 1 # OK
      BY CmdFacts
    <3> QED
      BY <1>1, <2>1, <2>4, <3>2, <3>3, EndKeeps
  <2> QED
    BY <2>3, <2>4 DEF SendEnd
<1> QED
  BY <1>3

LEMMA BreakKeeps == ASSUME SessionInv, Break PROVE SessionInv'
<1>1. /\ clientOn /\ serverOn /\ server # "accept" /\ clientOn' = FALSE /\ serverOn' = FALSE
      /\ UNCHANGED <<db, serving, using, search>>
  BY DEF Break
<1>2. PICK n \in 0..Len(toServer) : toServer' = SubSeq(toServer, 1, n)
  BY DEF Break
<1>3. PICK l \in 0..Len(toClient) : toClient' = SubSeq(toClient, 1, l)
  BY DEF Break
<1> USE DEF db, serving, using
<1>4. client \notin {"off", "search"} /\ ~ Idle /\ ~ Idle'
  BY <1>1 DEF SessionInv, Present, Idle
<1>5. toServer = <<>> => toServer' = <<>>
  BY <1>2
<1>6. toClient = <<>> => toClient' = <<>>
  BY <1>3
<1>7. client = "hello" => toClient' \in {<<>>, <<<<"kdfp">>>>}
  <2> SUFFICES ASSUME client = "hello" PROVE toClient' \in {<<>>, <<<<"kdfp">>>>}
    OBVIOUS
  <2>1. toClient \in {<<>>, <<<<"kdfp">>>>}
    BY DEF SessionInv, Present
  <2>2. CASE toClient = <<<<"kdfp">>>>
    <3>1. Len(toClient) = 1
      BY <2>2, TupleFacts
    <3>2. l \in {0, 1}
      BY <3>1
    <3> DEFINE a == <<"kdfp">>
    <3>3. toClient = <<a>>
      BY <2>2
    <3> HIDE DEF a
    <3>4. SubSeq(<<a>>, 1, 0) = <<>>
      OBVIOUS
    <3>5. SubSeq(<<a>>, 1, 1) = <<a>>
      <4>1. IsSeq(<<a>>) /\ Len(<<a>>) = 1
        BY TupleFacts
      <4>2. 1 \in 0..Len(<<a>>) /\ 1 \in 1..1 /\ <<a>>[1] = a
        BY <4>1
      <4> DEFINE p == SubSeq(<<a>>, 1, 1)
      <4>3. IsSeq(p) /\ Len(p) = 1 /\ p[1] = a
        BY <4>1, <4>2, PartFacts
      <4> HIDE DEF p
      <4>4. p \in Seq(Range(p))
        BY <4>3 DEF IsSeq
      <4>5. p = <<a>>
        BY <4>3, <4>4
      <4> QED
        BY <4>5 DEF p
    <3> QED
      BY <1>3, <3>2, <3>3, <3>4, <3>5 DEF a
  <2> QED
    BY <1>6, <2>1, <2>2
<1>8. Asked \subseteq Asked'
  BY <1>1 DEF Asked, Sent, Requested
<1>9. Understood'
  <2>1. \A m, cmd : Rest(toServer, m, cmd, job) => Rest(toServer', m, cmd, job')
    BY <1>1, <1>2, RestPart
  <2>2. server = "kek" => \E cmd \in Asked' : \E m \in {0, 1} : Rest(toServer', m, cmd, job')
    <3>1. server = "kek" => \E cmd \in Asked : \E m \in {0, 1} : Rest(toServer, m, cmd, job)
      BY <1>4 DEF SessionInv, Understood
    <3> QED
      BY <1>8, <2>1, <3>1
  <2>3. server = "loop" => \E cmd \in Asked' : Rest(toServer', 1, cmd, job')
    <3>1. server = "loop" => \E cmd \in Asked : Rest(toServer, 1, cmd, job)
      BY <1>4 DEF SessionInv, Understood
    <3> QED
      BY <1>8, <2>1, <3>1
  <2>4. server \in {"body", "value", "serve", "import"} => RequestKnown'
    BY <1>1, <1>4, <1>8 DEF SessionInv, Understood, RequestKnown
  <2>5. EntryKnown => EntryKnown'
    BY <1>1 DEF EntryKnown
  <2>6. CASE server \in {"kek", "loop"}
    BY <1>1, <2>2, <2>3, <2>6 DEF Understood
  <2>7. CASE server \in {"body", "value", "import"}
    BY <1>1, <1>4, <2>1, <2>4, <2>5, <2>7 DEF SessionInv, Understood
  <2>8. CASE server = "serve"
    BY <1>1, <1>4, <1>5, <2>4, <2>5, <2>8 DEF SessionInv, Understood
  <2>9. CASE server \notin {"kek", "loop", "body", "value", "serve", "import"}
    BY <1>1, <2>9 DEF Understood
  <2> QED
    BY <2>6, <2>7, <2>8, <2>9
<1>10. Present'
  BY <1>1, <1>4, <1>5, <1>7 DEF SessionInv, Present
<1>11. Heard'
  <2>1. client = "matches" => IsReplies(toClient')
    BY <1>3, RepliesPart DEF SessionInv, Heard
  <2>2. client \notin {"matches", "hello"} => toClient = <<>> /\ toClient' = <<>>
    BY <1>1, <1>4, <1>6 DEF SessionInv, Heard
  <2>3. CASE client = "matches"
    BY <1>1, <2>1, <2>3 DEF Heard
  <2>4. CASE client = "hello"
    BY <1>1, <2>4 DEF Heard
  <2>5. CASE client \notin {"matches", "hello"}
    BY <1>1, <1>4, <2>2, <2>5, TupleStream, EmptyShapes DEF Heard
  <2> QED
    BY <2>3, <2>4, <2>5
<1>12. Whole'
  BY <1>1 DEF Whole
<1>13. DoneRight'
  <2>1. \A k \in DOMAIN served : served[k].cmd = Cmd.find
    BY <1>1, OnlySearches DEF SessionInv
  <2> QED
    BY <1>1, <2>1 DEF SessionInv, DoneRight
<1>14. Typed' /\ JobKnown'
  BY <1>1, Frames DEF SessionInv
<1> QED
  BY <1>9, <1>10, <1>11, <1>12, <1>13, <1>14 DEF SessionInv

-------------------------------------------------------------------------------
\* The theorem

LEMMA InitHolds == Init => SessionInv
<1> SUFFICES ASSUME Init PROVE SessionInv
  OBVIOUS
<1> USE DEF Init
<1>1. Typed
  <2>1. <<>> \in Seq([str : Seq(Nat), ids : Seq(Ids)]) /\ <<>> \in Seq(Items)
    OBVIOUS
  <2>2. file \in [Ids -> Contents]
    BY EntryTypes
  <2>3. NoSearch \in [sent : Nat, ping : BOOLEAN, pong : BOOLEAN]
    BY DEF NoSearch
  <2> QED
    BY <2>1, <2>2, <2>3, TupleFacts DEF Typed
<1>2. JobKnown /\ Understood /\ Whole
  BY DEF JobKnown, Understood, Idle, Whole
<1>3. Present
  BY DEF Present, Idle, NoSearch
<1>4. Heard
  BY CmdFacts DEF Heard
<1>5. DoneRight
  BY TupleFacts DEF DoneRight
<1> QED
  BY <1>1, <1>2, <1>3, <1>4, <1>5 DEF SessionInv

LEMMA StepKeeps == SessionInv /\ [Next]_vars => SessionInv'
<1> SUFFICES ASSUME SessionInv, [Next]_vars PROVE SessionInv'
  OBVIOUS
<1>1. CASE UNCHANGED vars
  BY <1>1, Frames DEF SessionInv, vars, db, link, serving, using
<1>2. CASE ServerStep
  <2>1. CASE Pong \/ Accept \/ ReadKek \/ ReadMessage \/ ReadBody \/ ReadValue
    BY <2>1, PongKeeps, AcceptKeeps, ReadKekKeeps, ReadMessageKeeps, ReadBodyKeeps, ReadValueKeeps
  <2>2. ASSUME NEW good \in BOOLEAN, ServeEdit(good) \/ ServeDelete(good) \/ ServePasswd(good) \/ ServeRekey(good)
        PROVE  SessionInv'
    BY <2>2, ServeEditKeeps, ServeDeleteKeeps, ServePasswdKeeps, ServeRekeyKeeps
  <2>3. ASSUME NEW good \in BOOLEAN, NEW i \in Ids, ServeAdd(i, good) \/ ImportAdds(i, good)
        PROVE  SessionInv'
    BY <2>3, ServeAddKeeps, ImportAddsKeeps
  <2>4. CASE ServeFind \/ ImportEnds
    BY <2>4, ServeFindKeeps, ImportEndsKeeps
  <2>5. ASSUME NEW n, ServeExport(n) PROVE SessionInv'
    BY <2>5, ServeExportKeeps
  <2> QED
    BY <1>2, <2>1, <2>2, <2>3, <2>4, <2>5 DEF ServerStep
<1>3. CASE ClientReading
  BY <1>3, PingKeeps, GiveUpKeeps, ConnectKeeps, ReadMatchKeeps, ReceiveKeeps, ReceiveFailsKeeps,
     SendKeeps, SendEndKeeps, ResponseKeeps
     DEF ClientReading, Searching
<1>4. CASE UserStep
  BY <1>4, HelloKeeps, EditedKeeps, NewPasswdKeeps, ExportPasswdKeeps, ImportPasswdKeeps, RefusedKeeps
     DEF UserStep
<1>5. CASE Given
  <2>1. ASSUME NEW cmd \in {Cmd.add, Cmd.passwd, Cmd.rekey, Cmd.export, Cmd.import}, Start(cmd, <<>>, 1)
        PROVE  SessionInv'
    BY <2>1, StartKeeps, CmdFacts
  <2>2. ASSUME NEW cmd \in {Cmd.delete, Cmd.edit}, NEW value \in Values, Start(cmd, value, 1)
        PROVE  SessionInv'
    BY <2>2, StartKeeps, CmdFacts
  <2>3. ASSUME NEW value \in Values, NEW limit \in Limits, Start(Cmd.find, value, limit)
        PROVE  SessionInv'
    <3>1. limit \in Nat /\ Cmd.find \in 1..8
      BY KeysSessionAssumption, CmdFacts
    <3> QED
      BY <2>3, <3>1, StartKeeps
  <2> QED
    BY <1>5, <2>1, <2>2, <2>3 DEF Given
<1>6. CASE Restart \/ Break
  BY <1>6, RestartKeeps, BreakKeeps
<1> QED
  BY <1>1, <1>2, <1>3, <1>4, <1>5, <1>6 DEF Next

\* What the client has been told of a command that changes something was done.
LEMMA ToldIsTrue == SessionInv => OkIsTrue
<1> SUFFICES ASSUME SessionInv, client = "off", code = OK, job.cmd \in Changing PROVE OkIsTrue
  BY DEF OkIsTrue, Ended, Changing
<1>1. Told
  BY DEF SessionInv, Heard
<1>2. IsSeq(served) /\ served # <<>> /\ Last(served) = served[Len(served)]
  BY <1>1 DEF SessionInv, DoneRight, Told, Last
<1>3. Len(served) \in DOMAIN served /\ DOMAIN served = 1..Len(served) /\ Len(served) \in Nat
  BY <1>2, IsSeqFacts
<1>4. served[Len(served)].cmd = job.cmd /\ job.cmd # Cmd.find /\ served[Len(served)].ok
  BY <1>1, <1>2, CmdFacts DEF Told, Changing
<1>5. IsTheJob(served[Len(served)])
  BY <1>3, <1>4 DEF SessionInv, DoneRight
<1>6. ASSUME NEW k \in 1..(Len(served) - 1) PROVE served[k].cmd = Cmd.find
  <2>1. k \in DOMAIN served /\ k # Len(served)
    <3> DEFINE n == Len(served)
    <3>1. n \in Nat /\ DOMAIN served = 1..n /\ k \in 1..(n - 1)
      BY <1>3
    <3> HIDE DEF n
    <3>2. k \in 1..n /\ k # n
      BY <3>1
    <3> QED
      BY <3>1, <3>2 DEF n
  <2> QED
    BY <2>1 DEF SessionInv, DoneRight
<1> QED
  BY <1>1, <1>2, <1>4, <1>5, <1>6 DEF OkIsTrue, Told, IsTheJob

(* A client returns 0 for a command that changes something only if the server *)
(* did it, once, with what the user entered and without a failure: whatever   *)
(* the other commands, the order of the steps and the breaks of the           *)
(* connection (client.c, server.c), and for any entries, passwords, files,    *)
(* number of pings and of faults.                                             *)
THEOREM OkIsTrueCorrect == Spec => []OkIsTrue
<1>1. Init => SessionInv
  BY InitHolds
<1>2. SessionInv /\ [Next]_vars => SessionInv'
  BY StepKeeps
<1>3. SessionInv => OkIsTrue
  BY ToldIsTrue
<1> QED
  BY <1>1, <1>2, <1>3, PTL DEF Spec

-------------------------------------------------------------------------------
\* What a copy holds

\* What an export is of, and what the client holds of it when it is done.
All == LET ids == UniqueIds(index) IN [k \in DOMAIN ids |-> [entry |-> file[ids[k]]]]

Complete ==
  \/ export = Unmade
  \/ Len(export) = Len(All) /\ \A k \in 1..Len(All) : export[k] \in {All[k], Torn}

\* The rest of an export, of which the first entries were read.
LeftFrom(s, have) ==
  /\ IsStream(s)
  /\ \E n \in have..Len(All) :
       /\ Len(s) = 2 * (n - have) + 2
       /\ \A k \in 1..(n - have) :
            /\ Len(s[2 * k - 1]) = 4 /\ Number(s[2 * k - 1][4]) # 0
            /\ Len(s[2 * k]) = 1 /\ s[2 * k][1] = All[have + k]
       /\ Len(s[Len(s) - 1]) = 4 /\ Number(s[Len(s) - 1][4]) = 0
       /\ Len(s[Len(s)]) = 12 /\ (Number(s[Len(s)][4]) = OK => n = Len(All))
ExportLeft(s) ==
  /\ Len(export) <= Len(All) /\ \A k \in 1..Len(export) : export[k] \in {All[k], Torn}
  /\ LeftFrom(s, Len(export))

\* A status alone, or what is left of one.
IsNo(s) == IsStream(s) /\ Len(s) = 1 /\ Len(s[1]) <= 12
\* What is no status, or one that is OK only if something holds.
IsStatus(s, holds) ==
  /\ IsStream(s)
  /\ s # <<>> => Len(s[1]) <= 12 /\ (Len(s[1]) = 12 /\ Number(s[1][4]) = OK => holds)

\* A connection of which only the server's end is closed is not served.
HalfClosed == clientOn /\ ~ serverOn => server \in {"accept", "down"}

ExportInv ==
  job.cmd = Cmd.export =>
    /\ client \in {"prompt", "receiving", "response"} /\ ~ clientOn => toClient = <<>>
    /\ client \in {"prompt", "receiving"} =>
         /\ clientOn /\ server # "accept" => export = <<>>
         /\ toClient # <<>> => ExportLeft(toClient) \/ IsNo(toClient)
    /\ client = "response" =>
         /\ clientOn => server \in {"accept", "down"} /\ ~ serverOn
         /\ IsStatus(toClient, Complete)
    /\ Ended => Complete /\ server = "accept" /\ ~ serverOn

\* The records of an import of l entries from the m-th on, b of them besides the
\* entries and their sizes: every size but the last is that of an entry.
CountsOf(s, m, l, b) ==
  /\ Len(s) + m = 2 * l + b
  /\ \A k \in DOMAIN s :
       /\ m + k - 1 = 1 => Len(s[k]) = 12 /\ Number(s[k][8]) = 0
       /\ \A p \in Nat : m + k - 1 = 2 * p + 2 => (Number(s[k][4]) = 0 <=> p = l)
Counts(s, m) == CountsOf(s, m, Len(shown), IF client = "response" THEN 3 ELSE 2)

Imported == served # <<>> /\ Last(served).cmd = Cmd.import /\ Last(served).count = Len(shown)
\* What was sent is the first of the file, and what was not is what comes after it.
SentFirst == IsSeq(shown) /\ \A k \in 1..Len(shown) : shown[k] = export[k]
SendsRest ==
  /\ Len(shown) + Len(unsent) = Len(export)
  /\ \A k \in 1..Len(unsent) : unsent[k] = export[Len(shown) + k]
ImportInv ==
  job.cmd = Cmd.import =>
    /\ client = "prompt" => shown = <<>>
    /\ client = "sending" =>
         \/ shown = <<>> /\ unsent = <<>>
         \/ SentFirst /\ SendsRest
    /\ client = "response" => SentFirst
    /\ client \in {"prompt", "sending", "response"} =>
         /\ ~ clientOn => toClient = <<>>
         /\ serverOn =>
              /\ server = "kek" => \E m \in {0, 1} : Counts(toServer, m)
              /\ server = "loop" => Counts(toServer, 1)
              /\ server = "import" => Counts(toServer, 2 * request.arg + 2)
         /\ IsStatus(toClient, client = "response" /\ Imported)
    /\ Ended => SentFirst /\ Imported /\ server = "accept" /\ ~ serverOn

CopyInv == HalfClosed /\ ExportInv /\ ImportInv

-------------------------------------------------------------------------------
\* Exports

LEMMA ExportAt ==
  ASSUME NEW ids \in Seq(Ids), NEW n \in 0..Len(ids), NEW p, p = SizedEntries(ids, n)
  PROVE  /\ IsSeq(p) /\ Len(p) = 2 * n
         /\ \A k \in 1..n : p[2 * k - 1] = Word(1) /\ p[2 * k] = <<[entry |-> file[ids[k]]]>>
<1> DEFINE f == [k \in 1..n |-> <<Word(1), <<[entry |-> file[ids[k]]]>>>>]
<1>0. n \in Nat
  OBVIOUS
<1>1. p = FlattenSeq(f)
  BY DEF SizedEntries
<1>3. IsSeq(f) /\ Len(f) = n
  <2> DEFINE S == {f[k] : k \in 1..n}
  <2>1. f \in [1..n -> S]
    OBVIOUS
  <2> HIDE DEF S, f
  <2>2. f \in Seq(S) /\ Len(f) = n
    BY <1>0, <2>1, FunctionIsSeq
  <2> QED
    BY <2>2, SeqIsSeq
<1>4. ASSUME NEW k \in 1..n
      PROVE  IsSeq(f[k]) /\ Len(f[k]) = 2 /\ f[k][1] = Word(1) /\ f[k][2] = <<[entry |-> file[ids[k]]]>>
  <2> DEFINE a == Word(1)  b == <<[entry |-> file[ids[k]]]>>
  <2>1. f[k] = <<a, b>>
    OBVIOUS
  <2> HIDE DEF a, b, f
  <2>2. IsSeq(<<a, b>>) /\ Len(<<a, b>>) = 2 /\ <<a, b>>[1] = a /\ <<a, b>>[2] = b
    BY TupleFacts
  <2> QED
    BY <2>1, <2>2 DEF a, b
<1> HIDE DEF f
<1>5. /\ IsSeq(p) /\ Len(p) = 2 * Len(f)
      /\ \A k \in 1..Len(f) : p[2 * k - 1] = f[k][1] /\ p[2 * k] = f[k][2]
  BY <1>1, <1>3, <1>4, LaysTwos
<1> QED
  BY <1>3, <1>4, <1>5

LEMMA NoLeft ==
  ASSUME NEW s, IsNo(s), NEW n \in Nat \ {0}
  PROVE  Left(s, n) = <<>> \/ (IsNo(Left(s, n)) /\ Len(Left(s, n)[1]) < 12)
<1>1. IsStream(s) /\ Len(s) = 1 /\ Len(s[1]) <= 12 /\ s # <<>>
  <2>1. IsStream(s) /\ Len(s) = 1 /\ Len(s[1]) <= 12
    BY DEF IsNo
  <2>2. s = <<>> <=> Len(s) = 0
    BY <2>1, StreamShape
  <2> QED
    BY <2>1, <2>2
<1>2. Len(s[1]) \in Nat
  <2>1. 1 \in 1..Len(s)
    BY <1>1
  <2> QED
    BY <1>1, <2>1, StreamShape
<1>3. CASE Len(s[1]) <= n
  <2>1. Left(s, n) = Tail(s) /\ IsStream(Tail(s)) /\ Len(Tail(s)) = 0
    BY <1>1, <1>3, TakenWhole, TailShape
  <2> QED
    BY <2>1, StreamShape
<1>4. CASE ~ (Len(s[1]) <= n)
  <2> DEFINE r == Left(s, n)
  <2>1. n < Len(s[1])
    BY <1>2, <1>4
  <2>2. IsStream(r) /\ Len(r) = Len(s) /\ Len(r[1]) = Len(s[1]) - n
    BY <1>1, <2>1, TakenPart
  <2>3. Len(r[1]) < 12 /\ Len(r[1]) \in Nat
    BY <1>1, <1>2, <2>1, <2>2
  <2> QED
    BY <1>1, <2>2, <2>3 DEF IsNo
<1> QED
  BY <1>3, <1>4

LEMMA AllFacts ==
  ASSUME Typed
  PROVE  /\ UniqueIds(index) \in Seq(Ids) /\ Len(All) = Len(UniqueIds(index)) /\ Len(All) \in Nat
         /\ IsSeq(All) /\ DOMAIN All = 1..Len(All)
         /\ \A k \in 1..Len(All) : All[k] = [entry |-> file[UniqueIds(index)[k]]]
<1> DEFINE ids == UniqueIds(index)
<1>1. ids \in Seq(Ids)
  BY UniqueType DEF Typed, Term
<1>2. All = [k \in DOMAIN ids |-> [entry |-> file[ids[k]]]]
  BY DEF All
<1> HIDE DEF ids
<1>3. Len(ids) \in Nat /\ DOMAIN ids = 1..Len(ids)
  BY <1>1
<1>4. All \in [1..Len(ids) -> {All[k] : k \in DOMAIN ids}]
  BY <1>2, <1>3
<1>5. All \in Seq({All[k] : k \in DOMAIN ids}) /\ Len(All) = Len(ids) /\ DOMAIN All = 1..Len(ids)
  BY <1>3, <1>4, FunctionIsSeq
<1>6. IsSeq(All)
  BY <1>5, SeqIsSeq
<1> QED
  BY <1>1, <1>2, <1>3, <1>5, <1>6 DEF ids

\* A stream of the rest of an export is read pair by pair.
LEMMA ReceiveAtSize ==
  ASSUME NEW s, IsStream(s), s # <<>>, Len(s[1]) = 4
  PROVE  NumberIn(Taken(s, 4)) = Number(s[1][4]) /\ Left(s, 4) = Tail(s)
BY TakenCells DEF NumberIn

LEMMA LeftFirst ==
  ASSUME NEW s, NEW have \in Nat, Len(All) \in Nat, LeftFrom(s, have)
  PROVE  IsStream(s) /\ s # <<>> /\ Len(s[1]) = 4
<1>1. PICK n \in have..Len(All) :
        /\ Len(s) = 2 * (n - have) + 2
        /\ \A k \in 1..(n - have) : Len(s[2 * k - 1]) = 4
        /\ Len(s[Len(s) - 1]) = 4
  BY DEF LeftFrom
<1>2. IsStream(s)
  BY DEF LeftFrom
<1>3. s # <<>>
  <2>1. Len(s) # 0
    BY <1>1
  <2> QED
    BY <1>2, <2>1, StreamShape
<1>4. CASE n = have
  BY <1>1, <1>2, <1>3, <1>4
<1>5. CASE n # have
  <2>1. 1 \in 1..(n - have) /\ 2 * 1 - 1 = 1
    BY <1>1, <1>5
  <2> QED
    BY <1>1, <1>2, <1>3, <2>1
<1> QED
  BY <1>4, <1>5

\* The size of 0 after the last entry leaves the status.
LEMMA EndRead ==
  ASSUME NEW s, NEW have \in Nat, Len(All) \in Nat, LeftFrom(s, have), NumberIn(Taken(s, 4)) = 0
  PROVE  LET r == Left(s, 4)
         IN IsStream(r) /\ Len(r) = 1 /\ Len(r[1]) = 12 /\ (Number(r[1][4]) = OK => have = Len(All))
<1>1. PICK n \in have..Len(All) :
        /\ Len(s) = 2 * (n - have) + 2
        /\ \A k \in 1..(n - have) : Len(s[2 * k - 1]) = 4 /\ Number(s[2 * k - 1][4]) # 0
        /\ Len(s[Len(s)]) = 12 /\ (Number(s[Len(s)][4]) = OK => n = Len(All))
  BY DEF LeftFrom
<1>2. IsStream(s) /\ s # <<>> /\ Len(s[1]) = 4
  BY LeftFirst
<1>3. Number(s[1][4]) = 0 /\ Left(s, 4) = Tail(s)
  BY <1>2, ReceiveAtSize
<1>4. n = have
  <2>1. n # have => 1 \in 1..(n - have) /\ 2 * 1 - 1 = 1
    BY <1>1
  <2> QED
    BY <1>1, <1>3, <2>1
<1>5. Len(s) = 2 /\ Len(s[2]) = 12 /\ (Number(s[2][4]) = OK => have = Len(All))
  BY <1>1, <1>4
<1>6. IsStream(Tail(s)) /\ Len(Tail(s)) = 1 /\ Tail(s)[1] = s[2]
  <2>1. 1 \in 1..(Len(s) - 1) /\ Len(s) - 1 = 1 /\ 1 + 1 = 2
    BY <1>5
  <2>2. /\ IsStream(Tail(s)) /\ Len(Tail(s)) = Len(s) - 1
        /\ \A k \in 1..(Len(s) - 1) : Tail(s)[k] = s[k + 1]
    BY <1>2, TailShape
  <2> QED
    BY <2>1, <2>2
<1> QED
  BY <1>3, <1>5, <1>6

\* A size and an entry are read together.
LEMMA PairRead ==
  ASSUME NEW s, NEW have \in Nat, Len(All) \in Nat, LeftFrom(s, have), NumberIn(Taken(s, 4)) # 0
  PROVE  LET t == Taken(Left(s, 4), 1)
         IN /\ Left(s, 4) # <<>> /\ have + 1 <= Len(All) /\ LeftFrom(Left(Left(s, 4), 1), have + 1)
            /\ IsSeq(t) /\ Len(t) = 1 /\ t[1] = All[have + 1]
<1> DEFINE rest == Left(s, 4)
<1>0. rest = Left(s, 4)
  OBVIOUS
<1> HIDE DEF rest
<1>1. IsStream(s) /\ s # <<>> /\ Len(s[1]) = 4
  BY LeftFirst
<1>2. PICK n \in have..Len(All) :
        /\ Len(s) = 2 * (n - have) + 2
        /\ \A k \in 1..(n - have) :
             /\ Len(s[2 * k - 1]) = 4 /\ Number(s[2 * k - 1][4]) # 0
             /\ Len(s[2 * k]) = 1 /\ s[2 * k][1] = All[have + k]
        /\ Len(s[Len(s) - 1]) = 4 /\ Number(s[Len(s) - 1][4]) = 0
        /\ Len(s[Len(s)]) = 12 /\ (Number(s[Len(s)][4]) = OK => n = Len(All))
  BY DEF LeftFrom
<1>3. Number(s[1][4]) # 0 /\ rest = Tail(s)
  BY <1>0, <1>1, ReceiveAtSize
<1>4. n # have
  <2>1. n = have => Len(s) - 1 = 1
    BY <1>2
  <2> QED
    BY <1>2, <1>3, <2>1
<1>5. n - have \in Nat \ {0} /\ Len(s) >= 4
  BY <1>2, <1>4
<1>6. Len(s[2]) = 1 /\ s[2][1] = All[have + 1]
  <2>1. 1 \in 1..(n - have) /\ 2 * 1 = 2
    BY <1>5
  <2> QED
    BY <1>2, <2>1
<1>7. IsStream(rest) /\ Len(rest) = Len(s) - 1 /\ rest[1] = s[2]
  <2>1. 1 \in 1..(Len(s) - 1) /\ 1 + 1 = 2
    BY <1>5
  <2>2. /\ IsStream(Tail(s)) /\ Len(Tail(s)) = Len(s) - 1
        /\ \A k \in 1..(Len(s) - 1) : Tail(s)[k] = s[k + 1]
    BY <1>1, TailShape
  <2> QED
    BY <1>3, <2>1, <2>2
<1>8. rest # <<>>
  BY <1>5, <1>7, StreamShape
<1>9. /\ Left(rest, 1) = Tail(Tail(s)) /\ IsSeq(Taken(rest, 1))
      /\ Len(Taken(rest, 1)) = 1 /\ Taken(rest, 1)[1] = All[have + 1]
  <2>1. Left(rest, 1) = Tail(rest) /\ Len(Taken(rest, 1)) = 1 /\ Taken(rest, 1)[1] = rest[1][1]
    BY <1>6, <1>7, <1>8, TakenCells
  <2>2. IsSeq(Taken(rest, 1))
    BY <1>7, LeftStream
  <2> QED
    BY <1>3, <1>6, <1>7, <2>1, <2>2
<1>10. /\ IsStream(Tail(Tail(s))) /\ Len(Tail(Tail(s))) = Len(s) - 2
       /\ \A k \in 1..(Len(s) - 2) : Tail(Tail(s))[k] = s[k + 2]
  BY <1>1, <1>3, <1>8, SecondTailShape
<1> DEFINE r == Tail(Tail(s))
<1>11. Len(r) = 2 * (n - (have + 1)) + 2 /\ Len(s) = Len(r) + 2 /\ Len(r) \in Nat
  <2> DEFINE a == Len(s)  b == Len(r)  d == n - have
  <2>1. d \in Nat \ {0} /\ a = 2 * d + 2 /\ b = a - 2
    BY <1>2, <1>5, <1>10
  <2>2. n - (have + 1) = d - 1
    BY <1>2
  <2> HIDE DEF a, b, d
  <2>3. b = 2 * (d - 1) + 2 /\ a = b + 2 /\ b \in Nat
    BY <2>1
  <2> QED
    BY <2>2, <2>3 DEF a, b, d
<1> HIDE DEF r
<1>12. ASSUME NEW k \in 1..(n - (have + 1))
       PROVE  /\ Len(r[2 * k - 1]) = 4 /\ Number(r[2 * k - 1][4]) # 0
              /\ Len(r[2 * k]) = 1 /\ r[2 * k][1] = All[have + 1 + k]
  <2>1. k + 1 \in 1..(n - have) /\ 2 * (k + 1) - 1 = 2 * k - 1 + 2 /\ 2 * (k + 1) = 2 * k + 2
        /\ have + (k + 1) = have + 1 + k
    BY <1>2, <1>5
  <2>2. 2 * k - 1 \in 1..(Len(s) - 2) /\ 2 * k \in 1..(Len(s) - 2)
    BY <1>2, <1>5, <1>11
  <2>3. r[2 * k - 1] = s[2 * k - 1 + 2] /\ r[2 * k] = s[2 * k + 2]
    BY <1>10, <2>2 DEF r
  <2> QED
    BY <1>2, <2>1, <2>3
<1>13. r[Len(r) - 1] = s[Len(s) - 1] /\ r[Len(r)] = s[Len(s)]
  <2>1. Len(r) - 1 \in 1..(Len(s) - 2) /\ Len(r) \in 1..(Len(s) - 2)
        /\ Len(r) - 1 + 2 = Len(s) - 1 /\ Len(r) + 2 = Len(s)
    BY <1>2, <1>5, <1>11
  <2> QED
    BY <1>10, <2>1 DEF r
<1>14. have + 1 <= Len(All) /\ n \in (have + 1)..Len(All)
  BY <1>2, <1>5
<1>15. LeftFrom(r, have + 1)
  BY <1>2, <1>10, <1>11, <1>12, <1>13, <1>14 DEF LeftFrom, r
<1> QED
  BY <1>0, <1>8, <1>9, <1>14, <1>15 DEF r

\* Where the client reads of an export, there is one left, or no more than a status.
LEMMA Receiving ==
  ASSUME SessionInv, ExportInv, job.cmd = Cmd.export, client = "receiving", toClient # <<>>
  PROVE  /\ clientOn /\ server = "accept" /\ ~ serverOn /\ (ExportLeft(toClient) \/ IsNo(toClient))
         /\ Len(All) \in Nat /\ Len(export) \in Nat /\ IsSeq(export)
<1>1. clientOn /\ server = "accept" /\ ~ serverOn /\ (ExportLeft(toClient) \/ IsNo(toClient))
  BY DEF ExportInv, SessionInv, Heard
<1>2. Typed
  BY DEF SessionInv
<1> QED
  BY <1>1, <1>2, AllFacts, IsSeqFacts DEF Typed

\* The client reads on.
LEMMA ExportGoesOn ==
  ASSUME SessionInv, ExportInv, job.cmd = Cmd.export, client = "receiving",
         NumberIn(Taken(toClient, 4)) # 0, Left(toClient, 4) # <<>>,
         UNCHANGED <<db, clientOn, serverOn, serving, client, job, code>>,
         toClient' = Left(Left(toClient, 4), 1),
         export' = export \o Taken(Left(toClient, 4), 1) \/ export' = Append(export, Torn)
  PROVE  ExportInv'
<1> USE DEF db, serving
<1>1. toClient # <<>> /\ All' = All
  BY DEF Left, All
<1>2. /\ clientOn /\ server = "accept" /\ (ExportLeft(toClient) \/ IsNo(toClient))
      /\ Len(All) \in Nat /\ Len(export) \in Nat /\ IsSeq(export)
  BY <1>1, Receiving
<1> SUFFICES toClient' # <<>> => ExportLeft(toClient)' \/ IsNo(toClient')
  BY <1>2 DEF ExportInv, Ended
<1>3. CASE IsNo(toClient)
  <2> DEFINE rest == Left(toClient, 4)
  <2>1. IsNo(rest)
    BY <1>3, NoLeft
  <2>2. toClient' = Left(rest, 1)
    OBVIOUS
  <2> HIDE DEF rest
  <2> QED
    BY <2>1, <2>2, NoLeft
<1>4. CASE ExportLeft(toClient)
  <2> DEFINE have == Len(export)
             t == Taken(Left(toClient, 4), 1)
  <2>1. have <= Len(All) /\ (\A k \in 1..have : export[k] \in {All[k], Torn}) /\ LeftFrom(toClient, have)
    BY <1>4 DEF ExportLeft
  <2>2. /\ have + 1 <= Len(All) /\ LeftFrom(toClient', have + 1)
        /\ IsSeq(t) /\ Len(t) = 1 /\ t[1] = All[have + 1]
    <3> HIDE DEF have
    <3> QED
      BY <1>2, <2>1, PairRead DEF have
  <2>3. export' \in {export \o t, Append(export, Torn)}
    OBVIOUS
  <2> HIDE DEF t
  <2>4. /\ Len(export') = have + 1 /\ (\A k \in 1..have : export'[k] = export[k])
        /\ export'[have + 1] \in {All[have + 1], Torn}
    <3>1. CASE export' = export \o t
      <4>1. IsSeq(export) /\ IsSeq(t) /\ 1 \in 1..Len(t)
        BY <1>2, <2>2
      <4>2. /\ Len(export \o t) = Len(export) + Len(t)
            /\ \A k \in 1..Len(export) : (export \o t)[k] = export[k]
            /\ \A k \in 1..Len(t) : (export \o t)[Len(export) + k] = t[k]
        <5> HIDE DEF have
        <5> QED
          BY <4>1, JoinFacts
      <4> QED
        BY <1>2, <2>2, <3>1, <4>1, <4>2
    <3>2. CASE export' = Append(export, Torn)
      BY <1>2, <3>2, AppendFacts
    <3> QED
      BY <2>3, <3>1, <3>2
  <2>5. \A k \in 1..(have + 1) : export'[k] \in {All[k], Torn}
    <3>1. \A k \in 1..(have + 1) : k \in 1..have \/ k = have + 1
      BY <1>2
    <3> HIDE DEF have
    <3> QED
      BY <2>1, <2>4, <3>1
  <2>6. ExportLeft(toClient)'
    <3>1. Len(export') = have + 1 /\ All' = All
      BY <1>1, <2>4
    <3> HIDE DEF have
    <3>2. LeftFrom(toClient, Len(export))'
      BY <2>2, <3>1 DEF LeftFrom
    <3> QED
      BY <2>2, <2>5, <3>1, <3>2 DEF ExportLeft
  <2> QED
    BY <2>6
<1> QED
  BY <1>2, <1>3, <1>4

\* The client goes on to the status, or to what it takes for one.
LEMMA ExportStops ==
  ASSUME SessionInv, HalfClosed, ExportInv, job.cmd = Cmd.export, client = "receiving", client' = "response",
         ClientReads, UNCHANGED <<db, clientOn, serverOn, serving, job>>,
         toClient = <<>> => toClient' = <<>>, toClient # <<>> => IsStatus(toClient, Complete)'
  PROVE  ExportInv'
<1>1. clientOn => server \in {"accept", "down"} /\ ~ serverOn
  BY Receiving DEF ClientReads, HalfClosed
<1>2. IsStatus(toClient, Complete)'
  <2>1. IsStatus(<<>>, Complete')
    BY TupleStream DEF IsStatus
  <2> QED
    BY <2>1 DEF IsStatus
<1>3. ~ clientOn' => toClient' = <<>>
  BY DEF ExportInv
<1> QED
  BY <1>1, <1>2, <1>3 DEF ExportInv, Ended, serving

\* What is left of a status is none.
LEMMA NoStatus ==
  ASSUME NEW s, s = <<>> \/ (IsStream(s) /\ Len(s[1]) < 12 /\ Len(s[1]) \in Nat), NEW holds
  PROVE  IsStatus(s, holds)
<1>1. IsStream(<<>>)
  BY TupleStream
<1>2. CASE s = <<>>
  BY <1>1, <1>2 DEF IsStatus
<1>3. CASE IsStream(s) /\ Len(s[1]) < 12 /\ Len(s[1]) \in Nat
  <2> DEFINE l == Len(s[1])
  <2>1. l \in Nat /\ l < 12
    BY <1>3
  <2> HIDE DEF l
  <2>2. l <= 12 /\ l # 12
    BY <2>1
  <2> QED
    BY <1>3, <2>2 DEF IsStatus, l
<1> QED
  BY <1>2, <1>3

\* A part of what is no more than a status is none.
LEMMA NoReads ==
  ASSUME NEW s, IsNo(s), NEW n \in Nat \ {0}, NEW holds
  PROVE  IsStatus(Left(s, n), holds) /\ (Left(s, n) = <<>> \/ IsNo(Left(s, n)))
<1> DEFINE r == Left(s, n)
<1>1. r = <<>> \/ (IsNo(r) /\ Len(r[1]) < 12)
  BY NoLeft
<1> HIDE DEF r
<1>2. IsNo(r) => IsStream(r) /\ Len(r[1]) \in Nat
  <2>1. IsNo(r) => IsStream(r) /\ 1 \in 1..Len(r)
    BY DEF IsNo
  <2> QED
    BY <2>1, StreamShape
<1>3. IsStatus(r, holds)
  BY <1>1, <1>2, NoStatus
<1> QED
  BY <1>1, <1>3 DEF r

LEMMA ReceiveExports ==
  ASSUME SessionInv, HalfClosed, ExportInv, job.cmd = Cmd.export, Receive
  PROVE  ExportInv'
<1> DEFINE size == NumberIn(Taken(toClient, 4))
           rest == Left(toClient, 4)
<1>1. client = "receiving" /\ ClientReads /\ UNCHANGED <<db, clientOn, serverOn, serving, job, code>>
  BY DEF Receive
<1>2. CASE size # 0 /\ rest # <<>>
  <2>1. export' = export \o Taken(rest, 1) /\ toClient' = Left(rest, 1) /\ UNCHANGED client
    BY <1>2 DEF Receive
  <2> QED
    BY <1>1, <1>2, <2>1, ExportGoesOn
<1>3. CASE ~ (size # 0 /\ rest # <<>>)
  <2>1. toClient' = rest /\ client' = "response" /\ UNCHANGED export
    BY <1>3 DEF Receive
  <2>2. toClient = <<>> => toClient' = <<>>
    BY <2>1 DEF Left
  <2>3. Complete' = Complete
    BY <1>1, <2>1 DEF Complete, All, db
  <2>4. ASSUME toClient # <<>> PROVE IsStatus(rest, Complete)
    <3>1. /\ ExportLeft(toClient) \/ IsNo(toClient)
          /\ Len(All) \in Nat /\ Len(export) \in Nat /\ IsSeq(export)
      BY <1>1, <2>4, Receiving
    <3>2. CASE IsNo(toClient)
      BY <3>2, NoReads
    <3>3. CASE ExportLeft(toClient)
      <4>1. LeftFrom(toClient, Len(export)) /\ \A k \in 1..Len(export) : export[k] \in {All[k], Torn}
        BY <3>3 DEF ExportLeft
      <4>2. size = 0
        BY <1>3, <3>1, <4>1, PairRead
      <4>3. IsStream(rest) /\ Len(rest[1]) = 12 /\ (Number(rest[1][4]) = OK => Len(export) = Len(All))
        BY <3>1, <4>1, <4>2, EndRead
      <4>4. Len(export) = Len(All) => Complete
        BY <4>1 DEF Complete
      <4> HIDE DEF rest
      <4> QED
        BY <4>3, <4>4 DEF IsStatus
    <3> QED
      BY <3>1, <3>2, <3>3
  <2>5. toClient # <<>> => IsStatus(toClient, Complete)'
    <3> HIDE DEF rest
    <3> QED
      BY <2>1, <2>3, <2>4 DEF IsStatus
  <2> QED
    BY <1>1, <2>1, <2>2, <2>5, ExportStops
<1> QED
  BY <1>2, <1>3

LEMMA ReceiveFailsExports ==
  ASSUME SessionInv, HalfClosed, ExportInv, job.cmd = Cmd.export, ReceiveFails
  PROVE  ExportInv'
<1> DEFINE size == NumberIn(Taken(toClient, 4))
           rest == Left(toClient, 4)
<1>1. client = "receiving" /\ ClientReads /\ UNCHANGED <<db, clientOn, serverOn, serving, job, code>>
  BY DEF ReceiveFails
<1>2. CASE export' = Unmade /\ client' = "response" /\ UNCHANGED toClient
  <2>1. ASSUME toClient # <<>> PROVE IsStream(toClient) /\ Len(toClient[1]) <= 12
    <3>1. /\ ExportLeft(toClient) \/ IsNo(toClient)
          /\ Len(All) \in Nat /\ Len(export) \in Nat
      BY <1>1, <2>1, Receiving
    <3>2. CASE IsNo(toClient)
      BY <3>2 DEF IsNo
    <3>3. CASE ExportLeft(toClient)
      <4>1. LeftFrom(toClient, Len(export))
        BY <3>3 DEF ExportLeft
      <4>2. IsStream(toClient) /\ Len(toClient[1]) = 4
        BY <3>1, <4>1, LeftFirst
      <4> QED
        BY <4>2
    <3> QED
      BY <3>1, <3>2, <3>3
  <2>2. Complete'
    BY <1>2 DEF Complete
  <2>3. toClient # <<>> => IsStatus(toClient, Complete)'
    BY <1>2, <2>1, <2>2 DEF IsStatus
  <2> QED
    BY <1>1, <1>2, <2>3, ExportStops
<1>3. CASE /\ size # 0 /\ rest # <<>> /\ toClient' = Left(rest, 1)
           /\ export' = Append(export, Torn) /\ UNCHANGED client
  BY <1>1, <1>3, ExportGoesOn
<1>4. CASE size # 0 /\ rest # <<>> /\ toClient' = Left(rest, 1) /\ client' = "response" /\ UNCHANGED export
  <2>1. toClient # <<>>
    BY <1>4 DEF Left
  <2>2. /\ ExportLeft(toClient) \/ IsNo(toClient)
        /\ Len(All) \in Nat /\ Len(export) \in Nat
    BY <1>1, <2>1, Receiving
  <2>3. \A holds \in {Complete'} : IsStatus(Left(rest, 1), holds)
    <3> SUFFICES ASSUME NEW holds PROVE IsStatus(Left(rest, 1), holds)
      OBVIOUS
    <3>1. CASE IsNo(toClient)
      <4>1. IsNo(rest)
        BY <1>4, <3>1, NoReads
      <4> HIDE DEF rest
      <4> QED
        BY <4>1, NoReads
    <3>2. CASE ExportLeft(toClient)
      <4>1. LeftFrom(toClient, Len(export))
        BY <3>2 DEF ExportLeft
      <4>2. LeftFrom(Left(rest, 1), Len(export) + 1) /\ Len(export) + 1 \in Nat
        BY <1>4, <2>2, <4>1, PairRead
      <4> DEFINE r == Left(rest, 1)  have == Len(export) + 1
      <4>3. LeftFrom(r, have) /\ have \in Nat
        BY <4>2
      <4> HIDE DEF r, have
      <4>4. IsStream(r) /\ Len(r[1]) = 4
        BY <2>2, <4>3, LeftFirst
      <4>5. Len(r[1]) < 12 /\ Len(r[1]) \in Nat
        BY <4>4
      <4>6. IsStatus(r, holds)
        BY <4>4, <4>5, NoStatus
      <4> QED
        BY <4>6 DEF r
    <3> QED
      BY <2>2, <3>1, <3>2
  <2>4. IsStatus(toClient, Complete)'
    <3> HIDE DEF rest
    <3>1. IsStatus(Left(rest, 1), Complete')
      BY <2>3
    <3> QED
      BY <1>4, <3>1 DEF IsStatus
  <2> QED
    BY <1>1, <1>4, <2>1, <2>4, ExportStops
<1> QED
  BY <1>2, <1>3, <1>4 DEF ReceiveFails

\* Where nothing of an export or an import is under way, or nothing of it changes.
LEMMA Elsewhere ==
  /\ job'.cmd # Cmd.export \/ (client' \notin {"prompt", "receiving", "response"} /\ ~ Ended') => ExportInv'
  /\ job'.cmd # Cmd.import \/ (client' \notin {"prompt", "sending", "response"} /\ ~ Ended') => ImportInv'
BY DEF ExportInv, ImportInv

LEMMA ExportKept ==
  ASSUME ExportInv, UNCHANGED <<index, file, toClient, clientOn, client, job, code, export>>,
         \/ UNCHANGED <<server, serverOn>>
         \/ server \notin {"accept", "down"}
         \/ server = "down" /\ server' = "accept" /\ ~ serverOn /\ UNCHANGED serverOn
  PROVE  ExportInv'
<1>0. All' = All
  BY DEF All
<1>1. /\ ExportLeft(toClient) => ExportLeft(toClient)'
      /\ Complete => Complete'
      /\ IsStatus(toClient, Complete) => IsStatus(toClient, Complete)'
  BY <1>0 DEF ExportLeft, LeftFrom, Complete, IsStatus
<1>2. CASE server = "down" /\ server' = "accept" /\ ~ serverOn /\ UNCHANGED serverOn
  BY <1>1, <1>2 DEF ExportInv, Ended
<1>3. CASE UNCHANGED <<server, serverOn>>
  BY <1>1, <1>3 DEF ExportInv, Ended
<1>4. CASE server \notin {"accept", "down"}
  BY <1>1, <1>4 DEF ExportInv, Ended
<1> QED
  BY <1>2, <1>3, <1>4

LEMMA SendsKept ==
  ASSUME UNCHANGED <<export, shown, unsent>>
  PROVE  SentFirst' = SentFirst /\ SendsRest' = SendsRest
BY DEF SentFirst, SendsRest

LEMMA ImportKept ==
  ASSUME ImportInv, UNCHANGED <<toClient, clientOn, client, job, code, export, shown, unsent, served>>,
         \/ UNCHANGED <<server, serverOn, toServer, request>>
         \/ server # "accept" /\ (serverOn' => server' \notin {"kek", "loop", "import"})
  PROVE  ImportInv'
<1>1. /\ Imported' = Imported /\ \A m : Counts(toServer, m) /\ UNCHANGED toServer => Counts(toServer, m)'
      /\ \A a : IsStatus(toClient, a) <=> IsStatus(toClient', a)
  BY DEF Imported, Counts, IsStatus
<1>2. CASE UNCHANGED <<server, serverOn, toServer, request>>
  BY <1>1, <1>2, SendsKept DEF ImportInv, Ended
<1>3. CASE server # "accept" /\ (serverOn' => server' \notin {"kek", "loop", "import"})
  BY <1>1, <1>3, SendsKept DEF ImportInv, Ended
<1> QED
  BY <1>2, <1>3

LEMMA HalfClosedKept == 
  ASSUME SessionInv, HalfClosed, Next
  PROVE  HalfClosed'
<1>1. ASSUME ServerStep PROVE HalfClosed'
  <2>1. CASE Pong \/ Accept \/ ReadKek \/ ReadMessage \/ ReadBody \/ ReadValue
    <3>1. CASE Pong \/ Accept
      <4>1. UNCHANGED <<server, clientOn, serverOn>> \/ (serverOn /\ UNCHANGED <<clientOn, serverOn>>)
        BY <3>1 DEF Pong, Accept, serving, link
      <4>2. CASE UNCHANGED <<server, clientOn, serverOn>>
        BY <4>2 DEF HalfClosed
      <4>3. CASE serverOn /\ UNCHANGED <<clientOn, serverOn>>
        BY <4>3 DEF HalfClosed
      <4> QED
        BY <4>1, <4>2, <4>3
    <3>2. CASE ReadKek \/ ReadMessage \/ ReadBody \/ ReadValue
      <4>1. server \notin {"accept", "down"} /\ UNCHANGED clientOn
        BY <3>2 DEF ReadKek, ReadMessage, ReadBody, ReadValue
      <4>2. UNCHANGED serverOn \/ server' \in {"accept", "down"}
        BY <3>2 DEF ReadKek, ReadMessage, ReadBody, ReadValue, HangUp
      <4> QED
        BY <4>1, <4>2 DEF HalfClosed
    <3> QED
      BY <2>1, <3>1, <3>2
  <2>2. ASSUME NEW good \in BOOLEAN, ServeEdit(good) \/ ServeDelete(good) \/ ServePasswd(good) \/ ServeRekey(good)
        PROVE  HalfClosed'
    <3>1. HangUp
      BY <2>2 DEF ServeEdit, ServeDelete, ServePasswd, ServeRekey
    <3> QED
      BY <3>1 DEF HalfClosed, HangUp
  <2>3. ASSUME NEW good \in BOOLEAN, NEW i \in Ids, ServeAdd(i, good) \/ ImportAdds(i, good) PROVE HalfClosed'
    <3>1. HangUp \/ UNCHANGED <<clientOn, server, serverOn>>
      BY <2>3 DEF ServeAdd, ImportAdds
    <3> QED
      BY <3>1 DEF HalfClosed, HangUp
  <2>4. CASE ServeFind \/ ImportEnds \/ \E n \in 0..Cardinality(Ids) : ServeExport(n)
    <3>1. HangUp \/ (server = "serve" /\ UNCHANGED <<clientOn, serverOn>>)
      BY <2>4 DEF ServeFind, ImportEnds, ServeExport, Serving
    <3> QED
      BY <3>1 DEF HalfClosed, HangUp
  <2> QED
    BY <1>1, <2>1, <2>2, <2>3, <2>4 DEF ServerStep
<1>2. ASSUME ClientReading PROVE HalfClosed'
  BY <1>2 DEF ClientReading, Searching, Ping, GiveUp, Connect, ReadMatch, Receive, ReceiveFails, Send, SendEnd,
     Response, End, HalfClosed, serving, using, db, link
<1>3. ASSUME UserStep PROVE HalfClosed'
  BY <1>3 DEF UserStep, Hello, Edited, NewPasswd, ExportPasswd, ImportPasswd, Refused, End, HalfClosed,
     serving, using, db, link
<1>4. ASSUME Given PROVE HalfClosed'
  BY <1>4 DEF Given, Start, HalfClosed, link
<1>5. ASSUME Restart \/ Break PROVE HalfClosed'
  BY <1>5 DEF Restart, Break, HalfClosed, link
<1> QED
  BY <1>1, <1>2, <1>3, <1>4, <1>5 DEF Next

LEMMA ReadingCopies ==
  ASSUME SessionInv, CopyInv, ReadKek \/ ReadMessage \/ ReadBody \/ ReadValue
  PROVE  ExportInv'
<1>1. server \notin {"accept", "down"} /\ UNCHANGED <<db, toClient, clientOn, using>>
  BY DEF ReadKek, ReadMessage, ReadBody, ReadValue
<1> QED
  BY <1>1, ExportKept DEF CopyInv, db, using

LEMMA IdlingCopies ==
  ASSUME SessionInv, CopyInv, Pong \/ Accept \/ Restart \/ Ping \/ UNCHANGED vars
  PROVE  ExportInv' /\ ImportInv'
<1> USE DEF vars, db, link, serving, using
<1>1. CASE Pong \/ Ping \/ UNCHANGED vars
  <2>1. UNCHANGED <<db, link, serving, using>>
    BY <1>1 DEF Pong, Ping
  <2> QED
    BY <2>1, ExportKept, ImportKept DEF CopyInv
<1>2. CASE Accept
  <2>1. client' = "hello"
    BY <1>2 DEF Accept, SessionInv, Present
  <2> QED
    BY <2>1, Elsewhere DEF Ended
<1>3. CASE Restart
  <2>1. server = "down" /\ server' = "accept" /\ ~ serverOn /\ UNCHANGED <<db, link, request, served, using>>
    BY <1>3 DEF Restart, SessionInv, Present
  <2> QED
    BY <2>1, ExportKept, ImportKept DEF CopyInv
<1> QED
  BY <1>1, <1>2, <1>3

LEMMA BreakCopies == ASSUME SessionInv, CopyInv, Break PROVE ExportInv' /\ ImportInv'
<1>1. /\ clientOn /\ serverOn /\ server # "accept" /\ ~ clientOn' /\ ~ serverOn'
      /\ UNCHANGED <<db, serving, using>>
  BY DEF Break
<1> USE DEF db, serving, using
<1>2. PICK l \in 0..Len(toClient) : toClient' = SubSeq(toClient, 1, l)
  BY DEF Break
<1>3. client \in {"prompt", "receiving", "sending", "response"} => toClient = <<>> /\ toClient' = <<>>
  BY <1>1, <1>2 DEF SessionInv, Heard
<1>4. client # "off"
  BY <1>1 DEF SessionInv, Present
<1>5. IsStream(<<>>)
  BY TupleStream
<1>6. ExportInv'
  BY <1>1, <1>3, <1>4, <1>5 DEF CopyInv, ExportInv, Ended, IsStatus
<1>7. ImportInv'
  BY <1>1, <1>3, <1>4, <1>5, SendsKept DEF CopyInv, ImportInv, Ended, IsStatus
<1> QED
  BY <1>6, <1>7

\* The client leaves, or does not do what copies.
LEMMA LeavingCopies ==
  ASSUME SessionInv, CopyInv,
         \/ GiveUp \/ Refused \/ (\E good \in BOOLEAN : Connect(good))
         \/ ReadMatch \/ (\E e \in Entries : Edited(e)) \/ (\E p \in Passwords : NewPasswd(p)) \/ Given
  PROVE  ExportInv' /\ ImportInv'
<1>0. 1 # OK
  BY CmdFacts
<1>1. CASE GiveUp \/ Refused \/ (\E good \in BOOLEAN : Connect(good))
  <2>1. ~ Ended' /\ client' \in {"off", "hello"}
    BY <1>0, <1>1 DEF GiveUp, Refused, Connect, End, Ended
  <2> QED
    BY <2>1, Elsewhere
<1>2. CASE ReadMatch
  <2>1. job.cmd \in {Cmd.edit, Cmd.find} /\ job' = job
    BY <1>2 DEF ReadMatch, SessionInv, JobKnown
  <2> QED
    BY <2>1, CmdFacts, Elsewhere
<1>3. ASSUME NEW e \in Entries, Edited(e) PROVE ExportInv' /\ ImportInv'
  <2>1. client = "editor" /\ job.cmd \in {Cmd.add, Cmd.edit} /\ job' = Over([entry |-> e], job)
    BY <1>3 DEF Edited, SessionInv, JobKnown
  <2>2. job'.cmd = job.cmd
    BY <2>1, JobGrows
  <2> QED
    BY <2>1, <2>2, CmdFacts, Elsewhere
<1>4. ASSUME NEW p \in Passwords, NewPasswd(p) PROVE ExportInv' /\ ImportInv'
  <2>1. client = "prompt" /\ job.cmd = Cmd.passwd /\ job' = Over([password |-> p], job)
    BY <1>4 DEF NewPasswd
  <2>2. job'.cmd = job.cmd
    BY <2>1, JobGrows
  <2> QED
    BY <2>1, <2>2, CmdFacts, Elsewhere
<1>5. CASE Given
  <2>1. client' = "search"
    BY <1>5 DEF Given, Start
  <2> QED
    BY <2>1, Elsewhere DEF Ended
<1> QED
  BY <1>1, <1>2, <1>3, <1>4, <1>5

LEMMA ServingCopies ==
  ASSUME SessionInv, CopyInv,
         \/ \E good \in BOOLEAN : ServeEdit(good) \/ ServeDelete(good) \/ ServePasswd(good) \/ ServeRekey(good)
         \/ \E good \in BOOLEAN, i \in Ids : ServeAdd(i, good)
  PROVE  ExportInv' /\ ImportInv'
<1>1. server = "serve" /\ request.cmd \in {Cmd.edit, Cmd.delete, Cmd.passwd, Cmd.rekey, Cmd.add} /\ job' = job
  BY DEF ServeEdit, ServeDelete, ServePasswd, ServeRekey, ServeAdd, Serving, using
<1>2. job.cmd \in {Cmd.edit, Cmd.delete, Cmd.passwd, Cmd.rekey, Cmd.add}
  BY <1>1, ServesTheJob, CmdFacts
<1> QED
  BY <1>1, <1>2, CmdFacts, Elsewhere

LEMMA ServeFindCopies == ASSUME SessionInv, CopyInv, ServeFind PROVE ExportInv' /\ ImportInv'
<1>1. /\ server = "serve" /\ request.cmd = Cmd.find /\ server' = "loop"
      /\ toClient' = IF clientOn THEN toClient' ELSE toClient
      /\ UNCHANGED <<db, toServer, clientOn, serverOn, using, search>>
  BY DEF ServeFind, Serving, Reply, SentBack
<1> USE DEF db, using
<1>2. RequestKnown /\ Cmd.find \in Asked
  BY <1>1, ServesTheJob DEF RequestKnown
<1>3. CASE job.cmd \notin {Cmd.export, Cmd.import}
  BY <1>1, <1>3, Elsewhere
<1>4. CASE job.cmd \in {Cmd.export, Cmd.import}
  <2>1. client # "matches" \/ client = "off"
    BY <1>4, CmdFacts DEF SessionInv, JobKnown
  <2>2. ~ clientOn
    BY <1>2, <1>4, <2>1, CmdFacts DEF Asked, Sent, Nothing
  <2>3. ExportInv'
    BY <1>1, <2>2, ExportKept DEF CopyInv
  <2>4. client \in {"prompt", "sending", "response"} => ~ serverOn
    BY <2>2 DEF SessionInv, Present
  <2>5. IsStream(<<>>)
    BY TupleStream
  <2>6. ImportInv'
    <3>1. toClient' = toClient
      BY <1>1, <2>2
    <3>2. ~ Ended \/ job.cmd # Cmd.import
      BY <1>1 DEF CopyInv, ImportInv
    <3>3. ~ Ended' \/ job'.cmd # Cmd.import
      BY <1>1, <3>2 DEF Ended
    <3>4. \A a : IsStatus(<<>>, a)
      BY <2>5 DEF IsStatus
    <3>5. CASE client \in {"prompt", "sending", "response"} /\ job.cmd = Cmd.import
      <4>1. toClient' = <<>> /\ ~ serverOn'
        BY <1>1, <2>2, <2>4, <3>1, <3>5 DEF CopyInv, ImportInv
      <4> QED
        BY <1>1, <3>3, <3>4, <3>5, <4>1, SendsKept DEF CopyInv, ImportInv
    <3>6. CASE client \notin {"prompt", "sending", "response"} \/ job.cmd # Cmd.import
      BY <1>1, <3>3, <3>6, Elsewhere
    <3> QED
      BY <3>5, <3>6
  <2> QED
    BY <2>3, <2>6
<1> QED
  BY <1>3, <1>4

\* Who waits for the answer to a command that copies, and has read nothing yet.
LEMMA WaitsForCopy ==
  ASSUME SessionInv, CopyInv, server \in {"serve", "import"}, request.cmd # Cmd.find,
         job.cmd \in {Cmd.export, Cmd.import}, clientOn
  PROVE  /\ client \in {"prompt", "receiving", "sending", "response"} /\ toClient = <<>>
         /\ serverOn
<1>1. client \notin {"off", "search", "hello"}
  BY DEF SessionInv, Present
<1>2. client \in {"prompt", "receiving", "sending", "response"} \/ client \notin {"matches", "editor"}
  BY <1>1, CmdFacts DEF SessionInv, JobKnown
<1>3. request.cmd \in Asked \ {Nothing}
  BY ServesTheJob DEF RequestKnown
<1>4. client \in {"prompt", "receiving", "sending", "response"}
  BY <1>1, <1>2, <1>3, CmdFacts DEF Asked, Sent, Requested, Nothing, SessionInv, JobKnown
<1>5. toClient = <<>>
  BY <1>4 DEF SessionInv, Heard
<1>6. serverOn
  BY DEF CopyInv, HalfClosed
<1> QED
  BY <1>4, <1>5, <1>6

\* Such records are an export of which the client has nothing.
LEMMA ExportFrom ==
  ASSUME NEW p, IsSeq(p), NEW n \in Nat, Len(p) = 2 * n,
         NEW z, IsSeq(z), Len(z) = 4, Number(z[4]) = 0,
         NEW m, IsSeq(m), Len(m) = 12,
         \A k \in 1..n : /\ IsSeq(p[2 * k - 1]) /\ Len(p[2 * k - 1]) = 4 /\ Number(p[2 * k - 1][4]) # 0
                         /\ IsSeq(p[2 * k]) /\ Len(p[2 * k]) = 1 /\ p[2 * k][1] = All[k],
         Len(All) \in Nat, n <= Len(All), Number(m[4]) = OK => n = Len(All), export = <<>>
  PROVE  ExportLeft(Append(Append(p, z), m))
<1> DEFINE t == Append(p, z)  s == Append(t, m)
<1>1. IsSeq(t) /\ Len(t) = 2 * n + 1 /\ (\A k \in 1..(2 * n) : t[k] = p[k]) /\ t[2 * n + 1] = z
  <2>1. IsSeq(t) /\ Len(t) = Len(p) + 1 /\ (\A k \in 1..Len(p) : t[k] = p[k]) /\ t[Len(p) + 1] = z
    BY AppendFacts
  <2> QED
    BY <2>1
<1> HIDE DEF t
<1>2. /\ IsSeq(s) /\ Len(s) = 2 * n + 2 /\ \A k \in 1..(2 * n) : s[k] = p[k]
      /\ s[2 * n + 1] = z /\ s[2 * n + 2] = m
  <2>1. IsSeq(s) /\ Len(s) = Len(t) + 1 /\ (\A k \in 1..Len(t) : s[k] = t[k]) /\ s[Len(t) + 1] = m
    BY <1>1, AppendFacts
  <2>2. Len(t) + 1 = 2 * n + 2 /\ 2 * n + 1 \in 1..Len(t) /\ \A k \in 1..(2 * n) : k \in 1..Len(t)
    BY <1>1
  <2> QED
    BY <1>1, <2>1, <2>2
<1> HIDE DEF s
<1>3. ASSUME NEW k \in DOMAIN s PROVE IsSeq(s[k])
  <2>1. k \in 1..(2 * n) \/ k = 2 * n + 1 \/ k = 2 * n + 2
    <3>1. DOMAIN s = 1..Len(s)
      BY <1>2, IsSeqFacts
    <3> DEFINE a == 2 * n
    <3>2. k \in 1..(a + 2) /\ a \in Nat
      BY <1>2, <3>1
    <3> HIDE DEF a
    <3>3. k \in 1..a \/ k = a + 1 \/ k = a + 2
      BY <3>2
    <3> QED
      BY <3>3 DEF a
  <2>2. CASE k \in 1..(2 * n)
    <3>1. PICK j \in 1..n : k = 2 * j - 1 \/ k = 2 * j
      BY <2>2, Halves
    <3>2. IsSeq(p[k])
      BY <3>1
    <3> QED
      BY <1>2, <2>2, <3>2
  <2> QED
    BY <1>2, <2>1, <2>2
<1>4. IsStream(s)
  BY <1>2, <1>3 DEF IsStream
<1>5. Len(export) = 0
  BY TupleFacts
<1>6. ASSUME NEW k \in 1..n
      PROVE  /\ Len(s[2 * k - 1]) = 4 /\ Number(s[2 * k - 1][4]) # 0
             /\ Len(s[2 * k]) = 1 /\ s[2 * k][1] = All[k]
  <2>1. 2 * k - 1 \in 1..(2 * n) /\ 2 * k \in 1..(2 * n)
    OBVIOUS
  <2>2. s[2 * k - 1] = p[2 * k - 1] /\ s[2 * k] = p[2 * k]
    BY <1>2, <2>1
  <2> QED
    BY <2>2
<1>7. s[Len(s) - 1] = z /\ s[Len(s)] = m
  <2>1. Len(s) - 1 = 2 * n + 1 /\ Len(s) = 2 * n + 2
    BY <1>2
  <2> QED
    BY <1>2, <2>1
<1>8. n \in 0..Len(All) /\ n - 0 = n /\ \A k : k \in Int => 0 + k = k
  OBVIOUS
<1>9. ExportLeft(s)
  <2>1. \A k \in 1..(n - 0) :
               /\ Len(s[2 * k - 1]) = 4 /\ Number(s[2 * k - 1][4]) # 0
               /\ Len(s[2 * k]) = 1 /\ s[2 * k][1] = All[0 + k]
    BY <1>6, <1>8
  <2>2. Len(s) = 2 * (n - 0) + 2
    BY <1>2, <1>8
  <2> DEFINE have == 0
  <2>3. Len(export) = have /\ have <= Len(All) /\ \A k \in 1..have : export[k] = All[k]
    BY <1>5
  <2> QED
    BY <1>4, <1>5, <1>7, <1>8, <2>1, <2>2, <2>3 DEF ExportLeft, LeftFrom
<1> QED
  BY <1>9 DEF s, t

LEMMA ServeExportCopies ==
  ASSUME SessionInv, CopyInv, NEW n \in 0..Cardinality(Ids), ServeExport(n)
  PROVE  ExportInv' /\ ImportInv'
<1> DEFINE ids == UniqueIds(index)
           ok == AllSent(ids, n)
           m == Message(IF ok THEN OK ELSE 1, 0, 0)
           recs == Append(Append(SizedEntries(ids, n), Word(0)), m)
           some == ids # <<>>
<1>1. /\ server = "serve" /\ request.cmd = Cmd.export /\ UNCHANGED <<db, clientOn, using, search>>
      /\ server' = "accept" /\ serverOn' = FALSE
  BY DEF ServeExport, Serving, HangUp
<1>2. job.cmd = Cmd.export /\ request.cmd # Cmd.find
  BY <1>1, ServesTheJob, CmdFacts
<1>3. \/ n \in Sendable(ids) /\ toClient' = SentBack(recs)
      \/ Reply(some, 0, <<>>)
  BY DEF ServeExport, Reply
<1>4. Typed
  BY DEF SessionInv
<1>5. ImportInv'
  BY <1>1, <1>2, CmdFacts, Elsewhere DEF using
<1>6. CASE ~ clientOn
  <2>1. toClient' = toClient
    BY <1>3, <1>6 DEF SentBack, Reply
  <2> QED
    BY <1>1, <1>5, <1>6, <2>1, ExportKept DEF CopyInv, db, using
<1>7. CASE clientOn
  <2>1. client \in {"prompt", "receiving", "sending", "response"} /\ toClient = <<>> /\ serverOn
    BY <1>1, <1>2, <1>7, WaitsForCopy
  <2>2. client \in {"prompt", "receiving"}
    BY <1>1, <1>2, <1>7, <2>1, CmdFacts DEF CopyInv, ExportInv, SessionInv, JobKnown
  <2>3. export = <<>>
    BY <1>1, <1>2, <1>7, <2>2 DEF CopyInv, ExportInv
  <2>4. CASE n \in Sendable(ids) /\ toClient' = SentBack(recs)
    <3> DEFINE p == SizedEntries(ids, n)
    <3>1. ids \in Seq(Ids) /\ Len(All) = Len(ids) /\ Len(All) \in Nat
          /\ \A k \in 1..Len(All) : All[k] = [entry |-> file[ids[k]]]
      BY <1>4, AllFacts
    <3>2. n \in 0..Len(ids)
      BY <2>4 DEF Sendable
    <3>3. ok => n = Len(All)
      BY <3>1 DEF AllSent
    <3> HIDE DEF ids, ok
    <3>4. IsSeq(p) /\ Len(p) = 2 * n
          /\ \A k \in 1..n : p[2 * k - 1] = Word(1) /\ p[2 * k] = <<[entry |-> file[ids[k]]]>>
      BY <3>1, <3>2, ExportAt
    <3>5. ASSUME NEW k \in 1..n
          PROVE  /\ IsSeq(p[2 * k - 1]) /\ Len(p[2 * k - 1]) = 4 /\ Number(p[2 * k - 1][4]) # 0
                 /\ IsSeq(p[2 * k]) /\ Len(p[2 * k]) = 1 /\ p[2 * k][1] = All[k]
      <4>1. k \in 1..Len(All)
        BY <3>1, <3>2
      <4>2. p[2 * k - 1] = Word(1) /\ p[2 * k] = <<All[k]>>
        BY <3>1, <3>4, <4>1
      <4>3. IsSeq(<<All[k]>>) /\ Len(<<All[k]>>) = 1 /\ <<All[k]>>[1] = All[k]
        BY TupleFacts
      <4>4. IsSeq(Word(1)) /\ Len(Word(1)) = 4 /\ Number(Word(1)[4]) # 0
        BY WordFacts, NumberFacts
      <4> HIDE DEF p
      <4> QED
        BY <4>2, <4>3, <4>4
    <3>6. IsSeq(Word(0)) /\ Len(Word(0)) = 4 /\ Number(Word(0)[4]) = 0
      BY WordFacts, NumberFacts
    <3>7. IsSeq(m) /\ Len(m) = 12 /\ (Number(m[4]) = OK => n = Len(All))
      <4> DEFINE c == IF ok THEN OK ELSE 1
      <4>1. c \in Nat /\ (c = OK => ok)
        BY CmdFacts
      <4> HIDE DEF c
      <4>2. IsSeq(m) /\ Len(m) = 12 /\ Number(m[4]) = c
        BY <4>1, MessageFacts DEF c
      <4> QED
        BY <3>3, <4>1, <4>2
    <3> HIDE DEF p, m
    <3>8. ExportLeft(Append(Append(p, Word(0)), m))
      <4>1. n \in Nat /\ n <= Len(All)
        BY <3>1, <3>2
      <4> QED
        BY <2>3, <3>1, <3>4, <3>5, <3>6, <3>7, <4>1, ExportFrom
    <3>9. ExportLeft(recs)
      BY <3>8 DEF p
    <3>10. toClient' = recs
      <4>1. IsSeq(recs)
        BY <3>9 DEF ExportLeft, LeftFrom, IsStream
      <4> HIDE DEF recs
      <4> QED
        BY <1>7, <2>1, <2>4, <4>1, JoinEmpty DEF SentBack
    <3> HIDE DEF recs
    <3>11. All' = All /\ export' = export
      BY <1>1 DEF All, db, using
    <3>12. ExportLeft(toClient)'
      BY <3>9, <3>10, <3>11 DEF ExportLeft, LeftFrom
    <3>13. ExportInv'
      BY <1>1, <1>2, <1>7, <2>2, <3>12 DEF ExportInv, Ended, using
    <3> QED
      BY <1>5, <3>13
  <2>5. CASE Reply(some, 0, <<>>)
    <3>1. PICK reply : toClient' = SentBack(reply) /\ IsStream(reply) /\ Len(reply) = 1 /\ Len(reply[1]) = 12
      <4>1. some \in BOOLEAN /\ 0 \in Nat
        OBVIOUS
      <4> HIDE DEF some, recs, m, ok, ids
      <4> QED
        BY <2>5, <4>1, ReplyAlone
    <3>2. toClient' = reply
      BY <1>7, <2>1, <3>1, JoinEmpty DEF SentBack, IsStream
    <3>3. IsNo(toClient')
      <4> HIDE DEF some, recs, m, ok, ids
      <4> DEFINE l == Len(reply[1])
      <4>1. IsStream(reply) /\ Len(reply) = 1 /\ l = 12
        BY <3>1
      <4> HIDE DEF l
      <4>2. l <= 12
        BY <4>1
      <4>3. IsNo(reply)
        BY <4>1, <4>2 DEF IsNo, l
      <4> QED
        BY <3>2, <4>3
    <3>4. ExportInv'
      BY <1>1, <1>2, <1>7, <2>2, <3>3 DEF ExportInv, Ended, using
    <3> QED
      BY <1>5, <3>4
  <2> QED
    BY <1>3, <2>4, <2>5
<1> QED
  BY <1>6, <1>7

\* What is taken of a status is no status, and a whole one is what it is.
LEMMA StatusRead ==
  ASSUME NEW s, NEW holds, IsStatus(s, holds),
         Len(Taken(s, 12)) = 12, Number(Taken(s, 12)[4]) = OK
  PROVE  s # <<>> /\ holds
<1>1. s # <<>>
  BY TupleFacts DEF Taken
<1>2. IsStream(s) /\ Len(s[1]) <= 12 /\ (Len(s[1]) = 12 /\ Number(s[1][4]) = OK => holds)
  BY <1>1 DEF IsStatus
<1>3. Len(Taken(s, 12)) = Len(s[1])
  BY <1>1, <1>2, TakenWhole
<1>4. Taken(s, 12)[4] = s[1][4]
  BY <1>1, <1>2, <1>3, TakenCells
<1> QED
  BY <1>1, <1>2, <1>3, <1>4

LEMMA ResponseCopies == ASSUME SessionInv, CopyInv, Response PROVE ExportInv' /\ ImportInv'
<1> DEFINE status == IF Len(Taken(toClient, 12)) = 12 THEN Number(Taken(toClient, 12)[4]) ELSE 1
<1>1. client = "response" /\ client' = "off" /\ code' = status
      /\ UNCHANGED <<db, toServer, serverOn, serving, job, shown, unsent, export, search>>
  BY DEF Response, End
<1> USE DEF db, serving
<1>2. SUFFICES ASSUME Ended', job.cmd \in {Cmd.export, Cmd.import} PROVE ExportInv' /\ ImportInv'
  BY <1>1, Elsewhere
<1>3. Len(Taken(toClient, 12)) = 12 /\ Number(Taken(toClient, 12)[4]) = OK
  <2>1. status = OK
    BY <1>1, <1>2 DEF Ended
  <2> QED
    BY <2>1, CmdFacts
<1> HIDE DEF status
<1>4. toClient # <<>>
  BY <1>3, TupleFacts DEF Taken
<1>5. clientOn /\ server = "accept" /\ ~ serverOn
  BY <1>1, <1>2, <1>4 DEF CopyInv, ExportInv, ImportInv, SessionInv, Heard
<1>6. CASE job.cmd = Cmd.export
  <2>1. IsStatus(toClient, Complete)
    BY <1>1, <1>6 DEF CopyInv, ExportInv
  <2>2. Complete
    BY <1>3, <2>1, StatusRead
  <2>3. Complete'
    <3>1. All' = All /\ export' = export
      BY <1>1 DEF All
    <3> QED
      BY <2>2, <3>1 DEF Complete
  <2>4. ExportInv'
    BY <1>1, <1>5, <2>2, <2>3 DEF ExportInv
  <2> QED
    BY <1>1, <1>6, <2>4, CmdFacts, Elsewhere
<1>7. CASE job.cmd = Cmd.import
  <2>1. IsStatus(toClient, client = "response" /\ Imported)
    BY <1>1, <1>7 DEF CopyInv, ImportInv
  <2>2. Imported
    BY <1>3, <2>1, StatusRead
  <2>3. Imported'
    BY <1>1, <2>2 DEF Imported
  <2>4. SentFirst'
    BY <1>1, <1>7, SendsKept DEF CopyInv, ImportInv
  <2>5. ImportInv'
    BY <1>1, <1>5, <2>3, <2>4 DEF ImportInv
  <2> QED
    BY <1>1, <1>7, <2>5, CmdFacts, Elsewhere
<1> QED
  BY <1>2, <1>6, <1>7

LEMMA PromptCopies ==
  ASSUME SessionInv, CopyInv, ExportPasswd \/ \E right \in BOOLEAN : ImportPasswd(right)
  PROVE  ExportInv' /\ ImportInv'
<1>1. CASE ExportPasswd
  <2>1. /\ client = "prompt" /\ job.cmd = Cmd.export /\ export' = <<>> /\ client' = "receiving"
        /\ UNCHANGED <<db, link, serving, job>>
    BY <1>1 DEF ExportPasswd
  <2> USE DEF db, link, serving
  <2>2. export = <<>>
    BY <2>1, CmdFacts DEF SessionInv, Typed
  <2>3. All' = All
    BY <2>1 DEF All
  <2>4. ExportLeft(toClient) => ExportLeft(toClient)'
    BY <2>1, <2>2, <2>3 DEF ExportLeft, LeftFrom
  <2>5. ExportInv'
    BY <2>1, <2>4 DEF CopyInv, ExportInv, Ended
  <2> QED
    BY <2>1, <2>5, CmdFacts, Elsewhere
<1>2. ASSUME NEW right \in BOOLEAN, ImportPasswd(right) PROVE ExportInv' /\ ImportInv'
  <2>1. /\ client = "prompt" /\ job.cmd = Cmd.import /\ unsent' = (IF right THEN export ELSE <<>>)
        /\ client' = "sending"
        /\ UNCHANGED <<db, link, serving, job, shown, export>>
    BY <1>2 DEF ImportPasswd
  <2> USE DEF db, link, serving
  <2>2. shown = <<>>
    BY <2>1 DEF CopyInv, ImportInv
  <2>3. \/ shown' = <<>> /\ unsent' = <<>>
        \/ SentFirst' /\ SendsRest'
    <3>1. CASE right
      <4>1. IsSeq(shown') /\ Len(shown') = 0 /\ unsent' = export' /\ Len(export') \in Nat
        BY <2>1, <2>2, <3>1, TupleFacts, IsSeqFacts DEF SessionInv, Typed
      <4>2. SentFirst'
        BY <4>1 DEF SentFirst
      <4>3. SendsRest'
        <5>1. \A k \in 1..Len(export') : 0 + k = k
          OBVIOUS
        <5> QED
          BY <4>1, <5>1 DEF SendsRest
      <4> QED
        BY <4>2, <4>3
    <3>2. CASE ~ right
      BY <2>1, <2>2, <3>2
    <3> QED
      BY <3>1, <3>2
  <2>4. \A n : Counts(toServer, n) => Counts(toServer, n)'
    BY <2>1 DEF Counts, CountsOf
  <2>5. IsStatus(toClient, client = "response" /\ Imported) => IsStatus(toClient, client = "response" /\ Imported)'
    BY <2>1 DEF IsStatus
  <2>6. ImportInv'
    BY <2>1, <2>3, <2>4, <2>5 DEF CopyInv, ImportInv, Ended
  <2> QED
    BY <2>1, <2>6, CmdFacts, Elsewhere
<1> QED
  BY <1>1, <1>2

LEMMA HelloCopies == ASSUME SessionInv, CopyInv, NEW kek, Hello(kek) PROVE ExportInv' /\ ImportInv'
<1> DEFINE key == [k \in 1..KekLen |-> kek]
           kekRecord == IF kek \in Passwords /\ toClient # <<>> THEN <<key>> ELSE <<>>
<1>1. /\ client = "hello" /\ toServer' = SentOn(kekRecord \o FirstRequest)
      /\ toClient' = Left(toClient, 1) /\ client' = NextStep
      /\ UNCHANGED <<db, clientOn, serverOn, serving, job, shown, unsent, code, export, search>>
  BY DEF Hello
<1> USE DEF db, serving
<1>2. /\ toServer = <<>> /\ shown = <<>> /\ server \in {"accept", "kek"}
      /\ toClient \in {<<>>, <<<<"kdfp">>>>}
  BY <1>1 DEF SessionInv, Present
<1>3. toClient' = <<>>
  <2>1. Left(<<>>, 1) = <<>> /\ Left(<<<<"kdfp">>>>, 1) = <<>>
    BY DEF Left
  <2> QED
    BY <1>1, <1>2, <2>1
<1>4. CASE job.cmd \notin {Cmd.export, Cmd.import}
  BY <1>1, <1>4, Elsewhere
<1>5. client' = "prompt" \/ job.cmd \notin {Cmd.export, Cmd.import}
  BY <1>1, CmdFacts DEF NextStep
<1>6. CASE job.cmd = Cmd.export
  <2>1. export = <<>>
    BY <1>1, <1>6, CmdFacts DEF SessionInv, Typed
  <2>2. ExportInv'
    BY <1>1, <1>3, <1>5, <1>6, <2>1 DEF ExportInv, Ended
  <2> QED
    BY <1>1, <1>6, <2>2, CmdFacts, Elsewhere
<1>7. CASE job.cmd = Cmd.import
  <2> DEFINE req == Message(job.cmd, 0, 0)
  <2>1. FirstRequest = <<req>>
    BY <1>7, CmdFacts DEF FirstRequest
  <2>2. IsSeq(req) /\ Len(req) = 12 /\ Number(req[8]) = 0
    BY <1>7, CmdFacts, MessageFacts
  <2> HIDE DEF req, key
  <2>3. \E m \in {0, 1} : Len(kekRecord \o <<req>>) + m = 2 /\ (kekRecord \o <<req>>)[2 - m] = req
    <3>1. IsSeq(<<req>>) /\ Len(<<req>>) = 1 /\ <<req>>[1] = req
      BY TupleFacts
    <3>2. CASE kekRecord = <<>>
      <4>1. kekRecord \o <<req>> = <<req>>
        BY <3>1, <3>2, JoinEmpty
      <4> QED
        BY <3>1, <4>1
    <3>3. CASE kekRecord = <<key>>
      <4> DEFINE a == <<key>>  b == <<req>>  c == a \o b
      <4>1. IsSeq(a) /\ Len(a) = 1 /\ IsSeq(b) /\ Len(b) = 1 /\ b[1] = req
        BY <3>1, TupleFacts
      <4> HIDE DEF a, b
      <4>2. Len(c) = Len(a) + Len(b) /\ \A k \in 1..Len(b) : c[Len(a) + k] = b[k]
        <5>1. IsSeq(a) /\ IsSeq(b)
          BY <4>1
        <5> QED
          BY <5>1, JoinFacts
      <4> HIDE DEF c
      <4>3. Len(c) = 2 /\ c[2] = req
        BY <4>1, <4>2
      <4>4. Len(c) + 0 = 2 /\ c[2 - 0] = req /\ 0 \in {0, 1}
        BY <4>3
      <4> QED
        BY <3>3, <4>4 DEF a, b, c
    <3> QED
      BY <3>2, <3>3
  <2> DEFINE s == kekRecord \o <<req>>
  <2>4. IsSeq(s)
    <3>1. IsSeq(kekRecord) /\ IsSeq(<<req>>)
      BY TupleFacts
    <3> HIDE DEF kekRecord
    <3> QED
      BY <3>1, JoinFacts
  <2> HIDE DEF s, kekRecord
  <2>5. PICK m \in {0, 1} : Len(s) + m = 2 /\ s[2 - m] = req
    BY <2>3 DEF s
  <2>6. DOMAIN s = 1..(2 - m)
    BY <2>4, <2>5, IsSeqFacts
  <2>7. ASSUME serverOn PROVE Counts(toServer, m)'
    <3>1. toServer' = s
      <4>1. toServer' = <<>> \o s
        BY <1>1, <1>2, <2>1, <2>7 DEF SentOn, s
      <4> QED
        BY <2>4, <4>1, JoinEmpty
    <3>2. Len(shown') = 0 /\ client' # "response"
      BY <1>1, <1>2, <1>5, <1>7, TupleFacts
    <3>3. Len(s) + m = 2 * 0 + 2
      BY <2>5
    <3>4. ASSUME NEW k \in DOMAIN s
          PROVE  /\ m + k - 1 = 1 => Len(s[k]) = 12 /\ Number(s[k][8]) = 0
                 /\ \A p \in Nat : m + k - 1 = 2 * p + 2 => (Number(s[k][4]) = 0 <=> p = 0)
      <4>1. k \in 1..(2 - m)
        BY <2>6
      <4>2. m + k - 1 = 1 => k = 2 - m
        BY <4>1
      <4>3. m + k - 1 <= 1
        BY <4>1
      <4>4. \A p \in Nat : m + k - 1 # 2 * p + 2
        BY <4>1, <4>3
      <4> QED
        BY <2>2, <2>5, <4>2, <4>4
    <3> QED
      BY <3>1, <3>2, <3>3, <3>4 DEF Counts, CountsOf
  <2>8. IsStream(<<>>)
    BY TupleStream
  <2>9. server' = "accept" \/ server' = "kek"
    BY <1>1, <1>2
  <2>10. ImportInv'
    BY <1>1, <1>2, <1>3, <1>5, <1>7, <2>7, <2>8, <2>9 DEF ImportInv, IsStatus, Ended
  <2> QED
    BY <1>1, <1>7, <2>10, CmdFacts, Elsewhere
<1> QED
  BY <1>4, <1>6, <1>7

LEMMA CountsTail ==
  ASSUME NEW s, IsStream(s), s # <<>>, NEW m \in Nat, Counts(s, m), NEW n, n = m + 1
  PROVE  Counts(Tail(s), n)
<1> DEFINE t == Tail(s)  l == Len(s)  b == 2 * Len(shown) + (IF client = "response" THEN 3 ELSE 2)
<1>1. /\ IsStream(t) /\ Len(t) = l - 1 /\ l \in Nat /\ DOMAIN s = 1..l /\ DOMAIN t = 1..Len(t)
      /\ \A k \in 1..(l - 1) : t[k] = s[k + 1]
  BY TailShape, StreamShape
<1>2. l + m = b
  BY DEF Counts, CountsOf
<1>3. Len(t) + n = b
  <2> HIDE DEF t, l, b
  <2> QED
    BY <1>1, <1>2
<1>4. ASSUME NEW k \in DOMAIN t
      PROVE  /\ n + k - 1 = 1 => Len(t[k]) = 12 /\ Number(t[k][8]) = 0
             /\ \A p \in Nat : n + k - 1 = 2 * p + 2 => (Number(t[k][4]) = 0 <=> p = Len(shown))
  <2> HIDE DEF t, l
  <2>1. k \in 1..(l - 1) /\ k + 1 \in 1..l
    BY <1>1
  <2>2. t[k] = s[k + 1] /\ k + 1 \in DOMAIN s /\ n + k - 1 = m + (k + 1) - 1
    BY <1>1, <2>1
  <2> QED
    BY <2>2 DEF Counts, CountsOf
<1> QED
  BY <1>3, <1>4 DEF Counts, CountsOf

\* The server reads the first record of an import that counts, and the rest does.
LEMMA ReadsCounted ==
  ASSUME ImportInv, server # "accept",
         UNCHANGED <<toClient, clientOn, client, job, code, export, shown, unsent, served>>,
         job.cmd = Cmd.import /\ client \in {"prompt", "sending", "response"} /\ serverOn' =>
           /\ server' = "kek" => \E m \in {0, 1} : Counts(toServer, m)'
           /\ server' = "loop" => Counts(toServer, 1)'
           /\ server' = "import" => Counts(toServer, 2 * request.arg + 2)'
  PROVE  ImportInv'
<1>1. Imported' = Imported /\ \A a : IsStatus(toClient, a) <=> IsStatus(toClient', a)
  BY DEF Imported, IsStatus
<1>2. ~ Ended' \/ job.cmd # Cmd.import
  BY DEF ImportInv, Ended
<1>3. job'.cmd = job.cmd /\ client' = client
  OBVIOUS
<1>4. CASE job.cmd = Cmd.import /\ client \in {"prompt", "sending", "response"}
  BY <1>1, <1>2, <1>4, SendsKept DEF ImportInv
<1>5. CASE job.cmd # Cmd.import \/ client \notin {"prompt", "sending", "response"}
  BY <1>2, <1>3, <1>5, Elsewhere
<1> QED
  BY <1>4, <1>5

LEMMA ReadKekCounts == ASSUME SessionInv, CopyInv, ReadKek PROVE ImportInv'
<1>1. server = "kek" /\ UNCHANGED <<toClient, clientOn, served, using>>
  BY DEF ReadKek
<1> USE DEF using
<1> SUFFICES ASSUME job.cmd = Cmd.import, client \in {"prompt", "sending", "response"}, serverOn'
             PROVE  server' = "loop" /\ Counts(toServer, 1)'
  BY <1>1, ReadsCounted DEF CopyInv
<1>2. /\ Len(Taken(toServer, KekLen)) = KekLen
      /\ server' = "loop" /\ toServer' = Left(toServer, KekLen) /\ UNCHANGED serverOn
  BY DEF ReadKek, HangUp
<1>3. toServer # <<>> /\ ~ Idle
  BY <1>2, TupleFacts, NotIdle DEF Taken, KekLen
<1>4. PICK m \in {0, 1} : Counts(toServer, m)
  BY <1>1, <1>2 DEF CopyInv, ImportInv
<1>5. PICK cmd \in Asked : \E l \in {0, 1} : Rest(toServer, l, cmd, job)
  BY <1>1, <1>3 DEF SessionInv, Understood
<1>6. IsStream(toServer) /\ Len(toServer[1]) \in {KekLen, 12}
  <2>1. PICK l \in {0, 1} : Rest(toServer, l, cmd, job)
    BY <1>5
  <2>2. Fits(toServer[1], l, cmd, job) /\ IsStream(toServer)
    BY <1>3, <2>1, RestFirst
  <2> QED
    BY <2>2 DEF Fits
<1>7. Len(toServer[1]) # 12
  <2>1. Len(toServer[1]) = 12 => Len(Taken(toServer, KekLen)) = 12
    BY <1>3, <1>6, TakenCells
  <2> QED
    BY <1>2, <2>1 DEF KekLen
<1>8. Left(toServer, KekLen) = Tail(toServer)
  BY <1>3, <1>6, <1>7, TakenCells
<1>9. m = 0
  <2>1. 1 \in DOMAIN toServer
    BY <1>3, <1>6, StreamShape
  <2>2. m = 1 => m + 1 - 1 = 1
    OBVIOUS
  <2> QED
    BY <1>4, <1>7, <2>1, <2>2 DEF Counts, CountsOf
<1>10. Counts(Tail(toServer), 1)
  BY <1>3, <1>4, <1>6, <1>9, CountsTail
<1>11. Counts(toServer, 1)'
  BY <1>1, <1>2, <1>8, <1>10 DEF Counts, CountsOf
<1> QED
  BY <1>2, <1>11

LEMMA ReadMessageCounts == ASSUME SessionInv, CopyInv, ReadMessage PROVE ImportInv'
<1> DEFINE msg == Taken(toServer, 12)
<1>1. server = "loop" /\ UNCHANGED <<toClient, clientOn, served, using>> /\ server' \in {"accept", "body", "import", "serve"}
  BY DEF ReadMessage, HangUp
<1> USE DEF using
<1>0. server # "accept" /\ server' \notin {"kek", "loop"}
  BY <1>1
<1> SUFFICES ASSUME job.cmd = Cmd.import, client \in {"prompt", "sending", "response"}, serverOn'
             PROVE  Counts(toServer, 2 * request.arg + 2)'
  BY <1>0, <1>1, ReadsCounted DEF CopyInv
<1>2. Len(msg) = 12 /\ request'.arg = Number(msg[8]) /\ toServer' = Left(toServer, 12) /\ UNCHANGED serverOn
  <2>1. ~ HangUp
    BY DEF HangUp
  <2>2. /\ Len(msg) = 12 /\ request' = [cmd |-> Number(msg[4]), arg |-> Number(msg[8])]
        /\ toServer' = Left(toServer, 12) /\ UNCHANGED serverOn
    BY <2>1 DEF ReadMessage
  <2> QED
    BY <2>2
<1>3. toServer # <<>> /\ ~ Idle
  BY <1>2, TupleFacts, NotIdle DEF Taken
<1>4. Counts(toServer, 1)
  BY <1>1, <1>2 DEF CopyInv, ImportInv
<1>5. PICK cmd \in Asked : Rest(toServer, 1, cmd, job)
  BY <1>1, <1>3 DEF SessionInv, Understood
<1>6. IsStream(toServer) /\ Len(toServer[1]) = 12
  <2>1. Fits(toServer[1], 1, cmd, job) /\ IsStream(toServer)
    BY <1>3, <1>5, RestFirst
  <2> QED
    BY <2>1 DEF Fits
<1>7. Left(toServer, 12) = Tail(toServer) /\ msg[8] = toServer[1][8]
  BY <1>3, <1>6, TakenCells
<1>8. Number(toServer[1][8]) = 0
  <2>1. 1 \in DOMAIN toServer
    BY <1>3, <1>6, StreamShape
  <2> QED
    BY <1>4, <2>1 DEF Counts, CountsOf
<1>9. request'.arg = 0
  BY <1>2, <1>7, <1>8
<1>10. Counts(Tail(toServer), 2 * request'.arg + 2)
  <2>1. 2 * request'.arg + 2 = 1 + 1
    BY <1>9
  <2> QED
    BY <1>3, <1>4, <1>6, <2>1, CountsTail
<1> QED
  BY <1>1, <1>2, <1>7, <1>10 DEF Counts, CountsOf

LEMMA ReadRestCounts == ASSUME SessionInv, CopyInv, ReadBody \/ ReadValue PROVE ImportInv'
<1>1. /\ server \in {"body", "value"} /\ UNCHANGED <<toClient, clientOn, served, using>>
      /\ server' \in {"accept", "down", "value", "serve"}
  BY DEF ReadBody, ReadValue, HangUp
<1> QED
  BY <1>1, ReadsCounted DEF CopyInv, using

\* Reply sends one status.
LEMMA StatusSent ==
  ASSUME NEW ok \in BOOLEAN, NEW count \in Nat, Reply(ok, count, <<>>), toClient = <<>>, NEW holds, ok => holds
  PROVE  IsStatus(toClient', holds)
<1>1. PICK recs : /\ toClient' = SentBack(recs) /\ IsStream(recs)
                  /\ Len(recs) = 1 /\ Len(recs[1]) = 12
                  /\ (Number(recs[1][4]) = OK) = ok
  BY ReplyAlone
<1>2. toClient' = recs \/ toClient' = <<>>
  BY <1>1, JoinEmpty DEF SentBack, IsStream
<1>3. IsStream(<<>>)
  BY TupleStream
<1>4. IsStatus(recs, holds)
  BY <1>1 DEF IsStatus
<1>5. IsStatus(<<>>, holds)
  BY <1>3 DEF IsStatus
<1> QED
  BY <1>2, <1>4, <1>5

\* What an import sends is under way to the server until it is served.
LEMMA ImportUnderWay ==
  ASSUME SessionInv, CopyInv, server = "import"
  PROVE  /\ RequestKnown /\ request.cmd = Cmd.import /\ job.cmd = Cmd.import /\ request.arg \in Nat
         /\ Rest(toServer, 2, Cmd.import, job)
         /\ clientOn => client \in {"prompt", "sending", "response"} /\ toClient = <<>> /\ serverOn
                        /\ Counts(toServer, 2 * request.arg + 2)
<1>1. RequestKnown /\ request.cmd = Cmd.import /\ Rest(toServer, 2, Cmd.import, job)
  BY NotIdle DEF SessionInv, Understood
<1>2. job.cmd = Cmd.import /\ request.arg \in Nat /\ request.cmd # Cmd.find
  BY <1>1, ServesTheJob, CmdFacts DEF RequestKnown
<1>3. ASSUME clientOn PROVE client \in {"prompt", "sending", "response"} /\ toClient = <<>> /\ serverOn
  <2>1. client \in {"prompt", "receiving", "sending", "response"} /\ toClient = <<>> /\ serverOn
    BY <1>2, <1>3, WaitsForCopy
  <2> QED
    BY <1>2, <2>1, CmdFacts DEF SessionInv, JobKnown
<1>4. clientOn => Counts(toServer, 2 * request.arg + 2)
  BY <1>2, <1>3 DEF CopyInv, ImportInv
<1> QED
  BY <1>1, <1>2, <1>3, <1>4

LEMMA ImportEndsCopies == ASSUME SessionInv, CopyInv, ImportEnds PROVE ExportInv' /\ ImportInv'
<1> DEFINE done == [cmd |-> Cmd.import, ok |-> TRUE, count |-> request.arg]
<1>1. /\ server = "import" /\ ServerReads
      /\ NumberIn(Taken(toServer, 4)) # 0 => ~ clientOn
      /\ Reply(TRUE, request.arg, <<>>) /\ served' = Append(served, done)
      /\ server' = "accept" /\ serverOn' = FALSE /\ UNCHANGED <<db, clientOn, using>>
  BY DEF ImportEnds, ServerHears, Done, HangUp
<1> USE DEF using
<1>2. job.cmd = Cmd.import /\ request.arg \in Nat /\ Rest(toServer, 2, Cmd.import, job)
      /\ (clientOn => client \in {"prompt", "sending", "response"} /\ toClient = <<>> /\ serverOn
                      /\ Counts(toServer, 2 * request.arg + 2))
  BY <1>1, ImportUnderWay
<1>3. ExportInv'
  BY <1>1, <1>2, CmdFacts, Elsewhere
<1>4. ~ Ended /\ ~ Ended'
  BY <1>1, <1>2 DEF CopyInv, ImportInv, Ended
<1>5. CASE ~ clientOn
  <2>1. toClient' = toClient
    BY <1>1, <1>5 DEF Reply, SentBack
  <2>2. client \in {"prompt", "sending", "response"} => toClient = <<>>
    BY <1>2, <1>5 DEF CopyInv, ImportInv
  <2>3. \A a : IsStatus(<<>>, a)
    BY TupleStream DEF IsStatus
  <2>4. ImportInv'
    BY <1>1, <1>2, <1>4, <2>1, <2>2, <2>3, SendsKept DEF CopyInv, ImportInv
  <2> QED
    BY <1>3, <2>4
<1>6. CASE clientOn
  <2>1. toServer # <<>> /\ NumberIn(Taken(toServer, 4)) = 0
    BY <1>1, <1>6 DEF ServerReads, ServerHears
  <2>2. IsStream(toServer) /\ Fits(toServer[1], 2, Cmd.import, job)
    BY <1>2, <2>1, RestFirst
  <2>3. Len(toServer[1]) = 4
    BY <2>2, CmdFacts DEF Fits
  <2>4. Number(toServer[1][4]) = 0
    BY <2>1, <2>2, <2>3, ReceiveAtSize
  <2>5. 1 \in DOMAIN toServer /\ Len(toServer) \in Nat /\ Len(toServer) # 0
    BY <2>1, <2>2, StreamShape
  <2>6. request.arg = Len(shown)
    <3>1. 2 * request.arg + 2 + 1 - 1 = 2 * request.arg + 2
      BY <1>2
    <3> QED
      BY <1>2, <1>6, <2>4, <2>5, <3>1 DEF Counts, CountsOf
  <2>7. client = "response"
    <3> DEFINE l == Len(toServer)  a == request.arg
    <3>1. l + (2 * a + 2) = 2 * a + (IF client = "response" THEN 3 ELSE 2) /\ l \in Nat /\ l # 0 /\ a \in Nat
      BY <1>2, <1>6, <2>5, <2>6 DEF Counts, CountsOf
    <3> HIDE DEF l, a
    <3> QED
      BY <3>1
  <2>9. Imported'
    <3>1. IsSeq(served)
      BY DEF SessionInv, DoneRight
    <3>2. done.cmd = Cmd.import /\ done.count = request.arg
      OBVIOUS
    <3> HIDE DEF done
    <3>3. served' # <<>> /\ Last(served') = done
      <4>1. IsSeq(served') /\ Len(served') = Len(served) + 1 /\ served'[Len(served) + 1] = done /\ Len(served) \in Nat
        BY <1>1, <3>1, AppendFacts, IsSeqFacts
      <4>2. Len(served') # 0
        BY <4>1
      <4> QED
        BY <4>1, <4>2, IsSeqFacts DEF Last
    <3> QED
      BY <1>1, <2>6, <3>2, <3>3 DEF Imported
  <2>10. IsStatus(toClient', (client = "response" /\ Imported)')
    <3>1. TRUE \in BOOLEAN /\ (client = "response" /\ Imported)'
      BY <1>1, <2>7, <2>9
    <3> QED
      BY <1>1, <1>2, <1>6, <3>1, StatusSent
  <2>11. ImportInv'
    BY <1>1, <1>2, <1>4, <1>6, <2>7, <2>10, SendsKept DEF CopyInv, ImportInv
  <2> QED
    BY <1>3, <2>11
<1> QED
  BY <1>5, <1>6

LEMMA ImportPairRead ==
  ASSUME Rest(toServer, 2, Cmd.import, job), NumberIn(Taken(toServer, 4)) # 0, Left(toServer, 4) # <<>>
  PROVE  /\ IsStream(toServer) /\ toServer # <<>> /\ Tail(toServer) # <<>> /\ IsStream(Tail(toServer))
         /\ Left(Left(toServer, 4), 1) = Tail(Tail(toServer))
<1>1. toServer # <<>>
  <2>1. Taken(<<>>, 4) = <<>> /\ NumberIn(<<>>) = 0
    BY TupleFacts DEF Taken, NumberIn
  <2> QED
    BY <2>1
<1>2. Fits(toServer[1], 2, Cmd.import, job) /\ Rest(Tail(toServer), 3, Cmd.import, job) /\ IsStream(toServer)
  <2>1. Rest(Tail(toServer), 2 + 1, Cmd.import, job) /\ 2 + 1 = 3
    BY <1>1, RestFirst
  <2> QED
    BY <1>1, <2>1, RestFirst
<1>3. Len(toServer[1]) = 4
  BY <1>2, CmdFacts DEF Fits
<1>4. Left(toServer, 4) = Tail(toServer)
  BY <1>1, <1>2, <1>3, TakenCells
<1> DEFINE t == Tail(toServer)
<1>5. t # <<>> /\ Rest(t, 3, Cmd.import, job)
  BY <1>2, <1>4
<1> HIDE DEF t
<1>6. Fits(t[1], 3, Cmd.import, job) /\ IsStream(t)
  BY <1>5, RestFirst
<1>7. Len(t[1]) = 1
  BY <1>6, CmdFacts DEF Fits
<1>8. Left(t, 1) = Tail(t)
  BY <1>5, <1>6, <1>7, TakenCells
<1> QED
  BY <1>1, <1>2, <1>4, <1>5, <1>6, <1>8 DEF t

LEMMA ImportAddsCopies ==
  ASSUME SessionInv, CopyInv, NEW i \in Ids, NEW good \in BOOLEAN, ImportAdds(i, good)
  PROVE  ExportInv' /\ ImportInv'
<1>1. /\ server = "import" /\ NumberIn(Taken(toServer, 4)) # 0 /\ Left(toServer, 4) # <<>>
      /\ UNCHANGED <<clientOn, using>>
  BY DEF ImportAdds
<1> USE DEF using
<1>2. /\ job.cmd = Cmd.import /\ request.arg \in Nat /\ RequestKnown /\ Rest(toServer, 2, Cmd.import, job)
      /\ (clientOn => client \in {"prompt", "sending", "response"} /\ toClient = <<>> /\ serverOn
                      /\ Counts(toServer, 2 * request.arg + 2))
  BY <1>1, ImportUnderWay
<1>3. ExportInv'
  BY <1>1, <1>2, CmdFacts, Elsewhere
<1>4. ~ Ended /\ ~ Ended'
  BY <1>1, <1>2 DEF CopyInv, ImportInv, Ended
<1>5. CASE good
  <2>1. /\ request' = [request EXCEPT !.arg = request.arg + 1] /\ toServer' = Left(Left(toServer, 4), 1)
        /\ UNCHANGED <<server, serverOn, toClient, served>>
    BY <1>5 DEF ImportAdds
  <2>2. request'.arg = request.arg + 1
    BY <1>2, <2>1 DEF RequestKnown
  <2>3. /\ IsStream(toServer) /\ toServer # <<>> /\ Tail(toServer) # <<>> /\ IsStream(Tail(toServer))
        /\ toServer' = Tail(Tail(toServer))
    BY <1>1, <1>2, <2>1, ImportPairRead
  <2>4. ASSUME client \in {"prompt", "sending", "response"}, serverOn
        PROVE  Counts(toServer, 2 * request.arg + 2)'
    <3>1. clientOn
      BY <2>4 DEF SessionInv, Present
    <3> DEFINE a == request.arg  t == Tail(toServer)  n == 2 * a + 2
    <3>2. Counts(toServer, n) /\ a \in Nat /\ n \in Nat
      BY <1>2, <3>1
    <3>3. n + 1 \in Nat /\ 2 * (a + 1) + 2 = n + 1 + 1
      BY <3>2
    <3> HIDE DEF n
    <3>4. Counts(t, n + 1)
      BY <2>3, <3>2, CountsTail
    <3> HIDE DEF t
    <3>5. Counts(Tail(t), 2 * (a + 1) + 2)
      BY <2>3, <3>3, <3>4, CountsTail DEF t
    <3> QED
      BY <1>1, <2>2, <2>3, <3>5 DEF t, Counts, CountsOf
  <2>5. server # "accept" /\ server' = "import" /\ serverOn' = serverOn
    BY <1>1, <2>1
  <2>6. ImportInv'
    BY <1>1, <2>1, <2>4, <2>5, ReadsCounted DEF CopyInv
  <2> QED
    BY <1>3, <2>6
<1>6. CASE ~ good
  <2>1. Reply(FALSE, request.arg + 1, <<>>) /\ server' = "accept" /\ serverOn' = FALSE
    BY <1>6 DEF ImportAdds, HangUp
  <2>2. request.arg + 1 \in Nat /\ FALSE \in BOOLEAN
    BY <1>2
  <2>3. client \in {"prompt", "sending", "response"} =>
          /\ ~ clientOn => toClient' = <<>>
          /\ IsStatus(toClient', (client = "response" /\ Imported)')
    <3> SUFFICES ASSUME client \in {"prompt", "sending", "response"}
                 PROVE  /\ ~ clientOn => toClient' = <<>>
                        /\ IsStatus(toClient', (client = "response" /\ Imported)')
      OBVIOUS
    <3>1. toClient = <<>>
      BY <1>2 DEF CopyInv, ImportInv
    <3>2. ~ clientOn => toClient' = <<>>
      BY <2>1, <3>1 DEF Reply, SentBack
    <3> QED
      BY <2>1, <2>2, <3>1, <3>2, StatusSent
  <2>4. ImportInv'
    BY <1>1, <1>2, <1>4, <2>1, <2>3, SendsKept DEF CopyInv, ImportInv
  <2> QED
    BY <1>3, <2>4
<1> QED
  BY <1>5, <1>6

LEMMA CountsMore ==
  ASSUME NEW r, IsSeq(r), NEW s, IsSeq(s), NEW m \in Nat, NEW l \in Nat, NEW n \in Nat, NEW b \in Nat,
         \/ Len(s) = 2 /\ n = l + 1 /\ b = 2
         \/ Len(s) = 1 /\ n = l /\ b = 3,
         Number(s[1][4]) = 0 <=> l = n,
         CountsOf(r, m, l, 2)
  PROVE  CountsOf(r \o s, m, n, b)
<1> DEFINE u == r \o s  c == Len(r)  d == Len(s)  e == Len(u)
<1>1. IsSeq(u) /\ e = c + d /\ (\A k \in 1..c : u[k] = r[k]) /\ (\A k \in 1..d : u[c + k] = s[k])
  <2>1. IsSeq(r) /\ IsSeq(s)
    OBVIOUS
  <2> QED
    BY <2>1, JoinFacts
<1>2. DOMAIN u = 1..e /\ DOMAIN r = 1..c /\ c \in Nat /\ d \in Nat
  BY <1>1, IsSeqFacts
<1>3. /\ c + m = 2 * l + 2
      /\ \/ d = 2 /\ n = l + 1 /\ b = 2
         \/ d = 1 /\ n = l /\ b = 3
  BY DEF CountsOf
<1> HIDE DEF u, c, d, e
<1>4. e + m = 2 * n + b
  <2>1. CASE d = 2 /\ n = l + 1 /\ b = 2
    BY <1>1, <1>2, <1>3, <2>1
  <2>2. CASE d = 1 /\ n = l /\ b = 3
    BY <1>1, <1>2, <1>3, <2>2
  <2> QED
    BY <1>3, <2>1, <2>2
<1>5. ASSUME NEW k \in 1..e
      PROVE  /\ m + k - 1 = 1 => Len(u[k]) = 12 /\ Number(u[k][8]) = 0
             /\ \A p \in Nat : m + k - 1 = 2 * p + 2 => (Number(u[k][4]) = 0 <=> p = n)
  <2>1. k \in 1..c \/ k = c + 1 \/ (k = c + 2 /\ d = 2)
    BY <1>1, <1>2, <1>3
  <2>2. CASE k \in 1..c
    <3>1. u[k] = r[k] /\ k \in DOMAIN r
      BY <1>1, <1>2, <2>2
    <3>2. ASSUME NEW p \in Nat, m + k - 1 = 2 * p + 2 PROVE p # l /\ p # n
      BY <1>2, <1>3, <2>2, <3>2
    <3> QED
      BY <3>1, <3>2 DEF CountsOf
  <2>3. CASE k = c + 1
    <3>1. u[k] = s[1]
      BY <1>1, <1>3, <2>3
    <3>2. m + k - 1 = 2 * l + 2
      BY <1>2, <1>3, <2>3
    <3>3. m + k - 1 # 1 /\ \A p \in Nat : m + k - 1 = 2 * p + 2 => p = l
      BY <3>2
    <3> QED
      BY <3>1, <3>3
  <2>4. CASE k = c + 2
    <3>1. m + k - 1 = 2 * l + 3
      BY <1>2, <1>3, <2>4
    <3>2. m + k - 1 # 1 /\ \A p \in Nat : m + k - 1 # 2 * p + 2
      BY <3>1
    <3> QED
      BY <3>2
  <2> QED
    BY <2>1, <2>2, <2>3, <2>4
<1> QED
  BY <1>2, <1>4, <1>5 DEF u, c, e, CountsOf

\* What an import sends counts, if what is under way does.
LEMMA SendCounts ==
  ASSUME NEW s, IsSeq(s), IsSeq(shown), IsSeq(shown'), IsSeq(toServer), client = "sending", toServer' = toServer \o s,
         \/ Len(s) = 2 /\ Len(shown') = Len(shown) + 1 /\ client' = "sending" /\ Number(s[1][4]) # 0
         \/ Len(s) = 1 /\ Len(shown') = Len(shown) /\ client' = "response" /\ Number(s[1][4]) = 0
  PROVE  \A m \in Nat : Counts(toServer, m) => Counts(toServer, m)'
<1> SUFFICES ASSUME NEW m \in Nat, Counts(toServer, m) PROVE Counts(toServer, m)'
  OBVIOUS
<1> DEFINE l == Len(shown)  n == Len(shown')  b == IF client' = "response" THEN 3 ELSE 2
<1>1. l \in Nat /\ n \in Nat
  BY IsSeqFacts
<1>2. \/ Len(s) = 2 /\ n = l + 1 /\ b = 2
      \/ Len(s) = 1 /\ n = l /\ b = 3
  OBVIOUS
<1>3. Number(s[1][4]) = 0 <=> l = n
  <2>1. Number(s[1][4]) # 0 => n = l + 1
    OBVIOUS
  <2>2. Number(s[1][4]) = 0 => n = l
    OBVIOUS
  <2> HIDE DEF l, n
  <2> QED
    BY <1>1, <2>1, <2>2
<1>4. CountsOf(toServer, m, l, 2) /\ b \in Nat
  BY DEF Counts, CountsOf
<1> HIDE DEF l, n, b
<1> DEFINE u == toServer \o s
<1>5. CountsOf(u, m, n, b)
  BY <1>1, <1>2, <1>3, <1>4, CountsMore
<1> HIDE DEF u
<1>6. toServer' = u
  BY DEF u
<1> QED
  BY <1>5, <1>6 DEF Counts, CountsOf, n, b

\* What the server has still to read of an import counts when more is sent.
ImportRead ==
  serverOn =>
    /\ server = "kek" => \E m \in {0, 1} : Counts(toServer, m)
    /\ server = "loop" => Counts(toServer, 1)
    /\ server = "import" => Counts(toServer, 2 * request.arg + 2)

LEMMA SendReads ==
  ASSUME SessionInv, CopyInv, client = "sending", UNCHANGED <<serverOn, server, request>>,
         NEW s, IsSeq(s), toServer' = SentOn(s), IsSeq(shown), IsSeq(shown'),
         \/ Len(s) = 2 /\ Len(shown') = Len(shown) + 1 /\ client' = "sending" /\ Number(s[1][4]) # 0
         \/ Len(s) = 1 /\ Len(shown') = Len(shown) /\ client' = "response" /\ Number(s[1][4]) = 0
  PROVE  ImportRead'
<1>1. ImportRead
  BY DEF CopyInv, ImportInv, ImportRead, SessionInv, JobKnown
<1>2. serverOn /\ server \in {"kek", "loop", "import"} => IsSeq(toServer)
  <2> SUFFICES ASSUME server \in {"kek", "loop", "import"} PROVE IsSeq(toServer)
    OBVIOUS
  <2>1. ~ Idle
    BY DEF Idle
  <2>2. \E cmd, m : Rest(toServer, m, cmd, job)
    BY <2>1 DEF SessionInv, Understood
  <2> QED
    BY <2>2 DEF Rest, IsStream
<1>3. server = "import" => request.arg \in Nat
  BY ImportUnderWay
<1> SUFFICES ASSUME serverOn, server \in {"kek", "loop", "import"}
             PROVE  /\ server = "kek" => \E m \in {0, 1} : Counts(toServer, m)'
                    /\ server = "loop" => Counts(toServer, 1)'
                    /\ server = "import" => Counts(toServer, 2 * request.arg + 2)'
  BY DEF ImportRead
<1>4. toServer' = toServer \o s /\ IsSeq(toServer)
  BY <1>2 DEF SentOn
<1>5. \A m \in Nat : Counts(toServer, m) => Counts(toServer, m)'
  BY <1>4, SendCounts
<1>6. server = "kek" => \E m \in {0, 1} : Counts(toServer, m)'
  BY <1>1, <1>5 DEF ImportRead
<1>7. server = "loop" => Counts(toServer, 1)'
  BY <1>1, <1>5 DEF ImportRead
<1>8. server = "import" => Counts(toServer, 2 * request.arg + 2)'
  <2>1. server = "import" => 2 * request.arg + 2 \in Nat
    BY <1>3
  <2> DEFINE n == 2 * request.arg + 2
  <2>2. server = "import" => n \in Nat /\ Counts(toServer, n) /\ n' = n
    BY <1>1, <2>1 DEF ImportRead
  <2> HIDE DEF n
  <2>3. server = "import" => Counts(toServer, n)'
    BY <1>5, <2>2 DEF Counts, CountsOf
  <2> QED
    BY <2>3 DEF n
<1> QED
  BY <1>6, <1>7, <1>8

\* An import that is sent.
LEMMA Sending ==
  ASSUME SessionInv, CopyInv, client = "sending"
  PROVE  /\ job.cmd = Cmd.import /\ unsent \in Seq(Items)
         /\ (shown = <<>> /\ unsent = <<>>) \/ (SentFirst /\ SendsRest)
         /\ ~ clientOn => toClient = <<>>
         /\ \A a : IsStatus(toClient, a)
<1>1. job.cmd = Cmd.import /\ unsent \in Seq(Items)
  BY DEF SessionInv, JobKnown, Typed
<1>2. IsStatus(toClient, FALSE)
  BY <1>1 DEF CopyInv, ImportInv, IsStatus
<1>3. \A a : IsStatus(toClient, a)
  BY <1>2 DEF IsStatus
<1> QED
  BY <1>1, <1>3 DEF CopyInv, ImportInv

LEMMA SendCopies == ASSUME SessionInv, CopyInv, Send PROVE ExportInv' /\ ImportInv'
<1> DEFINE s == <<Word(1), <<Head(unsent)>>>>
<1>1. /\ client = "sending" /\ unsent # <<>> /\ toServer' = SentOn(s)
      /\ shown' = Append(shown, Head(unsent)) /\ unsent' = Tail(unsent)
      /\ UNCHANGED <<db, toClient, clientOn, serverOn, serving, client, job, code, export>>
  BY DEF Send, CanRead
<1> USE DEF db, serving
<1>2. IsSeq(s) /\ Len(s) = 2 /\ s[1] = Word(1)
  BY TupleFacts
<1> HIDE DEF s
<1>3. Number(s[1][4]) # 0
  BY <1>2, WordFacts, NumberFacts
<1>4. /\ job.cmd = Cmd.import /\ unsent \in Seq(Items) /\ SentFirst /\ SendsRest
      /\ ~ clientOn => toClient = <<>>
      /\ \A a : IsStatus(toClient, a)
  BY <1>1, Sending
<1> DEFINE l == Len(shown)  u == Len(unsent)
<1>5. /\ IsSeq(shown) /\ l \in Nat /\ u \in Nat /\ l + u = Len(export)
      /\ \A k \in 1..l : shown[k] = export[k]
      /\ \A k \in 1..u : unsent[k] = export[l + k]
  BY <1>4, IsSeqFacts DEF SentFirst, SendsRest
<1>6. /\ IsSeq(shown') /\ Len(shown') = l + 1 /\ (\A k \in 1..l : shown'[k] = shown[k])
      /\ shown'[l + 1] = Head(unsent)
  BY <1>1, <1>5, AppendFacts
<1>7. /\ Head(unsent) = unsent[1] /\ Len(unsent') = u - 1 /\ u # 0
      /\ \A k \in 1..(u - 1) : unsent'[k] = unsent[k + 1]
  BY <1>1, <1>4
<1> HIDE DEF l, u
<1>8. SentFirst'
  <2>1. 1 \in 1..u
    BY <1>5, <1>7
  <2>2. shown'[l + 1] = export[l + 1]
    BY <1>5, <1>6, <1>7, <2>1
  <2>3. \A k \in 1..(l + 1) : k \in 1..l \/ k = l + 1
    BY <1>5
  <2>4. \A k \in 1..(l + 1) : shown'[k] = export'[k]
    BY <1>1, <1>5, <1>6, <2>2, <2>3
  <2> QED
    BY <1>6, <2>4 DEF SentFirst
<1>9. SendsRest'
  <2>1. l + 1 + (u - 1) = l + u
    BY <1>5
  <2>2. ASSUME NEW k \in 1..(u - 1) PROVE unsent'[k] = export[l + 1 + k]
    <3>1. l \in Nat /\ u \in Nat
      BY <1>5
    <3>2. k + 1 \in 1..u /\ l + (k + 1) = l + 1 + k
      BY <3>1
    <3> QED
      BY <1>5, <1>7, <3>2
  <2> QED
    BY <1>1, <1>5, <1>6, <1>7, <2>1, <2>2 DEF SendsRest
<1>10. ImportRead'
  <2>1. UNCHANGED <<serverOn, server, request>> /\ client' = "sending" /\ Len(shown') = Len(shown) + 1
    BY <1>1, <1>6 DEF l
  <2> QED
    BY <1>1, <1>2, <1>3, <1>5, <1>6, <2>1, SendReads
<1>11. ExportInv'
  BY <1>1, <1>4, CmdFacts, Elsewhere
<1>12. \A a : IsStatus(toClient', a)
  BY <1>1, <1>4
<1>13. ImportInv'
  BY <1>1, <1>4, <1>8, <1>9, <1>10, <1>12 DEF ImportInv, ImportRead, Ended
<1> QED
  BY <1>11, <1>13

LEMMA SendEndCopies == ASSUME SessionInv, CopyInv, SendEnd PROVE ExportInv' /\ ImportInv'
<1> DEFINE s == <<Word(0)>>
<1>1. /\ client = "sending" /\ toServer' = SentOn(s)
      /\ UNCHANGED <<db, serverOn, serving, job, shown, unsent, export>>
  BY DEF SendEnd
<1> USE DEF db, serving
<1>2. IsSeq(s) /\ Len(s) = 1 /\ s[1] = Word(0)
  BY TupleFacts
<1> HIDE DEF s
<1>3. Number(s[1][4]) = 0
  BY <1>2, WordFacts, NumberFacts
<1>4. /\ job.cmd = Cmd.import
      /\ (shown = <<>> /\ unsent = <<>>) \/ (SentFirst /\ SendsRest)
      /\ ~ clientOn => toClient = <<>>
      /\ \A a : IsStatus(toClient, a)
  BY <1>1, Sending
<1>5. ExportInv'
  BY <1>1, <1>4, CmdFacts, Elsewhere
<1>6. CASE shown # <<>>
  <2>1. client' = "response" /\ UNCHANGED <<clientOn, toClient, code>>
    BY <1>6 DEF SendEnd
  <2>2. SentFirst /\ SentFirst' /\ IsSeq(shown) /\ IsSeq(shown')
    BY <1>1, <1>4, <1>6, SendsKept DEF SentFirst
  <2>3. ImportRead'
    <3>1. UNCHANGED <<serverOn, server, request>> /\ Len(shown') = Len(shown)
      BY <1>1
    <3> QED
      BY <1>1, <1>2, <1>3, <2>1, <2>2, <3>1, SendReads
  <2>4. \A a : IsStatus(toClient', a)
    BY <1>4, <2>1
  <2>5. ImportInv'
    BY <1>1, <1>4, <2>1, <2>2, <2>3, <2>4 DEF ImportInv, ImportRead, Ended
  <2> QED
    BY <1>5, <2>5
<1>7. CASE shown = <<>>
  <2>1. client' = "off" /\ code' = 1
    BY <1>7 DEF SendEnd, End
  <2>2. ~ Ended'
    BY <2>1, CmdFacts DEF Ended
  <2> QED
    BY <1>5, <2>1, <2>2, Elsewhere
<1> QED
  BY <1>6, <1>7

LEMMA ReceiveCopies == ASSUME SessionInv, CopyInv, Receive \/ ReceiveFails PROVE ExportInv' /\ ImportInv'
<1>1. job.cmd = Cmd.export /\ job' = job
  BY DEF Receive, ReceiveFails, SessionInv, JobKnown
<1>2. ExportInv'
  BY <1>1, ReceiveExports, ReceiveFailsExports DEF CopyInv
<1> QED
  BY <1>1, <1>2, CmdFacts, Elsewhere

LEMMA CopyKept ==
  ASSUME SessionInv, CopyInv, [Next]_vars
  PROVE  CopyInv'
<1>1. HalfClosed'
  <2>1. CASE Next
    BY <2>1, HalfClosedKept DEF CopyInv
  <2>2. CASE UNCHANGED vars
    <3>1. UNCHANGED <<clientOn, serverOn, server>>
      BY <2>2 DEF vars, link, serving
    <3> QED
      BY <3>1 DEF CopyInv, HalfClosed
  <2> QED
    BY <2>1, <2>2
<1> SUFFICES ExportInv' /\ ImportInv'
  BY <1>1 DEF CopyInv
<1>2. CASE UNCHANGED vars
  BY <1>2, IdlingCopies
<1>3. CASE ServerStep
  <2>1. CASE Pong \/ Accept
    BY <2>1, IdlingCopies
  <2>2. CASE ReadKek \/ ReadMessage \/ ReadBody \/ ReadValue
    BY <2>2, ReadingCopies, ReadKekCounts, ReadMessageCounts, ReadRestCounts
  <2>3. ASSUME NEW good \in BOOLEAN, ServeEdit(good) \/ ServeDelete(good) \/ ServePasswd(good) \/ ServeRekey(good)
        PROVE  ExportInv' /\ ImportInv'
    BY <2>3, ServingCopies
  <2>4. ASSUME NEW good \in BOOLEAN, NEW i \in Ids, ServeAdd(i, good) \/ ImportAdds(i, good)
        PROVE  ExportInv' /\ ImportInv'
    BY <2>4, ServingCopies, ImportAddsCopies
  <2>5. CASE ServeFind \/ ImportEnds
    BY <2>5, ServeFindCopies, ImportEndsCopies
  <2>6. ASSUME NEW n \in 0..Cardinality(Ids), ServeExport(n) PROVE ExportInv' /\ ImportInv'
    BY <2>6, ServeExportCopies
  <2> QED
    BY <1>3, <2>1, <2>2, <2>3, <2>4, <2>5, <2>6 DEF ServerStep
<1>4. CASE ClientReading
  BY <1>4, IdlingCopies, LeavingCopies, ReceiveCopies, SendCopies, SendEndCopies, ResponseCopies DEF ClientReading, Searching
<1>5. CASE UserStep
  BY <1>5, HelloCopies, LeavingCopies, PromptCopies DEF UserStep
<1>6. CASE Given
  BY <1>6, LeavingCopies
<1>7. CASE Restart \/ Break
  BY <1>7, IdlingCopies, BreakCopies
<1> QED
  BY <1>2, <1>3, <1>4, <1>5, <1>6, <1>7 DEF Next

\* An import stops at an entry that cannot be read, or because of a fault.
StopInv ==
  /\ faults \in Nat
  /\ job.cmd = Cmd.import /\ (client = "response" \/ Ended) =>
       (Len(shown) < Len(export) => faults > 0 \/ export[Len(shown) + 1] = Torn)

LEMMA FaultGrows ==
  ASSUME [Next]_vars
  PROVE  faults' = faults \/ faults' = faults + 1
<1> USE DEF Fault
<1>1. CASE UNCHANGED vars
  BY <1>1 DEF vars
<1>2. CASE ServerStep
  BY <1>2 DEF ServerStep, Pong, Accept, ReadKek, ReadMessage, ReadBody, ReadValue, ServeEdit, ServeDelete,
     ServePasswd, ServeRekey, ServeAdd, ImportAdds, ServeFind, ServeExport, ImportEnds, Update, Delete, Rekey, UpdateKek
<1>3. CASE ClientReading
  BY <1>3 DEF ClientReading, Searching, Ping, GiveUp, Connect, ReadMatch, Receive, ReceiveFails, Send, SendEnd, Response
<1>4. CASE UserStep
  BY <1>4 DEF UserStep, Hello, Edited, NewPasswd, ExportPasswd, ImportPasswd, Refused
<1>5. CASE Given \/ Restart \/ Break
  BY <1>5 DEF Given, Start, Restart, Break
<1> QED
  BY <1>1, <1>2, <1>3, <1>4, <1>5 DEF Next

LEMMA StopKept ==
  ASSUME SessionInv, CopyInv, StopInv, [Next]_vars
  PROVE  StopInv'
<1>1. faults \in Nat /\ faults' \in Nat /\ (faults > 0 => faults' > 0)
  BY FaultGrows DEF StopInv
<1>2. ASSUME UNCHANGED <<job, export, shown>>, UNCHANGED <<client, code>> \/ client = "response" PROVE StopInv'
  BY <1>1, <1>2 DEF StopInv, Ended
<1>3. ASSUME job'.cmd # Cmd.import \/ (client' # "response" /\ ~ Ended') PROVE StopInv'
  BY <1>1, <1>3 DEF StopInv
<1>4. CASE UNCHANGED using
  BY <1>2, <1>4 DEF using
<1>5. CASE GiveUp \/ Refused \/ \E good \in BOOLEAN : Connect(good)
  <2>1. ~ Ended' /\ client' \in {"off", "hello"}
    BY <1>5, CmdFacts DEF GiveUp, Refused, Connect, End, Ended
  <2> QED
    BY <1>3, <2>1
<1>6. CASE ReadMatch \/ Receive \/ ReceiveFails
  <2>1. job.cmd \in {Cmd.edit, Cmd.find, Cmd.export} /\ job' = job
    BY <1>6 DEF ReadMatch, Receive, ReceiveFails, SessionInv, JobKnown
  <2> QED
    BY <1>3, <2>1, CmdFacts
<1>7. CASE Send \/ ExportPasswd \/ (\E right \in BOOLEAN : ImportPasswd(right)) \/ Given
  <2>1. client' \in {"sending", "receiving", "search"}
    BY <1>7 DEF Send, ExportPasswd, ImportPasswd, Given, Start
  <2> QED
    BY <1>3, <2>1 DEF Ended
<1>8. CASE SendEnd
  <2>1. client = "sending" /\ UNCHANGED <<job, shown, unsent, export>>
    BY <1>8 DEF SendEnd
  <2>2. CASE shown = <<>>
    <3>1. client' = "off" /\ code' = 1
      BY <1>8, <2>2 DEF SendEnd, End
    <3> QED
      BY <1>3, <3>1, CmdFacts DEF Ended
  <2>3. CASE shown # <<>>
    <3>1. unsent \in Seq(Items) /\ SentFirst /\ SendsRest
      BY <2>1, <2>3, Sending
    <3> DEFINE l == Len(shown)  u == Len(unsent)
    <3>2. l \in Nat /\ u \in Nat /\ l + u = Len(export) /\ \A k \in 1..u : unsent[k] = export[l + k]
      BY <3>1, IsSeqFacts DEF SentFirst, SendsRest
    <3>3. ASSUME l < Len(export) PROVE faults' > 0 \/ export[l + 1] = Torn
      <4>1. unsent # <<>> /\ Head(unsent) = export[l + 1]
        <5>1. u # 0 /\ 1 \in 1..u
          <6> HIDE DEF l, u
          <6> QED
            BY <3>2, <3>3
        <5>2. unsent # <<>> /\ Head(unsent) = unsent[1]
          BY <3>1, <5>1
        <5> QED
          BY <3>2, <5>1, <5>2
      <4>2. CASE CanRead
        <5>1. faults' = faults + 1
          BY <1>8, <4>2 DEF SendEnd, Fault
        <5> QED
          BY <1>1, <5>1
      <4>3. CASE ~ CanRead
        BY <4>1, <4>3 DEF CanRead
      <4> QED
        BY <4>2, <4>3
    <3> QED
      BY <1>1, <2>1, <3>3 DEF StopInv
  <2> QED
    BY <2>2, <2>3
<1>9. CASE Response
  BY <1>2, <1>9 DEF Response
<1>10. CASE \E kek \in Passwords \cup {Zero} : Hello(kek)
  <2>1. job' = job /\ client' = NextStep
    BY <1>10 DEF Hello
  <2>2. job.cmd = Cmd.import => NextStep = "prompt"
    BY CmdFacts DEF NextStep
  <2> QED
    BY <1>3, <2>1, <2>2 DEF Ended
<1>11. CASE (\E e \in Entries : Edited(e)) \/ (\E p \in Passwords : NewPasswd(p))
  <2>1. ASSUME NEW e \in Entries, Edited(e) PROVE job'.cmd # Cmd.import
    <3>1. client = "editor" /\ job.cmd \in {Cmd.add, Cmd.edit} /\ job' = Over([entry |-> e], job)
      BY <2>1 DEF Edited, SessionInv, JobKnown
    <3>2. job'.cmd = job.cmd
      BY <3>1, JobGrows
    <3> QED
      BY <3>1, <3>2, CmdFacts
  <2>2. ASSUME NEW p \in Passwords, NewPasswd(p) PROVE job'.cmd # Cmd.import
    <3>1. client = "prompt" /\ job.cmd = Cmd.passwd /\ job' = Over([password |-> p], job)
      BY <2>2 DEF NewPasswd
    <3>2. job'.cmd = job.cmd
      BY <3>1, JobGrows
    <3> QED
      BY <3>1, <3>2, CmdFacts
  <2> QED
    BY <1>3, <1>11, <2>1, <2>2
<1>12. CASE ServerStep
  <2>1. UNCHANGED using
    BY <1>12 DEF ServerStep, Pong, Accept, ReadKek, ReadMessage, ReadBody, ReadValue, ServeEdit, ServeDelete,
       ServePasswd, ServeRekey, ServeAdd, ImportAdds, ServeFind, ServeExport, ImportEnds
  <2> QED
    BY <1>4, <2>1
<1>13. CASE Restart \/ Break \/ Ping \/ UNCHANGED vars
  <2>1. UNCHANGED using
    BY <1>13 DEF Restart, Break, Ping, vars
  <2> QED
    BY <1>4, <2>1
<1>14. CASE ClientReading
  BY <1>5, <1>6, <1>7, <1>8, <1>9, <1>13, <1>14 DEF ClientReading, Searching
<1>15. CASE UserStep
  BY <1>5, <1>7, <1>10, <1>11, <1>15 DEF UserStep
<1> QED
  BY <1>7, <1>12, <1>13, <1>14, <1>15 DEF Next

LEMMA CopyIs == SessionInv /\ CopyInv /\ StopInv => CopyIsComplete
<1> SUFFICES ASSUME SessionInv, CopyInv, StopInv, Ended PROVE CopyIsComplete
  BY DEF CopyIsComplete
<1>1. ASSUME job.cmd = Cmd.export, export # Unmade
      PROVE  LET ids == UniqueIds(index)
             IN /\ Len(export) = Len(ids)
                /\ \A k \in DOMAIN ids : export[k] \in {[entry |-> file[ids[k]]], Torn}
  <2>1. Len(export) = Len(All) /\ \A k \in 1..Len(All) : export[k] \in {All[k], Torn}
    BY <1>1 DEF CopyInv, ExportInv, Complete
  <2>2. Typed
    BY DEF SessionInv
  <2> DEFINE ids == UniqueIds(index)
  <2>3. /\ ids \in Seq(Ids) /\ Len(All) = Len(ids)
        /\ \A k \in 1..Len(All) : All[k] = [entry |-> file[ids[k]]]
    BY <2>2, AllFacts
  <2> HIDE DEF ids
  <2>4. DOMAIN ids = 1..Len(All)
    BY <2>3
  <2>5. \A k \in DOMAIN ids : export[k] \in {[entry |-> file[ids[k]]], Torn}
    BY <2>1, <2>3, <2>4
  <2> QED
    BY <2>1, <2>3, <2>5 DEF ids
<1>2. ASSUME job.cmd = Cmd.import
      PROVE  /\ Last(served).cmd = Cmd.import /\ Last(served).count = Len(shown)
             /\ \A k \in DOMAIN shown : shown[k] = export[k]
             /\ Len(shown) < Len(export) => faults > 0 \/ export[Len(shown) + 1] = Torn
  <2>1. SentFirst /\ Imported
    BY <1>2 DEF CopyInv, ImportInv
  <2>2. DOMAIN shown = 1..Len(shown)
    BY <2>1, IsSeqFacts DEF SentFirst
  <2>3. Len(shown) < Len(export) => faults > 0 \/ export[Len(shown) + 1] = Torn
    BY <1>2 DEF StopInv
  <2> QED
    BY <2>1, <2>2, <2>3 DEF SentFirst, Imported
<1> QED
  BY <1>1, <1>2 DEF CopyIsComplete

(* An export that returns 0 and could be written to a file holds every entry  *)
(* that is listed, once and in order, or what a short write left in its place *)
(* (export.c:126-170); and an import that returns 0 has added every entry of  *)
(* the file up to the first that cannot be read, and all if nothing failed.   *)
THEOREM CopyIsCompleteCorrect == Spec => []CopyIsComplete
<1>1. Init => SessionInv /\ CopyInv /\ StopInv
  <2>1. Init => CopyInv /\ StopInv
    BY CmdFacts DEF Init, CopyInv, HalfClosed, ExportInv, ImportInv, StopInv, Ended
  <2> QED
    BY <2>1, InitHolds
<1>2. SessionInv /\ CopyInv /\ StopInv /\ [Next]_vars => (SessionInv /\ CopyInv /\ StopInv)'
  BY StepKeeps, CopyKept, StopKept
<1> QED
  BY <1>1, <1>2, CopyIs, PTL DEF Spec

-------------------------------------------------------------------------------
\* What an update of the index lists

LEMMA WriteTermIds ==
  ASSUME NEW term \in Term, NEW id \in Ids, NEW append \in BOOLEAN, IsInjective(term.ids)
  PROVE  IsWritten(WriteTerm(term, id, append), term, id, append)
<1> DEFINE new == WriteTerm(term, id, append)
<1> SUFFICES /\ new.str = term.str
             /\ Range(new.ids) = IF append THEN Range(term.ids) \cup {id} ELSE Range(term.ids) \ {id}
             /\ IsInjective(new.ids)
             /\ append \/ (term.ids # <<>> /\ term.ids # <<id>>) => new.ids # <<>>
  BY DEF IsWritten
<1> DEFINE ids == term.ids
           f == [k \in DOMAIN ids |-> IF ids[k] = id THEN <<>> ELSE <<ids[k]>>]
<1>0. ids \in Seq(Ids) /\ IsInjective(ids)
  BY DEF Term
<1>1. new = [term EXCEPT !.ids = IF ~ append THEN FlattenSeq(f)
                                 ELSE IF Contains(ids, id) THEN ids ELSE Append(ids, id)]
  BY DEF WriteTerm
<1> HIDE DEF new
<1>2. /\ new.str = term.str
      /\ new.ids = IF ~ append THEN FlattenSeq(f) ELSE IF Contains(ids, id) THEN ids ELSE Append(ids, id)
  BY <1>1 DEF Term
<1> HIDE DEF ids
<1>3. Len(ids) \in Nat /\ DOMAIN ids = 1..Len(ids) /\ IsSeq(ids)
  BY <1>0, SeqIsSeq
<1>4. CASE append /\ Contains(ids, id)
  <2>1. id \in Range(ids) /\ new.ids = ids
    BY <1>2, <1>3, <1>4 DEF Contains, Range
  <2>2. ids # <<>>
    BY <1>3, <1>4 DEF Contains
  <2> QED
    BY <1>0, <1>2, <1>4, <2>1, <2>2 DEF ids
<1>5. CASE append /\ ~ Contains(ids, id)
  <2>1. new.ids = Append(ids, id)
    BY <1>2, <1>5
  <2>2. Range(Append(ids, id)) = Range(ids) \cup {id} /\ Append(ids, id) # <<>>
    <3> DEFINE new2 == Append(ids, id)
    <3>1. /\ new2 # <<>> /\ DOMAIN new2 = 1..(Len(ids) + 1) /\ new2[Len(ids) + 1] = id
          /\ \A k \in 1..Len(ids) : new2[k] = ids[k]
      BY <1>0
    <3> HIDE DEF new2
    <3>2. Len(ids) + 1 \in DOMAIN new2 /\ \A k \in 1..Len(ids) : k \in DOMAIN new2
      BY <1>3, <3>1
    <3>3. \A k \in DOMAIN new2 : k \in 1..Len(ids) \/ k = Len(ids) + 1
      BY <1>3, <3>1
    <3>4. Range(new2) = Range(ids) \cup {id}
      BY <1>3, <3>1, <3>2, <3>3, Zenon DEF Range
    <3> QED
      BY <3>1, <3>4 DEF new2
  <2>3. IsInjective(Append(ids, id))
    <3>1. id \notin Range(ids)
      BY <1>3, <1>5 DEF Contains, Range
    <3>2. \A a, b \in 1..Len(ids) : ids[a] = ids[b] => a = b
      BY <1>0, <1>3 DEF IsInjective
    <3>3. \A a \in 1..Len(ids) : ids[a] # id
      BY <1>3, <3>1 DEF Range
    <3> QED
      BY <1>0, <1>3, <3>2, <3>3 DEF IsInjective
  <2> QED
    BY <1>2, <1>5, <2>1, <2>2, <2>3 DEF ids
<1>6. CASE ~ append
  <2>1. new.ids = FlattenSeq(f)
    BY <1>2, <1>6
  <2>2. \A k \in 1..Len(ids) : f[k] = IF ids[k] = id THEN <<>> ELSE <<ids[k]>>
    BY <1>3
  <2>3. IsSeq(f) /\ Len(f) = Len(ids)
    <3> DEFINE S == {f[k] : k \in 1..Len(ids)}
    <3>1. f \in [1..Len(ids) -> S]
      BY <1>3
    <3> HIDE DEF f, S
    <3>2. f \in Seq(S) /\ Len(f) = Len(ids)
      BY <1>3, <3>1, FunctionIsSeq
    <3> QED
      BY <3>2, SeqIsSeq
  <2> HIDE DEF f
  <2>4. \A k \in 1..Len(f) : /\ IsSeq(f[k]) /\ IsInjective(f[k])
                              /\ Range(f[k]) = {ids[k]} \ {id}
    <3> SUFFICES ASSUME NEW k \in 1..Len(f)
                 PROVE  IsSeq(f[k]) /\ IsInjective(f[k]) /\ Range(f[k]) = {ids[k]} \ {id}
      OBVIOUS
    <3>1. CASE ids[k] = id
      <4>1. f[k] = <<>>
        BY <2>2, <2>3, <3>1
      <4> QED
        BY <3>1, <4>1, SingleFacts, TupleFacts
    <3>2. CASE ids[k] # id
      <4> DEFINE x == ids[k]
      <4>1. f[k] = <<x>>
        BY <2>2, <2>3, <3>2
      <4> HIDE DEF x
      <4>2. IsSeq(<<x>>) /\ IsInjective(<<x>>) /\ Range(<<x>>) = {x}
        BY SingleFacts, TupleFacts
      <4>3. {x} = {x} \ {id}
        BY <3>2 DEF x
      <4> QED
        BY <4>1, <4>2, <4>3 DEF x
    <3> QED
      BY <3>1, <3>2
  <2>5. IsSeq(new.ids) /\ Range(new.ids) = UNION {Range(f[k]) : k \in 1..Len(f)}
    BY <2>1, <2>3, <2>4, FlattenRange
  <2>6. Range(new.ids) = Range(ids) \ {id}
    <3>1. Range(new.ids) = UNION {{ids[k]} \ {id} : k \in 1..Len(ids)}
      BY <2>3, <2>4, <2>5
    <3> QED
      BY <1>3, <3>1 DEF Range
  <2>7. IsInjective(new.ids)
    <3>1. \A i, k \in 1..Len(f) : i # k => Range(f[i]) \cap Range(f[k]) = {}
      <4>1. \A i, k \in 1..Len(ids) : ids[i] = ids[k] => i = k
        BY <1>0, <1>3 DEF IsInjective
      <4> SUFFICES ASSUME NEW i \in 1..Len(f), NEW k \in 1..Len(f), i # k
                   PROVE  Range(f[i]) \cap Range(f[k]) = {}
        OBVIOUS
      <4>2. ids[i] # ids[k]
        BY <2>3, <4>1
      <4>3. Range(f[i]) \subseteq {ids[i]} /\ Range(f[k]) \subseteq {ids[k]}
        BY <2>4
      <4> QED
        BY <4>2, <4>3
    <3> QED
      BY <2>1, <2>3, <2>4, <3>1, FlattenApart
  <2>8. ASSUME ids # <<>>, ids # <<id>> PROVE new.ids # <<>>
    <3>1. SUFFICES ASSUME \A k \in 1..Len(ids) : ids[k] = id PROVE FALSE
      <4>1. PICK k \in 1..Len(ids) : ids[k] # id
        BY <3>1
      <4>2. ids[k] \in Range(new.ids)
        BY <1>3, <2>6, <4>1 DEF Range
      <4> QED
        BY <4>2, SingleFacts
    <3>2. Len(ids) # 0
      BY <1>0, <2>8
    <3>3. Len(ids) = 1
      <4>1. CASE Len(ids) # 1
        <5>1. 1 \in 1..Len(ids) /\ 2 \in 1..Len(ids)
          BY <1>3, <3>2, <4>1
        <5>2. ids[1] = ids[2]
          BY <3>1, <5>1
        <5> QED
          BY <1>0, <1>3, <5>1, <5>2 DEF IsInjective
      <4> QED
        BY <4>1
    <3>4. ids[1] = id
      BY <3>1, <3>3
    <3> QED
      BY <1>0, <2>8, <3>3, <3>4
  <2> QED
    BY <1>2, <1>6, <2>6, <2>7, <2>8 DEF ids
<1> QED
  BY <1>4, <1>5, <1>6

-------------------------------------------------------------------------------
\* Nothing is listed twice, and what is under a term is at least one entry.

LEMMA UpdateMakes ==
  ASSUME NEW idx \in Seq(Term), NEW id \in Ids, NEW e \in EntryText, Apart(idx)
  PROVE  \E f, g : UpdateIndex(idx, id, e) = FlattenSeq(f) \o FlattenSeq(g) /\ Writes(f, g, idx, id, e)
<1> DEFINE vals == Written(e)
           appends(i) == Contains(vals, idx[i].str) /\ \A k \in 1..(i - 1) : idx[k].str # idx[i].str
           old(i) == IF ~ appends(i) /\ idx[i].ids = <<id>> THEN <<>>
                     ELSE <<WriteTerm(idx[i], id, appends(i))>>
           isNew(val) == \A i \in DOMAIN idx : idx[i].str # val
           one(val) == IF isNew(val) THEN <<[str |-> val, ids |-> <<id>>]>> ELSE <<>>
           f == [i \in DOMAIN idx |-> old(i)]
           g == [j \in DOMAIN vals |-> one(vals[j])]
<1>0. Len(idx) \in Nat /\ DOMAIN idx = 1..Len(idx)
  OBVIOUS
<1>1. UpdateIndex(idx, id, e) = FlattenSeq(f) \o FlattenSeq(g)
  BY DEF UpdateIndex
<1>2. vals \in Seq(Seq(Nat)) /\ Range(vals) = ValuesOf(e)
  BY WrittenType, WrittenValues
<1> HIDE DEF vals
<1>3. Len(vals) \in Nat /\ DOMAIN vals = 1..Len(vals)
  BY <1>2
<1>4. ASSUME NEW k \in 1..Len(idx) PROVE appends(k) <=> idx[k].str \in ValuesOf(e)
  <2>1. Contains(vals, idx[k].str) <=> idx[k].str \in ValuesOf(e)
    <3> DEFINE x == idx[k].str
    <3> HIDE DEF x
    <3>1. x \in Range(vals) <=> \E i \in 1..Len(vals) : vals[i] = x
      BY <1>3 DEF Range
    <3> QED
      BY <1>2, <3>1 DEF Contains, x
  <2>2. ASSUME NEW j \in 1..(k - 1) PROVE idx[j].str # idx[k].str
    <3>1. j \in DOMAIN idx /\ k \in DOMAIN idx /\ j # k
      BY <1>0
    <3> QED
      BY <3>1 DEF Apart
  <2> QED
    BY <2>1, <2>2
<1>5. \A k \in 1..Len(idx) :
        LET has == idx[k].str \in ValuesOf(e)
        IN f[k] = IF ~ has /\ idx[k].ids = <<id>> THEN <<>> ELSE <<WriteTerm(idx[k], id, has)>>
  <2> HIDE DEF appends
  <2>1. \A k \in 1..Len(idx) : f[k] = old(k)
    BY <1>0
  <2> HIDE DEF f
  <2> SUFFICES ASSUME NEW k \in 1..Len(idx)
               PROVE  LET has == idx[k].str \in ValuesOf(e)
                      IN f[k] = IF ~ has /\ idx[k].ids = <<id>> THEN <<>> ELSE <<WriteTerm(idx[k], id, has)>>
    OBVIOUS
  <2>2. appends(k) \in BOOLEAN
    BY DEF appends
  <2>3. appends(k) = (idx[k].str \in ValuesOf(e))
    BY <1>4, <2>2
  <2> QED
    BY <2>1, <2>3
<1>6. \A j \in 1..Len(vals) :
        g[j] = IF \A k \in 1..Len(idx) : idx[k].str # vals[j]
               THEN <<[str |-> vals[j], ids |-> <<id>>]>> ELSE <<>>
  <2>1. \A j \in 1..Len(vals) : g[j] = one(vals[j])
    BY <1>3
  <2> HIDE DEF g
  <2> QED
    BY <1>0, <2>1, Zenon
<1>10. f = [i \in DOMAIN idx |-> f[i]] /\ g = [j \in DOMAIN vals |-> g[j]]
  OBVIOUS
<1> HIDE DEF f, g
<1>7. f = [i \in 1..Len(idx) |-> f[i]] /\ g = [j \in 1..Len(vals) |-> g[j]]
  BY <1>0, <1>3, <1>10
<1>8. ASSUME NEW h, NEW n \in Nat, h = [i \in 1..n |-> h[i]] PROVE IsSeq(h) /\ Len(h) = n
  <2> DEFINE S == {h[k] : k \in 1..n}
  <2>1. h \in [1..n -> S]
    BY <1>8
  <2> HIDE DEF S
  <2>2. h \in Seq(S) /\ Len(h) = n
    BY <2>1, FunctionIsSeq
  <2> QED
    BY <2>2, SeqIsSeq
<1>9. IsSeq(f) /\ Len(f) = Len(idx) /\ IsSeq(g) /\ Len(g) = Len(vals)
  BY <1>0, <1>3, <1>7, <1>8
<1> QED
  <2>1. Writes(f, g, idx, id, e)
    BY <1>5, <1>6, <1>9 DEF vals, Writes
  <2> QED
    BY <1>1, <2>1

(* A term after an update is an old one, written, or a new one.               *)
LEMMA UpdateTerms ==
  ASSUME NEW idx \in Seq(Term), NEW id \in Ids, NEW e \in EntryText, Apart(idx),
         NEW new, new = UpdateIndex(idx, id, e)
  PROVE  /\ new \in Seq(Term) /\ IsInjective(new)
         /\ \A k \in 1..Len(idx) :
              LET has == idx[k].str \in ValuesOf(e)
              IN has \/ idx[k].ids # <<id>> => WriteTerm(idx[k], id, has) \in Range(new)
         /\ \A val \in ValuesOf(e) :
              (\A k \in 1..Len(idx) : idx[k].str # val) => [str |-> val, ids |-> <<id>>] \in Range(new)
         /\ \A t \in Range(new) :
              \/ \E k \in 1..Len(idx) :
                   LET has == idx[k].str \in ValuesOf(e)
                   IN (has \/ idx[k].ids # <<id>>) /\ t = WriteTerm(idx[k], id, has)
              \/ \E val \in ValuesOf(e) :
                   (\A k \in 1..Len(idx) : idx[k].str # val) /\ t = [str |-> val, ids |-> <<id>>]
<1> DEFINE vals == Written(e)
           Has(k) == idx[k].str \in ValuesOf(e)
           Stays(k) == Has(k) \/ idx[k].ids # <<id>>
           Kept(k) == WriteTerm(idx[k], id, Has(k))
           New(val) == \A k \in 1..Len(idx) : idx[k].str # val
           Own(val) == [str |-> val, ids |-> <<id>>]
<1>1. Range(vals) = ValuesOf(e) /\ IsInjective(vals) /\ vals \in Seq(Seq(Nat))
  BY WrittenValues, WrittenType
<1>2. Len(vals) \in Nat /\ DOMAIN vals = 1..Len(vals) /\ Len(idx) \in Nat /\ DOMAIN idx = 1..Len(idx)
  BY <1>1
<1>15. PICK f, g : new = FlattenSeq(f) \o FlattenSeq(g) /\ Writes(f, g, idx, id, e)
  BY UpdateMakes
<1>3. /\ new = FlattenSeq(f) \o FlattenSeq(g)
      /\ IsSeq(f) /\ Len(f) = Len(idx) /\ IsSeq(g) /\ Len(g) = Len(vals)
      /\ \A k \in 1..Len(idx) : f[k] = IF ~ Has(k) /\ idx[k].ids = <<id>> THEN <<>> ELSE <<Kept(k)>>
      /\ \A j \in 1..Len(vals) : g[j] = IF New(vals[j]) THEN <<Own(vals[j])>> ELSE <<>>
  BY <1>15 DEF Writes
<1> HIDE DEF vals
<1>4. \A k \in 1..Len(idx) : Kept(k).str = idx[k].str
  <2> SUFFICES ASSUME NEW k \in 1..Len(idx) PROVE Kept(k).str = idx[k].str
    OBVIOUS
  <2>1. idx[k] \in Term /\ Has(k) \in BOOLEAN /\ IsInjective(idx[k].ids)
    BY <1>2 DEF Apart
  <2> HIDE DEF Has
  <2>2. IsWritten(Kept(k), idx[k], id, Has(k))
    BY <2>1, WriteTermIds
  <2> HIDE DEF Kept
  <2> QED
    BY <2>2 DEF IsWritten
<1>5. \A val : Own(val).str = val
  <2> DEFINE ids == <<id>>
  <2> HIDE DEF ids
  <2>1. \A val : [str |-> val, ids |-> ids].str = val
    OBVIOUS
  <2> QED
    BY <2>1 DEF ids
<1>6. \A k, n \in 1..Len(idx) : idx[k].str = idx[n].str => k = n
  BY <1>2 DEF Apart
<1> HIDE DEF Kept, Own
<1>7. /\ \A k \in 1..Len(f) : /\ IsSeq(f[k]) /\ IsInjective(f[k])
                              /\ Range(f[k]) = IF Stays(k) THEN {Kept(k)} ELSE {}
      /\ \A j \in 1..Len(g) : /\ IsSeq(g[j]) /\ IsInjective(g[j])
                              /\ Range(g[j]) = IF New(vals[j]) THEN {Own(vals[j])} ELSE {}
  <2> HIDE DEF Has, New
  <2>1. \A k \in 1..Len(f) : f[k] = IF Stays(k) THEN <<Kept(k)>> ELSE <<>>
    BY <1>3
  <2> HIDE DEF Stays
  <2>2. \A j \in 1..Len(g) : g[j] = IF New(vals[j]) THEN <<Own(vals[j])>> ELSE <<>>
    BY <1>3
  <2>3. ASSUME NEW x, NEW p, NEW s, s = IF p THEN <<x>> ELSE <<>>
        PROVE  IsSeq(s) /\ IsInjective(s) /\ Range(s) = IF p THEN {x} ELSE {}
    <3>1. IsSeq(<<x>>) /\ IsInjective(<<x>>) /\ Range(<<x>>) = {x}
      BY SingleFacts, TupleFacts
    <3>2. IsSeq(<<>>) /\ IsInjective(<<>>) /\ Range(<<>>) = {}
      BY SingleFacts, TupleFacts
    <3> QED
      BY <2>3, <3>1, <3>2
  <2> QED
    BY <2>1, <2>2, <2>3
<1>8. /\ IsSeq(FlattenSeq(f)) /\ Range(FlattenSeq(f)) = UNION {Range(f[k]) : k \in 1..Len(f)}
      /\ IsSeq(FlattenSeq(g)) /\ Range(FlattenSeq(g)) = UNION {Range(g[j]) : j \in 1..Len(g)}
  BY <1>3, <1>7, FlattenRange
<1>9. Range(new) = Range(FlattenSeq(f)) \cup Range(FlattenSeq(g))
  BY <1>3, <1>8, JoinApart
<1>10. IsInjective(new)
  <2>1. \A i, k \in 1..Len(f) : i # k => Range(f[i]) \cap Range(f[k]) = {}
    <3> SUFFICES ASSUME NEW i \in 1..Len(f), NEW k \in 1..Len(f), i # k
                 PROVE  Range(f[i]) \cap Range(f[k]) = {}
      OBVIOUS
    <3>1. Kept(i) # Kept(k)
      BY <1>3, <1>4, <1>6
    <3>2. Range(f[i]) \subseteq {Kept(i)} /\ Range(f[k]) \subseteq {Kept(k)}
      BY <1>7
    <3> QED
      BY <3>1, <3>2
  <2>2. \A i, k \in 1..Len(g) : i # k => Range(g[i]) \cap Range(g[k]) = {}
    <3> SUFFICES ASSUME NEW i \in 1..Len(g), NEW k \in 1..Len(g), i # k
                 PROVE  Range(g[i]) \cap Range(g[k]) = {}
      OBVIOUS
    <3>1. vals[i] # vals[k]
      BY <1>1, <1>2, <1>3 DEF IsInjective
    <3>2. Own(vals[i]) # Own(vals[k])
      BY <1>5, <3>1
    <3>3. Range(g[i]) \subseteq {Own(vals[i])} /\ Range(g[k]) \subseteq {Own(vals[k])}
      BY <1>7
    <3> QED
      BY <3>2, <3>3
  <2>3. Range(FlattenSeq(f)) \cap Range(FlattenSeq(g)) = {}
    <3>1. ASSUME NEW k \in 1..Len(f), NEW j \in 1..Len(g), NEW t, t \in Range(f[k]), t \in Range(g[j])
          PROVE  FALSE
      <4>1. t = Kept(k) /\ t = Own(vals[j]) /\ New(vals[j])
        BY <1>7, <3>1
      <4>2. Kept(k).str = idx[k].str
        BY <1>3, <1>4
      <4>3. Own(vals[j]).str = vals[j]
        BY <1>5
      <4>4. idx[k].str = vals[j]
        BY <4>1, <4>2, <4>3, Zenon
      <4> QED
        BY <1>3, <4>1, <4>4
    <3> QED
      BY <1>8, <3>1
  <2>4. IsInjective(FlattenSeq(f)) /\ IsInjective(FlattenSeq(g))
    <3>1. IsInjective(FlattenSeq(f))
      BY <1>3, <1>7, <2>1, FlattenApart
    <3>2. IsInjective(FlattenSeq(g))
      BY <1>3, <1>7, <2>2, FlattenApart
    <3> QED
      BY <3>1, <3>2
  <2> DEFINE a == FlattenSeq(f)  b == FlattenSeq(g)
  <2>5. IsSeq(a) /\ IsSeq(b) /\ IsInjective(a) /\ IsInjective(b) /\ Range(a) \cap Range(b) = {}
    BY <1>8, <2>3, <2>4
  <2>6. new = a \o b
    BY <1>3
  <2> HIDE DEF a, b
  <2> QED
    BY <2>5, <2>6, JoinApart
<1>11. new \in Seq(Term)
  BY UpdateType
<1>12. ASSUME NEW k \in 1..Len(idx), Stays(k) PROVE Kept(k) \in Range(new)
  <2>1. f[k] = <<Kept(k)>> /\ k \in 1..Len(f)
    BY <1>3, <1>12
  <2>2. Kept(k) \in Range(f[k])
    <3> HIDE DEF Kept
    <3> QED
      BY <2>1, SingleFacts
  <2> QED
    BY <1>8, <1>9, <2>1, <2>2
<1>13. ASSUME NEW val \in ValuesOf(e), New(val) PROVE Own(val) \in Range(new)
  <2>1. PICK j \in 1..Len(vals) : val = vals[j]
    <3>1. val \in Range(vals)
      BY <1>1
    <3> QED
      BY <1>2, <3>1 DEF Range
  <2>2. Own(val) \in Range(g[j])
    BY <1>3, <1>7, <1>13, <2>1
  <2> QED
    BY <1>3, <1>8, <1>9, <2>2
<1>14. ASSUME NEW t \in Range(new)
       PROVE  \/ \E k \in 1..Len(idx) : Stays(k) /\ t = Kept(k)
              \/ \E val \in ValuesOf(e) : New(val) /\ t = Own(val)
  <2>1. CASE t \in Range(FlattenSeq(f))
    <3>1. PICK k \in 1..Len(f) : t \in Range(f[k])
      BY <1>8, <2>1
    <3>2. Stays(k) /\ t = Kept(k)
      BY <1>7, <3>1
    <3> QED
      BY <1>3, <3>2
  <2>2. CASE t \in Range(FlattenSeq(g))
    <3>1. PICK j \in 1..Len(g) : t \in Range(g[j])
      BY <1>8, <2>2
    <3>2. New(vals[j]) /\ t = Own(vals[j])
      BY <1>7, <3>1
    <3>3. vals[j] \in ValuesOf(e)
      BY <1>1, <1>2, <1>3 DEF Range
    <3> QED
      BY <3>2, <3>3
  <2> QED
    BY <1>9, <2>1, <2>2
<1> QED
  BY <1>10, <1>11, <1>12, <1>13, <1>14 DEF Kept, Own

(* An update leaves one term for every value, of one entry at least.          *)
LEMMA UpdateApart ==
  ASSUME NEW idx \in Seq(Term), NEW id \in Ids, NEW e \in EntryText, Apart(idx)
  PROVE  Apart(UpdateIndex(idx, id, e))
<1> DEFINE new == UpdateIndex(idx, id, e)
           Has(k) == idx[k].str \in ValuesOf(e)
           Kept(k) == WriteTerm(idx[k], id, Has(k))
           Own(val) == [str |-> val, ids |-> <<id>>]
<1> HIDE DEF new
<1>1. /\ new \in Seq(Term) /\ IsInjective(new)
      /\ \A t \in Range(new) :
           \/ \E k \in 1..Len(idx) : (Has(k) \/ idx[k].ids # <<id>>) /\ t = Kept(k)
           \/ \E val \in ValuesOf(e) : (\A k \in 1..Len(idx) : idx[k].str # val) /\ t = Own(val)
  BY UpdateTerms DEF new
<1>2. ASSUME NEW k \in 1..Len(idx)
      PROVE  /\ Kept(k).str = idx[k].str /\ IsInjective(Kept(k).ids)
             /\ Has(k) \/ idx[k].ids # <<id>> => Kept(k).ids # <<>>
  <2>1. idx[k] \in Term /\ Has(k) \in BOOLEAN /\ IsInjective(idx[k].ids) /\ idx[k].ids # <<>>
    BY DEF Apart
  <2> DEFINE t == idx[k]  a == Has(k)  made == WriteTerm(t, id, a)
  <2>2. t \in Term /\ a \in BOOLEAN /\ IsInjective(t.ids) /\ t.ids # <<>>
    BY <2>1
  <2> HIDE DEF Has, t, a, made
  <2>3. /\ made.str = t.str /\ IsInjective(made.ids)
        /\ a \/ (t.ids # <<>> /\ t.ids # <<id>>) => made.ids # <<>>
    <3>1. made = WriteTerm(t, id, a)
      BY DEF made
    <3>2. IsWritten(made, t, id, a)
      BY <2>2, <3>1, WriteTermIds
    <3> QED
      BY <3>2 DEF IsWritten
  <2> QED
    BY <2>2, <2>3 DEF made, t, a
<1>3. \A val : Own(val).str = val /\ Own(val).ids # <<>> /\ IsInjective(Own(val).ids)
  <2> DEFINE ids == <<id>>
  <2>1. IsInjective(ids) /\ ids # <<>>
    BY SingleFacts
  <2> HIDE DEF ids
  <2>2. \A val : [str |-> val, ids |-> ids].str = val /\ [str |-> val, ids |-> ids].ids = ids
    OBVIOUS
  <2> QED
    BY <2>1, <2>2 DEF ids
<1>4. \A k, n \in 1..Len(idx) : idx[k].str = idx[n].str => k = n
  BY DEF Apart
<1> HIDE DEF Has, Kept, Own
<1>5. ASSUME NEW t \in Range(new), NEW u \in Range(new), t.str = u.str PROVE t = u
  <2>1. CASE \E k \in 1..Len(idx) : t = Kept(k)
    <3>1. PICK k \in 1..Len(idx) : t = Kept(k)
      BY <2>1
    <3>2. ~ \E val \in ValuesOf(e) : (\A n \in 1..Len(idx) : idx[n].str # val) /\ u = Own(val)
      BY <1>2, <1>3, <1>5, <3>1
    <3>3. PICK n \in 1..Len(idx) : u = Kept(n)
      BY <1>1, <3>2
    <3> QED
      BY <1>2, <1>4, <1>5, <3>1, <3>3
  <2>2. CASE ~ \E k \in 1..Len(idx) : t = Kept(k)
    <3>1. PICK val \in ValuesOf(e) : (\A n \in 1..Len(idx) : idx[n].str # val) /\ t = Own(val)
      BY <1>1, <2>2
    <3>2. ~ \E k \in 1..Len(idx) : u = Kept(k)
      BY <1>2, <1>3, <1>5, <3>1
    <3>3. PICK w \in ValuesOf(e) : u = Own(w)
      BY <1>1, <3>2
    <3> QED
      BY <1>3, <1>5, <3>1, <3>3
  <2> QED
    BY <2>1, <2>2
<1>6. ASSUME NEW t \in Range(new) PROVE t.ids # <<>> /\ IsInjective(t.ids)
  BY <1>1, <1>2, <1>3
<1>7. \A k \in DOMAIN new : new[k] \in Range(new)
  BY DEF Range
<1>8. \A k, n \in DOMAIN new : new[k] = new[n] => k = n
  BY <1>1 DEF IsInjective
<1> QED
  BY <1>5, <1>6, <1>7, <1>8 DEF Apart, new

(* After an update the entry is listed under its values, and the others where *)
(* they were.                                                                 *)
LEMMA UpdateLists ==
  ASSUME NEW idx \in Seq(Term), NEW id \in Ids, NEW e \in EntryText, Apart(idx), NEW x, NEW str
  PROVE  x \in ListedUnder(UpdateIndex(idx, id, e), str)
           <=> IF x = id THEN str \in ValuesOf(e) ELSE x \in ListedUnder(idx, str)
<1> DEFINE new == UpdateIndex(idx, id, e)
           Has(k) == idx[k].str \in ValuesOf(e)
           Kept(k) == WriteTerm(idx[k], id, Has(k))
           Own(val) == [str |-> val, ids |-> <<id>>]
<1> HIDE DEF new
<1>1. /\ \A k \in 1..Len(idx) : Has(k) \/ idx[k].ids # <<id>> => Kept(k) \in Range(new)
      /\ \A val \in ValuesOf(e) :
           (\A k \in 1..Len(idx) : idx[k].str # val) => Own(val) \in Range(new)
      /\ \A t \in Range(new) :
           \/ \E k \in 1..Len(idx) : t = Kept(k)
           \/ \E val \in ValuesOf(e) : t = Own(val)
  BY UpdateTerms DEF new
<1>2. ASSUME NEW k \in 1..Len(idx)
      PROVE  /\ Kept(k).str = idx[k].str
             /\ Range(Kept(k).ids) = IF Has(k) THEN Range(idx[k].ids) \cup {id} ELSE Range(idx[k].ids) \ {id}
  <2>1. idx[k] \in Term /\ Has(k) \in BOOLEAN /\ IsInjective(idx[k].ids)
    BY DEF Apart
  <2> HIDE DEF Has
  <2>2. IsWritten(Kept(k), idx[k], id, Has(k))
    BY <2>1, WriteTermIds
  <2> HIDE DEF Kept
  <2> QED
    BY <2>2 DEF IsWritten
<1>3. \A val : Own(val).str = val /\ Range(Own(val).ids) = {id}
  <2> DEFINE ids == <<id>>
  <2>1. Range(ids) = {id}
    BY SingleFacts
  <2> HIDE DEF ids
  <2>2. \A val : [str |-> val, ids |-> ids].str = val /\ [str |-> val, ids |-> ids].ids = ids
    OBVIOUS
  <2> QED
    BY <2>1, <2>2 DEF ids
<1>4. \A t : t \in Range(idx) <=> \E k \in 1..Len(idx) : t = idx[k]
  <2>1. DOMAIN idx = 1..Len(idx)
    OBVIOUS
  <2> QED
    BY <2>1 DEF Range
<1>5. x \in ListedUnder(idx, str) <=> \E k \in 1..Len(idx) : idx[k].str = str /\ x \in Range(idx[k].ids)
  BY <1>4, ListedIn
<1>6. x \in ListedUnder(new, str) <=> \E t \in Range(new) : t.str = str /\ x \in Range(t.ids)
  BY ListedIn
<1>7. Range(<<id>>) = {id}
  BY SingleFacts
<1> HIDE DEF Kept, Own
<1>8. ASSUME x \in ListedUnder(new, str)
      PROVE  IF x = id THEN str \in ValuesOf(e) ELSE x \in ListedUnder(idx, str)
  <2>1. PICK t \in Range(new) : t.str = str /\ x \in Range(t.ids)
    BY <1>6, <1>8
  <2>2. CASE \E k \in 1..Len(idx) : t = Kept(k)
    BY <1>2, <1>5, <2>1, <2>2
  <2>3. CASE \E val \in ValuesOf(e) : t = Own(val)
    BY <1>3, <2>1, <2>3
  <2> QED
    BY <1>1, <2>2, <2>3
<1>9. ASSUME x = id, str \in ValuesOf(e) PROVE x \in ListedUnder(new, str)
  <2>1. CASE \E k \in 1..Len(idx) : idx[k].str = str
    <3>1. PICK k \in 1..Len(idx) : idx[k].str = str
      BY <2>1
    <3>2. Has(k)
      BY <1>9, <3>1
    <3>3. Kept(k) \in Range(new) /\ Kept(k).str = str /\ x \in Range(Kept(k).ids)
      BY <1>1, <1>2, <1>9, <3>1, <3>2
    <3> QED
      BY <1>6, <3>3
  <2>2. CASE ~ \E k \in 1..Len(idx) : idx[k].str = str
    BY <1>1, <1>3, <1>6, <1>9, <2>2
  <2> QED
    BY <2>1, <2>2
<1>10. ASSUME x # id, x \in ListedUnder(idx, str) PROVE x \in ListedUnder(new, str)
  <2>1. PICK k \in 1..Len(idx) : idx[k].str = str /\ x \in Range(idx[k].ids)
    BY <1>5, <1>10
  <2>2. idx[k].ids # <<id>>
    BY <1>7, <1>10, <2>1
  <2>3. Kept(k) \in Range(new) /\ Kept(k).str = str /\ x \in Range(Kept(k).ids)
    BY <1>1, <1>2, <1>10, <2>1, <2>2
  <2> QED
    BY <1>6, <2>3
<1> QED
  BY <1>8, <1>9, <1>10 DEF new

\* An import adds entries.
LEMMA ImportsEntries ==
  ASSUME SessionInv, NEW i \in Ids, NEW good \in BOOLEAN, ImportAdds(i, good)
  PROVE  Left(toServer, 4)[1][1].entry \in EntryText
<1>1. server = "import" /\ NumberIn(Taken(toServer, 4)) # 0 /\ Left(toServer, 4) # <<>>
  BY DEF ImportAdds
<1>2. Rest(toServer, 2, Cmd.import, job)
  BY <1>1, NotIdle DEF SessionInv, Understood
<1>3. IsStream(toServer) /\ toServer # <<>> /\ Tail(toServer) # <<>>
  BY <1>1, <1>2, ImportPairRead
<1>4. Fits(toServer[1], 2, Cmd.import, job) /\ Rest(Tail(toServer), 3, Cmd.import, job)
  <2>1. Rest(Tail(toServer), 2 + 1, Cmd.import, job) /\ 2 + 1 = 3
    BY <1>2, <1>3, RestFirst
  <2> QED
    BY <1>2, <1>3, <2>1, RestFirst
<1>5. Left(toServer, 4) = Tail(toServer)
  <2>1. Len(toServer[1]) = 4
    BY <1>4, CmdFacts DEF Fits
  <2> QED
    BY <1>3, <2>1, TakenCells
<1>6. Fits(Tail(toServer)[1], 3, Cmd.import, job)
  <2> DEFINE t == Tail(toServer)
  <2>1. t # <<>> /\ Rest(t, 3, Cmd.import, job)
    BY <1>3, <1>4
  <2> HIDE DEF t
  <2>2. Fits(t[1], 3, Cmd.import, job)
    BY <2>1, RestFirst
  <2> QED
    BY <2>2 DEF t
<1>7. Tail(toServer)[1][1] \in Sized
  <2>1. Cmd.import = 8 /\ Cmd.edit = 3
    BY CmdFacts
  <2>2. ASSUME NEW r, Fits(r, 3, Cmd.import, job) PROVE r[1] \in Sized
    <3>1. Cmd.import \notin 1..5 /\ Cmd.import # Cmd.edit
      BY <2>1
    <3> QED
      BY <2>2, <3>1 DEF Fits
  <2> QED
    BY <1>6, <2>2
<1> QED
  BY <1>5, <1>7 DEF Sized

(* What may happen to the database in a step.                                 *)
Changed ==
  \/ UNCHANGED <<index, file, damaged>>
  \/ \E i \in Ids, e \in EntryText, good \in BOOLEAN : Update(i, e, good) \/ Delete(i, good)
  \/ \E good \in BOOLEAN : Rekey(good)

LEMMA StepChanges == ASSUME SessionInv, [Next]_vars PROVE Changed
<1>1. CASE UNCHANGED vars
  BY <1>1 DEF vars, db, Changed
<1>2. CASE ServerStep
  <2>1. CASE Pong \/ Accept \/ ReadKek \/ ReadMessage \/ ReadBody \/ ReadValue \/ ServeFind \/ ImportEnds
    BY <2>1 DEF Pong, Accept, ReadKek, ReadMessage, ReadBody, ReadValue, ServeFind, ImportEnds, db, Changed
  <2>2. ASSUME NEW good \in BOOLEAN, ServeEdit(good) PROVE Changed
    <3> DEFINE matches == SearchIndex(index, request.value, 2)
    <3>1. server = "serve" /\ request.cmd = Cmd.edit
      BY <2>2 DEF ServeEdit, Serving
    <3>2. request.entry \in EntryText
      BY <3>1, NotIdle DEF SessionInv, Understood, EntryKnown
    <3>3. matches \in Seq(Ids)
      BY SearchType DEF SessionInv, Typed, Term
    <3>4. CASE matches # <<>>
      <4>1. Update(matches[1], request.entry, good)
        BY <2>2, <3>4 DEF ServeEdit
      <4>2. matches[1] \in Ids
        BY <3>3, <3>4
      <4> HIDE DEF matches
      <4> QED
        BY <3>2, <4>1, <4>2 DEF Changed
    <3>5. CASE matches = <<>>
      BY <2>2, <3>5 DEF ServeEdit, db, Changed
    <3> QED
      BY <3>4, <3>5
  <2>3. ASSUME NEW good \in BOOLEAN, ServeDelete(good) PROVE Changed
    <3> DEFINE matches == SearchIndex(index, request.value, 2)
    <3>1. matches \in Seq(Ids)
      BY SearchType DEF SessionInv, Typed, Term
    <3>2. CASE Len(matches) = 1 /\ Loads(matches[1])
      <4>1. Delete(matches[1], good)
        BY <2>3, <3>2 DEF ServeDelete
      <4>2. matches[1] \in Ids
        BY <3>1, <3>2
      <4> HIDE DEF matches
      <4> QED
        BY <4>1, <4>2, EntryTypes DEF Changed
    <3>3. CASE ~ (Len(matches) = 1 /\ Loads(matches[1]))
      BY <2>3, <3>3 DEF ServeDelete, db, Changed
    <3> QED
      BY <3>2, <3>3
  <2>4. ASSUME NEW good \in BOOLEAN, ServePasswd(good) \/ ServeRekey(good) PROVE Changed
    BY <2>4 DEF ServePasswd, ServeRekey, UpdateKek, Changed
  <2>5. ASSUME NEW good \in BOOLEAN, NEW i \in Ids, ServeAdd(i, good) PROVE Changed
    <3>1. server = "serve" /\ request.cmd = Cmd.add /\ Update(i, request.entry, good)
      BY <2>5 DEF ServeAdd, Serving
    <3>2. request.entry \in EntryText
      BY <3>1, NotIdle DEF SessionInv, Understood, EntryKnown
    <3> QED
      BY <3>1, <3>2 DEF Changed
  <2>6. ASSUME NEW good \in BOOLEAN, NEW i \in Ids, ImportAdds(i, good) PROVE Changed
    <3> DEFINE e == Left(toServer, 4)[1][1].entry
    <3>1. Update(i, e, good) /\ e \in EntryText
      BY <2>6, ImportsEntries DEF ImportAdds
    <3> HIDE DEF e
    <3> QED
      BY <3>1 DEF Changed
  <2>7. ASSUME NEW n \in 0..Cardinality(Ids), ServeExport(n) PROVE Changed
    BY <2>7 DEF ServeExport, db, Changed
  <2> QED
    BY <1>2, <2>1, <2>2, <2>3, <2>4, <2>5, <2>6, <2>7 DEF ServerStep
<1>3. CASE ClientReading
  BY <1>3 DEF ClientReading, Searching, Ping, GiveUp, Connect, ReadMatch, Receive, ReceiveFails, Send, SendEnd, Response, db, Changed
<1>4. CASE UserStep
  BY <1>4 DEF UserStep, Hello, Edited, NewPasswd, ExportPasswd, ImportPasswd, Refused, db, Changed
<1>5. CASE Given \/ Restart \/ Break
  BY <1>5 DEF Given, Start, Restart, Break, db, Changed
<1> QED
  BY <1>1, <1>2, <1>3, <1>4, <1>5 DEF Next

-------------------------------------------------------------------------------
\* The index lists the values

Lists == \A i \in Ids \ damaged : \A str : i \in ListedUnder(index, str) <=> str \in ValuesOf(file[i])
IndexInv == Apart(index) /\ Lists

\* An entry is written and the index is made anew.
LEMMA StoreLists ==
  ASSUME Typed, IndexInv, NEW i \in Ids, NEW e \in EntryText, index' = UpdateIndex(index, i, e),
         NEW new, file' = [file EXCEPT ![i] = new], ValuesOf(new) = ValuesOf(e), damaged' = damaged \ {i}
  PROVE  IndexInv'
<1>1. index \in Seq(Term) /\ Apart(index) /\ file \in [Ids -> Contents]
  BY DEF Typed, Term, IndexInv
<1>2. Apart(index')
  BY <1>1, UpdateApart
<1>3. ASSUME NEW j \in Ids \ damaged', NEW str PROVE j \in ListedUnder(index', str) <=> str \in ValuesOf(file'[j])
  <2>1. j \in ListedUnder(index', str) <=> IF j = i THEN str \in ValuesOf(e) ELSE j \in ListedUnder(index, str)
    BY <1>1, UpdateLists
  <2>2. CASE j = i
    BY <1>1, <2>1, <2>2
  <2>3. CASE j # i
    <3>1. j \in Ids \ damaged /\ file'[j] = file[j]
      BY <1>1, <2>3
    <3> QED
      BY <2>1, <2>3, <3>1 DEF IndexInv, Lists
  <2> QED
    BY <2>2, <2>3
<1> QED
  BY <1>2, <1>3 DEF IndexInv, Lists, Apart

\* The index stays, and only files of entries that are damaged change.
LEMMA DamageLists ==
  ASSUME IndexInv, index' = index, damaged \subseteq damaged',
         \A j \in Ids \ damaged' : file'[j] = file[j]
  PROVE  IndexInv'
BY DEF IndexInv, Lists, Apart

LEMMA IndexKept == ASSUME Typed, IndexInv, Changed PROVE IndexInv'
<1>0. file \in [Ids -> Contents]
  BY DEF Typed
<1>1. CASE UNCHANGED <<index, file, damaged>>
  BY <1>1 DEF IndexInv, Lists, Apart
<1>2. ASSUME NEW i \in Ids, NEW e \in EntryText, NEW good \in BOOLEAN, Update(i, e, good)
      PROVE  IndexInv'
  <2>1. CASE good
    BY <1>2, <2>1, StoreLists DEF Update, Stores
  <2>2. CASE ~ good
    BY <1>0, <1>2, <2>2, DamageLists DEF Update
  <2> QED
    BY <2>1, <2>2
<1>3. ASSUME NEW i \in Ids, NEW good \in BOOLEAN, Delete(i, good) PROVE IndexInv'
  <2>1. CASE good
    <3>1. ValuesOf(Absent) = ValuesOf(<<>>) /\ <<>> \in EntryText
      BY EntryTypes DEF Absent
    <3> QED
      BY <1>3, <2>1, <3>1, StoreLists DEF Delete
  <2>2. CASE ~ good
    BY <1>0, <1>3, <2>2, DamageLists DEF Delete
  <2> QED
    BY <2>1, <2>2
<1>4. ASSUME NEW good \in BOOLEAN, Rekey(good) PROVE IndexInv'
  <2>1. PICK lost : /\ file' = [i \in Ids |-> IF i \in lost THEN Unreadable ELSE file[i]]
                    /\ damaged' = damaged \cup lost
    BY <1>4 DEF Rekey
  <2>2. index' = index
    BY <1>4 DEF Rekey
  <2> QED
    BY <1>0, <2>1, <2>2, DamageLists
<1> QED
  BY <1>1, <1>2, <1>3, <1>4 DEF Changed

LEMMA IndexStarts == Init => IndexInv
<1> SUFFICES ASSUME Init PROVE IndexInv
  OBVIOUS
<1>1. index = <<>> /\ file = [i \in Ids |-> Absent]
  BY DEF Init
<1>2. DOMAIN index = {}
  BY <1>1
<1>3. ASSUME NEW i \in Ids, NEW str PROVE ~ (i \in ListedUnder(index, str)) /\ ~ (str \in ValuesOf(file[i]))
  BY <1>1, <1>2, NoValues DEF ListedUnder, Absent
<1> QED
  BY <1>2, <1>3 DEF IndexInv, Lists, Apart

-------------------------------------------------------------------------------
\* Sizes

LEMMA SizesType ==
  ASSUME NEW terms \in Seq(Term)
  PROVE  /\ SizesOf(terms) \in Seq(Nat) /\ Len(SizesOf(terms)) = Len(terms) /\ Len(terms) \in Nat
         /\ \A n \in 1..Len(terms) : SizesOf(terms)[n] = SizeOf(terms[n]) /\ SizeOf(terms[n]) \in Nat
<1>1. Len(terms) \in Nat /\ DOMAIN terms = 1..Len(terms)
  OBVIOUS
<1>2. ASSUME NEW n \in 1..Len(terms) PROVE SizeOf(terms[n]) \in Nat
  <2>1. Len(terms[n].str) \in Nat /\ Len(terms[n].ids) \in Nat
    BY DEF Term
  <2>2. \A a, b \in Nat : 8 + a + b * 16 \in Nat
    OBVIOUS
  <2> QED
    BY <2>1, <2>2 DEF SizeOf, IdLen
<1>3. SizesOf(terms) \in [1..Len(terms) -> Nat]
  BY <1>1, <1>2 DEF SizesOf
<1>4. SizesOf(terms) \in Seq(Nat) /\ Len(SizesOf(terms)) = Len(terms)
  BY <1>1, <1>3, FunctionIsSeq
<1> QED
  BY <1>1, <1>2, <1>4 DEF SizesOf

LEMMA TermsSizeType == ASSUME NEW terms \in Seq(Term) PROVE TermsSize(terms) \in Nat
<1>1. SizesOf(terms) \in Seq(Nat)
  BY SizesType
<1>2. PICK sum \in [0..Len(SizesOf(terms)) -> Nat] : Total(SizesOf(terms)) = sum[Len(SizesOf(terms))]
  BY <1>1, TotalSteps
<1>3. Len(SizesOf(terms)) \in 0..Len(SizesOf(terms))
  BY <1>1
<1> QED
  BY <1>2, <1>3 DEF TermsSize

LEMMA TermsSizeFew ==
  /\ TermsSize(<<>>) = 0
  /\ \A t \in Term : TermsSize(<<t>>) = SizeOf(t)
<1>1. TermsSize(<<>>) = 0
  <2>1. <<>> \in Seq(Term)
    OBVIOUS
  <2>2. SizesOf(<<>>) \in Seq(Nat) /\ Len(SizesOf(<<>>)) = 0
    BY <2>1, SizesType
  <2> DEFINE f == [n \in 0..0 |-> 0]
  <2>3. f[0] = 0 /\ \A n \in 1..Len(SizesOf(<<>>)) : f[n] = f[n - 1] + SizesOf(<<>>)[n]
    BY <2>2
  <2> HIDE DEF f
  <2>4. Total(SizesOf(<<>>)) = f[Len(SizesOf(<<>>))]
    BY <2>2, <2>3, TotalIs
  <2> QED
    BY <2>2, <2>3, <2>4 DEF TermsSize
<1>2. ASSUME NEW t \in Term PROVE TermsSize(<<t>>) = SizeOf(t)
  <2> DEFINE s == <<t>>
  <2>1. s \in Seq(Term) /\ Len(s) = 1 /\ s[1] = t
    OBVIOUS
  <2> HIDE DEF s
  <2>2. /\ SizesOf(s) \in Seq(Nat) /\ Len(SizesOf(s)) = 1
        /\ SizesOf(s)[1] = SizeOf(t) /\ SizeOf(t) \in Nat
    <3>1. 1 \in 1..Len(s)
      BY <2>1
    <3> QED
      BY <2>1, <3>1, SizesType
  <2> DEFINE f == [n \in 0..1 |-> IF n = 0 THEN 0 ELSE SizeOf(t)]
  <2>3. f[0] = 0 /\ f[1] = SizeOf(t) /\ \A n \in 1..Len(SizesOf(s)) : f[n] = f[n - 1] + SizesOf(s)[n]
    BY <2>2
  <2> HIDE DEF f
  <2>4. Total(SizesOf(s)) = f[Len(SizesOf(s))]
    BY <2>2, <2>3, TotalIs
  <2> QED
    BY <2>2, <2>3, <2>4 DEF TermsSize, s
<1> QED
  BY <1>1, <1>2

LEMMA TermsSizeJoin ==
  ASSUME NEW s \in Seq(Term), NEW t \in Seq(Term)
  PROVE  TermsSize(s \o t) = TermsSize(s) + TermsSize(t)
<1> DEFINE u == s \o t
           n == Len(s)
           m == Len(t)
<1>1. u \in Seq(Term) /\ Len(u) = n + m /\ n \in Nat /\ m \in Nat
      /\ (\A k \in 1..n : u[k] = s[k]) /\ (\A k \in 1..m : u[n + k] = t[k])
  OBVIOUS
<1>2. /\ SizesOf(s) \in Seq(Nat) /\ Len(SizesOf(s)) = n
      /\ \A k \in 1..n : SizesOf(s)[k] = SizeOf(s[k])
  BY SizesType
<1>3. /\ SizesOf(t) \in Seq(Nat) /\ Len(SizesOf(t)) = m
      /\ \A k \in 1..m : SizesOf(t)[k] = SizeOf(t[k])
  BY SizesType
<1> HIDE DEF u
<1>4. /\ SizesOf(u) \in Seq(Nat) /\ Len(SizesOf(u)) = n + m
      /\ \A k \in 1..(n + m) : SizesOf(u)[k] = SizeOf(u[k])
  BY <1>1, SizesType
<1> HIDE DEF n, m
<1>5. PICK a \in [0..n -> Nat] :
        a[0] = 0 /\ Total(SizesOf(s)) = a[n] /\ \A k \in 1..n : a[k] = a[k - 1] + SizesOf(s)[k]
  BY <1>2, TotalSteps
<1>6. PICK b \in [0..m -> Nat] :
        b[0] = 0 /\ Total(SizesOf(t)) = b[m] /\ \A k \in 1..m : b[k] = b[k - 1] + SizesOf(t)[k]
  BY <1>3, TotalSteps
<1> DEFINE f == [k \in 0..(n + m) |-> IF k <= n THEN a[k] ELSE a[n] + b[k - n]]
<1>7. ASSUME NEW k \in 1..(n + m) PROVE f[k] = f[k - 1] + SizesOf(u)[k]
  <2>1. CASE k <= n
    <3>1. k \in 1..n /\ k \in 0..(n + m) /\ k - 1 \in 0..(n + m) /\ k - 1 <= n
      BY <1>1, <2>1
    <3>2. f[k] = a[k] /\ f[k - 1] = a[k - 1]
      BY <2>1, <3>1
    <3>3. SizesOf(u)[k] = SizesOf(s)[k]
      BY <1>1, <1>2, <1>4, <3>1
    <3> QED
      BY <1>5, <3>1, <3>2, <3>3
  <2>2. CASE ~ (k <= n)
    <3> DEFINE j == k - n
    <3>1. j \in 1..m /\ k = n + j /\ k \in 0..(n + m) /\ k - 1 \in 0..(n + m) /\ k - 1 - n = j - 1
      BY <1>1, <2>2
    <3>2. f[k] = a[n] + b[j]
      BY <2>2, <3>1
    <3>3. f[k - 1] = a[n] + b[j - 1]
      <4>1. CASE k - 1 <= n
        <5>1. k - 1 = n /\ j = 1 /\ n \in 0..n
          BY <1>1, <2>2, <3>1, <4>1
        <5>2. a[n] \in Nat
          BY <5>1
        <5>3. f[k - 1] = a[k - 1]
          BY <3>1, <4>1
        <5> HIDE DEF f, j
        <5>4. b[j - 1] = 0
          BY <1>6, <5>1
        <5> QED
          BY <5>1, <5>2, <5>3, <5>4
      <4>2. CASE ~ (k - 1 <= n)
        BY <3>1, <4>2
      <4> QED
        BY <4>1, <4>2
    <3> HIDE DEF f, j
    <3>4. SizesOf(u)[k] = SizesOf(t)[j]
      <4>1. u[n + j] = t[j]
        BY <1>1, <3>1
      <4> QED
        BY <1>3, <1>4, <3>1, <4>1
    <3>5. b[j] = b[j - 1] + SizesOf(t)[j]
      BY <1>6, <3>1
    <3>6. a[n] \in Nat /\ b[j - 1] \in Nat /\ SizesOf(t)[j] \in Nat
      <4>1. n \in 0..n /\ j - 1 \in 0..m
        BY <1>1, <3>1
      <4>2. a[n] \in Nat /\ b[j - 1] \in Nat
        BY <4>1
      <4>3. SizesOf(t)[j] \in Nat
        BY <1>3, <3>1
      <4> QED
        BY <4>2, <4>3
    <3> QED
      BY <3>2, <3>3, <3>4, <3>5, <3>6
  <2> QED
    BY <2>1, <2>2
<1>8. f[0] = 0
  BY <1>1, <1>5
<1>9. f[n + m] = a[n] + b[m]
  <2>1. n + m \in 0..(n + m) /\ (n + m <= n => m = 0) /\ n + m - n = m
    BY <1>1
  <2>2. n \in 0..n /\ m \in 0..m
    BY <1>1
  <2>3. a[n] \in Nat /\ b[m] \in Nat
    BY <2>2
  <2>4. CASE n + m <= n
    <3>1. n + m = n /\ m = 0
      BY <1>1, <2>1, <2>4
    <3>2. f[n + m] = a[n] /\ b[m] = 0
      BY <1>6, <2>1, <3>1
    <3> QED
      BY <2>3, <3>2
  <2>5. CASE ~ (n + m <= n)
    <3>1. f[n + m] = a[n] + b[n + m - n]
      BY <1>1, <2>1, <2>5
    <3> HIDE DEF f
    <3> QED
      BY <2>1, <3>1
  <2> QED
    BY <2>4, <2>5
<1> HIDE DEF f
<1>10. Total(SizesOf(u)) = f[n + m]
  BY <1>4, <1>7, <1>8, TotalIs
<1> QED
  BY <1>5, <1>6, <1>9, <1>10 DEF TermsSize, u

(* The terms of sequences that are joined take no more than a bound that each *)
(* sequence keeps to.                                                         *)
LEMMA TermsSizeFlat ==
  ASSUME NEW f, IsSeq(f), \A i \in 1..Len(f) : f[i] \in Seq(Term),
         NEW b \in [0..Len(f) -> Int], b[0] = 0,
         \A i \in 1..Len(f) : b[i - 1] + TermsSize(f[i]) <= b[i]
  PROVE  FlattenSeq(f) \in Seq(Term) /\ TermsSize(FlattenSeq(f)) <= b[Len(f)]
<1>0. Len(f) \in Nat
  BY IsSeqFacts
<1>1. CASE Len(f) = 0
  <2>1. FlattenSeq(f) = <<>>
    BY <1>1, IsSeqFacts, TupleFacts DEF FlattenSeq
  <2>2. <<>> \in Seq(Term)
    OBVIOUS
  <2> QED
    BY <1>1, <2>1, <2>2, TermsSizeFew
<1>2. CASE Len(f) # 0
  <2>1. PICK g : /\ g[1] = f[1]
                 /\ \A i \in 2..Len(f) : g[i] = g[i - 1] \o f[i]
                 /\ FlattenSeq(f) = g[Len(f)]
    BY <1>0, <1>2, Joined, Zenon
  <2> DEFINE Good == {i \in 1..Len(f) : g[i] \in Seq(Term) /\ TermsSize(g[i]) <= b[i]}
  <2>2. 1 \in Good
    <3>1. 1 \in 1..Len(f) /\ 1 - 1 = 0
      BY <1>0, <1>2
    <3>2. b[1 - 1] + TermsSize(f[1]) <= b[1] /\ f[1] \in Seq(Term)
      BY <3>1
    <3>3. TermsSize(f[1]) \in Nat
      BY <3>2, TermsSizeType
    <3> QED
      BY <2>1, <3>1, <3>2, <3>3
  <2>3. ASSUME NEW i \in 2..Len(f), i - 1 \in Good PROVE i \in Good
    <3>1. i \in 1..Len(f) /\ i - 1 \in 1..Len(f) /\ i - 1 \in 0..Len(f) /\ i \in 0..Len(f)
      BY <1>0
    <3> DEFINE p == g[i - 1]
               q == f[i]
               x == b[i - 1]
               y == b[i]
    <3>2. p \in Seq(Term) /\ q \in Seq(Term) /\ g[i] = p \o q
      BY <2>1, <2>3, <3>1
    <3>3. TermsSize(p) <= x /\ x + TermsSize(q) <= y /\ x \in Int /\ y \in Int
      BY <2>3, <3>1
    <3> HIDE DEF p, q, x, y
    <3>4. p \o q \in Seq(Term)
      BY <3>2
    <3>5. TermsSize(p \o q) = TermsSize(p) + TermsSize(q) /\ TermsSize(p) \in Nat /\ TermsSize(q) \in Nat
      BY <3>2, TermsSizeJoin, TermsSizeType
    <3>6. TermsSize(p \o q) <= y
      BY <3>3, <3>5
    <3> QED
      BY <3>1, <3>2, <3>4, <3>6 DEF y
  <2>4. Len(f) \in Good
    <3>1. Len(f) \in 1..Len(f)
      BY <1>0, <1>2
    <3> HIDE DEF Good
    <3> QED
      BY <1>0, <2>2, <2>3, <3>1, AllFromFirst
  <2> QED
    BY <2>1, <2>4
<1> QED
  BY <1>1, <1>2

\* A term grows by at most the name of an entry.
LEMMA WriteTermSize ==
  ASSUME NEW term \in Term, NEW id \in Ids, NEW append \in BOOLEAN
  PROVE  SizeOf(WriteTerm(term, id, append)) <= SizeOf(term) + (IF append THEN IdLen ELSE 0)
<1> DEFINE ids == term.ids
           f == [k \in DOMAIN ids |-> IF ids[k] = id THEN <<>> ELSE <<ids[k]>>]
           new == WriteTerm(term, id, append)
<1>1. /\ new.str = term.str
      /\ new.ids = IF ~ append THEN FlattenSeq(f) ELSE IF Contains(ids, id) THEN ids ELSE Append(ids, id)
  BY DEF WriteTerm, Term
<1>2. ids \in Seq(Ids) /\ Len(ids) \in Nat /\ DOMAIN ids = 1..Len(ids) /\ Len(term.str) \in Nat
  BY DEF Term
<1>3. new \in Term
  BY WriteTermType
<1> HIDE DEF ids, new
<1>4. Len(new.ids) \in Nat
  BY <1>3 DEF Term
<1>5. Len(new.ids) <= Len(ids) + (IF append THEN 1 ELSE 0)
  <2>1. CASE append
    BY <1>1, <1>2, <2>1
  <2>2. CASE ~ append
    <3>1. \A k \in 1..Len(ids) : f[k] = IF ids[k] = id THEN <<>> ELSE <<ids[k]>>
      BY <1>2
    <3>2. IsSeq(f) /\ Len(f) = Len(ids)
      <4> DEFINE S == {f[k] : k \in 1..Len(ids)}
      <4>1. f \in [1..Len(ids) -> S]
        BY <1>2
      <4> HIDE DEF f, S
      <4>2. f \in Seq(S) /\ Len(f) = Len(ids)
        BY <1>2, <4>1, FunctionIsSeq
      <4> QED
        BY <4>2, SeqIsSeq
    <3> HIDE DEF f
    <3>3. ASSUME NEW k \in 1..Len(f) PROVE IsSeq(f[k]) /\ Len(f[k]) <= 1
      <4> DEFINE x == ids[k]
      <4>1. f[k] \in {<<>>, <<x>>}
        BY <3>1, <3>2
      <4> HIDE DEF x
      <4>2. IsSeq(<<>>) /\ Len(<<>>) <= 1 /\ IsSeq(<<x>>) /\ Len(<<x>>) <= 1
        BY TupleFacts
      <4>3. CASE f[k] = <<>>
        BY <4>2, <4>3
      <4>4. CASE f[k] = <<x>>
        BY <4>2, <4>4
      <4> QED
        BY <4>1, <4>3, <4>4
    <3>4. Len(FlattenSeq(f)) <= Len(f)
      BY <3>2, <3>3, FlattenShort
    <3> QED
      BY <1>1, <1>2, <2>2, <3>2, <3>4
  <2> QED
    BY <2>1, <2>2
<1>6. \A a, b, c \in Nat : /\ c <= b => 8 + a + c * 16 <= 8 + a + b * 16
                           /\ c <= b + 1 => 8 + a + c * 16 <= 8 + a + b * 16 + 16
  OBVIOUS
<1>7. /\ SizeOf(new) = 8 + Len(term.str) + Len(new.ids) * 16
      /\ SizeOf(term) = 8 + Len(term.str) + Len(ids) * 16
  BY <1>1 DEF SizeOf, IdLen, ids
<1>8. SizeOf(term) \in Nat
  <2>1. \A a, b \in Nat : 8 + a + b * 16 \in Nat
    OBVIOUS
  <2>2. Len(ids) \in Nat /\ Len(term.str) \in Nat
    BY <1>2
  <2> QED
    BY <1>7, <2>1, <2>2
<1>9. CASE append
  <2>1. SizeOf(new) <= SizeOf(term) + 16
    BY <1>2, <1>4, <1>5, <1>6, <1>7, <1>9
  <2> QED
    BY <1>9, <2>1 DEF IdLen, new
<1>10. CASE ~ append
  <2>1. Len(new.ids) <= Len(ids)
    BY <1>2, <1>5, <1>10
  <2>2. SizeOf(new) <= SizeOf(term)
    BY <1>2, <1>4, <1>6, <1>7, <2>1
  <2> QED
    BY <1>8, <1>10, <2>2 DEF new
<1> QED
  BY <1>9, <1>10

(* Of terms with different values, no more than there are values in a         *)
(* sequence have one of them.                                                 *)
LEMMA TermsWithValues ==
  ASSUME NEW idx \in Seq(Term), Apart(idx), NEW vals, IsSeq(vals),
         NEW H, H = {i \in 1..Len(idx) : idx[i].str \in Range(vals)}
  PROVE  IsFiniteSet(H) /\ Cardinality(H) <= Len(vals)
<1>1. Len(idx) \in Nat /\ DOMAIN idx = 1..Len(idx) /\ Len(vals) \in Nat /\ DOMAIN vals = 1..Len(vals)
  BY IsSeqFacts
<1> DEFINE at(i) == CHOOSE j \in 1..Len(vals) : vals[j] = idx[i].str
           h == [i \in H |-> at(i)]
<1>2. ASSUME NEW i \in H PROVE at(i) \in 1..Len(vals) /\ vals[at(i)] = idx[i].str
  <2>1. \E j \in 1..Len(vals) : vals[j] = idx[i].str
    BY <1>1 DEF Range
  <2> QED
    BY <2>1
<1> HIDE DEF at
<1>3. h \in [H -> 1..Len(vals)]
  BY <1>2
<1>4. ASSUME NEW i \in H, NEW k \in H, h[i] = h[k] PROVE i = k
  <2>1. idx[i].str = idx[k].str
    BY <1>2, <1>4
  <2>2. i \in DOMAIN idx /\ k \in DOMAIN idx
    BY <1>1
  <2> QED
    BY <2>1, <2>2 DEF Apart
<1>5. h \in Injection(H, 1..Len(vals))
  <2>1. DOMAIN h = H
    OBVIOUS
  <2> HIDE DEF h
  <2> QED
    BY <1>3, <1>4, <2>1 DEF Injection, IsInjective
<1>6. IsFiniteSet(1..Len(vals)) /\ Cardinality(1..Len(vals)) = Len(vals)
  <2>1. 1 \in Int /\ Len(vals) \in Int
    BY <1>1
  <2>2. IsFiniteSet(1..Len(vals)) /\ Cardinality(1..Len(vals)) = IF 1 > Len(vals) THEN 0 ELSE Len(vals) - 1 + 1
    BY <2>1, FS_Interval
  <2> QED
    BY <1>1, <2>2
<1> HIDE DEF h
<1>7. IsFiniteSet(H) /\ Cardinality(H) <= Cardinality(1..Len(vals))
  BY <1>5, <1>6, FS_Injection
<1> QED
  BY <1>6, <1>7

\* What is left of the terms takes what they took, and a name for each value.
LEMMA OldTermsFit ==
  ASSUME NEW idx \in Seq(Term), NEW id \in Ids, NEW vals, IsSeq(vals), Apart(idx),
         NEW f, IsSeq(f), Len(f) = Len(idx),
         \A k \in 1..Len(idx) : \E has \in BOOLEAN :
           /\ has => idx[k].str \in Range(vals)
           /\ f[k] \in {<<>>, <<WriteTerm(idx[k], id, has)>>}
  PROVE  FlattenSeq(f) \in Seq(Term) /\ TermsSize(FlattenSeq(f)) <= TermsSize(idx) + 16 * Len(vals)
<1> DEFINE n == Len(idx)
           m == Len(vals)
           H(k) == {i \in 1..k : idx[i].str \in Range(vals)}
           c(k) == Cardinality(H(k))
<1>1. n \in Nat /\ m \in Nat
  BY IsSeqFacts
<1>2. ASSUME NEW k \in 0..n PROVE IsFiniteSet(H(k)) /\ c(k) \in Nat
  <2>1. IsFiniteSet(1..k)
    BY <1>1, FS_Interval
  <2>2. H(k) \in SUBSET (1..k)
    OBVIOUS
  <2> HIDE DEF H
  <2>3. IsFiniteSet(H(k))
    BY <2>1, <2>2, FS_Subset
  <2> QED
    BY <2>3, FS_CardinalityType
<1>3. c(0) = 0
  <2>1. H(0) = {}
    OBVIOUS
  <2> HIDE DEF H
  <2> QED
    BY <2>1, FS_EmptySet
<1>4. ASSUME NEW k \in 1..n PROVE c(k) = c(k - 1) + (IF idx[k].str \in Range(vals) THEN 1 ELSE 0)
  <2>1. k - 1 \in 0..n /\ k \in 0..n
    BY <1>1
  <2>2. k \notin H(k - 1)
    BY <1>1
  <2>3. H(k) = IF idx[k].str \in Range(vals) THEN H(k - 1) \cup {k} ELSE H(k - 1)
    <3>1. \A i : i \in 1..k <=> i \in 1..(k - 1) \/ i = k
      BY <1>1
    <3> QED
      BY <3>1
  <2> HIDE DEF H
  <2>4. IsFiniteSet(H(k - 1)) /\ c(k - 1) \in Nat
    BY <1>2, <2>1
  <2>5. Cardinality(H(k - 1) \cup {k}) = Cardinality(H(k - 1)) + 1
    BY <2>2, <2>4, FS_AddElement
  <2> QED
    BY <2>3, <2>4, <2>5
<1>5. c(n) <= m
  <2> DEFINE S == H(n)
  <2>1. S = {i \in 1..Len(idx) : idx[i].str \in Range(vals)}
    OBVIOUS
  <2> HIDE DEF S
  <2>2. Cardinality(S) <= Len(vals)
    BY <2>1, TermsWithValues
  <2> QED
    BY <2>2 DEF S
<1> HIDE DEF c, m
<1>6. /\ SizesOf(idx) \in Seq(Nat) /\ Len(SizesOf(idx)) = n
      /\ \A k \in 1..n : SizesOf(idx)[k] = SizeOf(idx[k]) /\ SizeOf(idx[k]) \in Nat
  BY SizesType
<1> HIDE DEF n
<1>7. PICK w \in [0..n -> Nat] :
        w[0] = 0 /\ Total(SizesOf(idx)) = w[n] /\ \A k \in 1..n : w[k] = w[k - 1] + SizesOf(idx)[k]
  BY <1>6, TotalSteps
<1> DEFINE b == [k \in 0..n |-> w[k] + 16 * c(k)]
<1>8. b \in [0..n -> Int]
  <2>1. ASSUME NEW k \in 0..n PROVE w[k] + 16 * c(k) \in Int
    <3>1. w[k] \in Nat /\ c(k) \in Nat
      BY <1>2
    <3> QED
      BY <3>1
  <2> QED
    BY <2>1
<1>9. b[0] = 0
  BY <1>1, <1>3, <1>7
<1>10. ASSUME NEW k \in 1..n PROVE f[k] \in Seq(Term) /\ b[k - 1] + TermsSize(f[k]) <= b[k]
  <2>1. k - 1 \in 0..n /\ k \in 0..n
    BY <1>1
  <2>2. PICK has \in BOOLEAN : /\ has => idx[k].str \in Range(vals)
                               /\ f[k] \in {<<>>, <<WriteTerm(idx[k], id, has)>>}
    BY DEF n
  <2> DEFINE t == idx[k]
             new == WriteTerm(t, id, has)
             x == SizeOf(t)
  <2>3. t \in Term
    BY <1>1 DEF n
  <2>4. x \in Nat /\ w[k] = w[k - 1] + x
    BY <1>6, <1>7
  <2>5. b[k - 1] = w[k - 1] + 16 * c(k - 1) /\ b[k] = w[k] + 16 * c(k)
    BY <2>1
  <2>6. w[k - 1] \in Nat /\ c(k - 1) \in Nat
    BY <1>2, <2>1
  <2>7. c(k) = c(k - 1) + (IF t.str \in Range(vals) THEN 1 ELSE 0)
    BY <1>4
  <2>8. f[k] = <<>> \/ f[k] = <<new>>
    BY <2>2
  <2>9. has => t.str \in Range(vals)
    BY <2>2
  <2> HIDE DEF b, t
  <2>10. new \in Term /\ SizeOf(new) <= x + (IF has THEN IdLen ELSE 0) /\ SizeOf(new) \in Nat
    <3>1. new \in Term
      BY <2>3, WriteTermType
    <3> DEFINE one == <<new>>
    <3>2. one \in Seq(Term) /\ one[1] = new /\ Len(one) = 1
      BY <3>1
    <3> HIDE DEF one
    <3>3. SizeOf(new) \in Nat
      <4>1. 1 \in 1..Len(one)
        BY <3>2
      <4> QED
        BY <3>2, <4>1, SizesType
    <3> QED
      BY <2>3, <3>1, <3>3, WriteTermSize
  <2> HIDE DEF new, x
  <2>11. f[k] \in Seq(Term) /\ TermsSize(f[k]) \in Nat /\ TermsSize(f[k]) <= x + (IF has THEN 16 ELSE 0)
    <3>1. CASE f[k] = <<>>
      <4>1. <<>> \in Seq(Term) /\ TermsSize(<<>>) = 0
        BY TermsSizeFew
      <4> QED
        BY <2>4, <3>1, <4>1
    <3>2. CASE f[k] = <<new>>
      <4>1. <<new>> \in Seq(Term) /\ TermsSize(<<new>>) = SizeOf(new)
        BY <2>10, TermsSizeFew
      <4> QED
        BY <2>10, <3>2, <4>1 DEF IdLen
    <3> QED
      BY <2>8, <3>1, <3>2
  <2> DEFINE d == IF t.str \in Range(vals) THEN 1 ELSE 0
             z == TermsSize(f[k])
             p == w[k - 1]
             q == c(k - 1)
  <2>12. d \in Nat /\ z \in Nat /\ z <= x + 16 * d /\ p \in Nat /\ q \in Nat /\ x \in Nat
    BY <2>4, <2>6, <2>9, <2>11
  <2>13. b[k - 1] = p + 16 * q /\ b[k] = (p + x) + 16 * (q + d)
    BY <2>4, <2>5, <2>7
  <2> HIDE DEF d, z, p, q
  <2>14. (p + 16 * q) + z <= (p + x) + 16 * (q + d)
    BY <2>12
  <2> QED
    BY <2>11, <2>13, <2>14 DEF z
<1> HIDE DEF b
<1>11. FlattenSeq(f) \in Seq(Term) /\ TermsSize(FlattenSeq(f)) <= b[n]
  <2>1. Len(f) = n
    BY DEF n
  <2> QED
    BY <1>8, <1>9, <1>10, <2>1, TermsSizeFlat
<1>12. b[n] <= TermsSize(idx) + 16 * m
  <2>1. n \in 0..n
    BY <1>1
  <2>2. b[n] = w[n] + 16 * c(n) /\ w[n] \in Nat /\ c(n) \in Nat
    BY <1>2, <2>1 DEF b
  <2>3. TermsSize(idx) = w[n]
    BY <1>7 DEF TermsSize
  <2> QED
    BY <1>1, <1>5, <2>2, <2>3
<1>13. b[n] \in Int /\ TermsSize(idx) \in Nat /\ TermsSize(FlattenSeq(f)) \in Nat
  <2>1. n \in 0..n
    BY <1>1
  <2> QED
    BY <1>8, <1>11, <2>1, TermsSizeType
<1> QED
  BY <1>1, <1>11, <1>12, <1>13 DEF m

\* The terms of new values take no more than is counted for values, but a name.
LEMMA NewTermsFit ==
  ASSUME NEW id \in Ids, NEW vals \in Seq(Seq(Nat)), NEW sizes,
         sizes = [j \in DOMAIN vals |-> TermSize + Len(vals[j]) + IdLen],
         NEW g, IsSeq(g), Len(g) = Len(vals),
         \A j \in 1..Len(vals) : g[j] \in {<<>>, <<[str |-> vals[j], ids |-> <<id>>]>>}
  PROVE  FlattenSeq(g) \in Seq(Term) /\ TermsSize(FlattenSeq(g)) <= Total(sizes) - 16 * Len(vals)
<1> DEFINE m == Len(vals)
<1>1. m \in Nat /\ DOMAIN vals = 1..m
  OBVIOUS
<1>2. \A j \in 1..m : Len(vals[j]) \in Nat /\ sizes[j] = 40 + Len(vals[j])
  <2>1. \A a \in Nat : 24 + a + 16 = 40 + a
    OBVIOUS
  <2>2. \A j \in 1..m : Len(vals[j]) \in Nat /\ sizes[j] = 24 + Len(vals[j]) + 16
    BY <1>1 DEF TermSize, IdLen
  <2> QED
    BY <2>1, <2>2
<1>3. sizes \in Seq(Nat) /\ Len(sizes) = m
  <2>1. sizes = [j \in 1..m |-> sizes[j]]
    BY <1>1
  <2> HIDE DEF m
  <2>2. ASSUME NEW j \in 1..m PROVE sizes[j] \in Nat
    <3>1. Len(vals[j]) \in Nat /\ sizes[j] = 40 + Len(vals[j])
      BY <1>2
    <3> QED
      BY <3>1
  <2>3. sizes \in [1..m -> Nat]
    BY <2>1, <2>2
  <2> QED
    BY <1>1, <2>3, FunctionIsSeq
<1> HIDE DEF m
<1>4. PICK u \in [0..m -> Nat] :
        u[0] = 0 /\ Total(sizes) = u[m] /\ \A j \in 1..m : u[j] = u[j - 1] + sizes[j]
  BY <1>3, TotalSteps
<1> DEFINE b == [j \in 0..m |-> u[j] - 16 * j]
<1>5. b \in [0..m -> Int]
  <2>1. ASSUME NEW j \in 0..m PROVE u[j] - 16 * j \in Int
    <3>1. u[j] \in Nat /\ j \in Nat
      BY <1>1
    <3> QED
      BY <3>1
  <2> QED
    BY <2>1
<1>6. b[0] = 0
  BY <1>1, <1>4
<1>7. ASSUME NEW j \in 1..m PROVE g[j] \in Seq(Term) /\ b[j - 1] + TermsSize(g[j]) <= b[j]
  <2> DEFINE val == vals[j]
             ids == <<id>>
             t == [str |-> val, ids |-> ids]
             x == Len(val)
  <2>1. val \in Seq(Nat) /\ x \in Nat /\ j - 1 \in 0..m /\ j \in 0..m /\ j \in Nat
    BY <1>1 DEF m
  <2>2. ids \in Seq(Ids) /\ Len(ids) = 1
    OBVIOUS
  <2>3. g[j] \in {<<>>, <<t>>}
    BY DEF m
  <2>4. u[j] = u[j - 1] + (40 + x) /\ u[j - 1] \in Nat
    BY <1>2, <1>4, <2>1
  <2>5. b[j - 1] = u[j - 1] - 16 * (j - 1) /\ b[j] = u[j] - 16 * j
    BY <2>1
  <2> HIDE DEF val, ids, x, b
  <2>6. t \in Term /\ SizeOf(t) = 8 + x + 1 * 16
    BY <2>1, <2>2 DEF Term, SizeOf, IdLen, x
  <2> HIDE DEF t
  <2>7. g[j] \in Seq(Term) /\ TermsSize(g[j]) \in Nat /\ TermsSize(g[j]) <= 24 + x
    <3>1. CASE g[j] = <<>>
      <4>1. <<>> \in Seq(Term) /\ TermsSize(<<>>) = 0
        BY TermsSizeFew
      <4> QED
        BY <2>1, <3>1, <4>1
    <3>2. CASE g[j] = <<t>>
      <4>1. <<t>> \in Seq(Term) /\ TermsSize(<<t>>) = SizeOf(t)
        BY <2>6, TermsSizeFew
      <4> QED
        BY <2>1, <2>6, <3>2, <4>1
    <3> QED
      BY <2>3, <3>1, <3>2
  <2> DEFINE z == TermsSize(g[j])
             p == u[j - 1]
  <2>8. z \in Nat /\ z <= 24 + x /\ p \in Nat /\ x \in Nat
    BY <2>1, <2>4, <2>7
  <2>9. b[j - 1] = p - 16 * (j - 1) /\ b[j] = (p + (40 + x)) - 16 * j
    BY <2>4, <2>5
  <2> HIDE DEF z, p
  <2>10. (p - 16 * (j - 1)) + z <= (p + (40 + x)) - 16 * j
    BY <2>1, <2>8
  <2>11. b[j - 1] + z <= b[j]
    BY <2>9, <2>10
  <2> QED
    BY <2>7, <2>11 DEF z
<1> HIDE DEF b
<1>8. FlattenSeq(g) \in Seq(Term) /\ TermsSize(FlattenSeq(g)) <= b[m]
  <2>1. Len(g) = m
    BY DEF m
  <2> QED
    BY <1>5, <1>6, <1>7, <2>1, TermsSizeFlat
<1>9. b[m] = Total(sizes) - 16 * m
  <2>1. m \in 0..m
    BY <1>1
  <2> QED
    BY <1>4, <2>1 DEF b
<1> QED
  BY <1>8, <1>9 DEF m

(* What is written of an index fits the size computed for it.                 *)
LEMMA UpdateFits ==
  ASSUME NEW idx \in Seq(Term), NEW id \in Ids, NEW e \in EntryText, Apart(idx)
  PROVE  IndexSize(UpdateIndex(idx, id, e)) <= UpdateSize(idx, e)
<1> DEFINE vals == Written(e)
           sizes == [j \in DOMAIN vals |-> TermSize + Len(vals[j]) + IdLen]
<1>1. PICK f, g : UpdateIndex(idx, id, e) = FlattenSeq(f) \o FlattenSeq(g) /\ Writes(f, g, idx, id, e)
  BY UpdateMakes
<1>2. vals \in Seq(Seq(Nat)) /\ IsSeq(vals) /\ Range(vals) = ValuesOf(e)
  <2>1. vals \in Seq(Seq(Nat)) /\ Range(vals) = ValuesOf(e)
    BY WrittenType, WrittenValues
  <2> HIDE DEF vals
  <2> QED
    BY <2>1, SeqIsSeq
<1>3. UpdateSize(idx, e) = IndexSize(idx) + Total(sizes)
  BY DEF UpdateSize
<1>4. /\ IsSeq(f) /\ Len(f) = Len(idx) /\ IsSeq(g) /\ Len(g) = Len(vals)
      /\ \A j \in 1..Len(vals) : g[j] \in {<<>>, <<[str |-> vals[j], ids |-> <<id>>]>>}
  BY <1>1 DEF Writes
<1>5. ASSUME NEW k \in 1..Len(idx)
      PROVE  \E has \in BOOLEAN :
               /\ has => idx[k].str \in Range(vals)
               /\ f[k] \in {<<>>, <<WriteTerm(idx[k], id, has)>>}
  <2> DEFINE has == idx[k].str \in ValuesOf(e)
  <2>1. f[k] = IF ~ has /\ idx[k].ids = <<id>> THEN <<>> ELSE <<WriteTerm(idx[k], id, has)>>
    BY <1>1 DEF Writes
  <2>2. has \in BOOLEAN /\ (has => idx[k].str \in Range(vals))
    BY <1>2
  <2> HIDE DEF has, vals
  <2>3. f[k] \in {<<>>, <<WriteTerm(idx[k], id, has)>>}
    BY <2>1
  <2> QED
    BY <2>2, <2>3
<1> HIDE DEF vals
<1>6. FlattenSeq(f) \in Seq(Term) /\ TermsSize(FlattenSeq(f)) <= TermsSize(idx) + 16 * Len(vals)
  BY <1>2, <1>4, <1>5, OldTermsFit
<1>7. FlattenSeq(g) \in Seq(Term) /\ TermsSize(FlattenSeq(g)) <= Total(sizes) - 16 * Len(vals)
  BY <1>2, <1>4, NewTermsFit
<1>8. Total(sizes) \in Nat /\ Len(vals) \in Nat
  <2>1. Len(vals) \in Nat /\ DOMAIN vals = 1..Len(vals) /\ \A j \in 1..Len(vals) : Len(vals[j]) \in Nat
    BY <1>2
  <2>2. \A j \in 1..Len(vals) : sizes[j] \in Nat
    BY <2>1 DEF TermSize, IdLen
  <2>3. sizes = [j \in 1..Len(vals) |-> sizes[j]]
    BY <2>1
  <2> HIDE DEF sizes
  <2>4. sizes \in [1..Len(vals) -> Nat]
    BY <2>2, <2>3
  <2>5. sizes \in Seq(Nat) /\ Len(sizes) = Len(vals)
    BY <2>1, <2>4, FunctionIsSeq
  <2>6. PICK u \in [0..Len(sizes) -> Nat] : Total(sizes) = u[Len(sizes)]
    BY <2>5, TotalSteps
  <2>7. Len(sizes) \in 0..Len(sizes)
    BY <2>1, <2>5
  <2> QED
    BY <2>1, <2>6, <2>7
<1>9. IndexSize(idx) = 4 + TermsSize(idx)
  BY DEF IndexSize, TermsSize, SizesOf
<1> DEFINE old == FlattenSeq(f)
           new == FlattenSeq(g)
<1>10. IndexSize(UpdateIndex(idx, id, e)) = 4 + TermsSize(old \o new)
  BY <1>1 DEF IndexSize, TermsSize, SizesOf
<1> HIDE DEF sizes, old, new
<1>11. TermsSize(old \o new) = TermsSize(old) + TermsSize(new)
  BY <1>6, <1>7, TermsSizeJoin DEF old, new
<1>12. TermsSize(old) \in Nat /\ TermsSize(new) \in Nat /\ TermsSize(idx) \in Nat
  BY <1>6, <1>7, TermsSizeType DEF old, new
<1>13. TermsSize(old) <= TermsSize(idx) + 16 * Len(vals) /\ TermsSize(new) <= Total(sizes) - 16 * Len(vals)
  BY <1>6, <1>7 DEF old, new
<1> QED
  BY <1>3, <1>8, <1>9, <1>10, <1>11, <1>12, <1>13

-------------------------------------------------------------------------------
\* What is written is read back

(* An index is read back as it was written.                                   *)
LEMMA IndexReadBack ==
  ASSUME NEW idx \in Seq(Term)
  PROVE  LoadIndex(IndexCells(idx)) = idx
<1> DEFINE part(i) == <<Len(idx[i].ids), Len(idx[i].str)>> \o idx[i].str \o idx[i].ids
           seqs == [i \in DOMAIN idx |-> part(i)]
           cells == IndexCells(idx)
           at == PartsAt(cells)
           back == LoadIndex(cells)
<1>1. Len(idx) \in Nat /\ DOMAIN idx = 1..Len(idx)
  OBVIOUS
<1>2. ASSUME NEW i \in 1..Len(idx)
      PROVE  /\ idx[i] = [str |-> idx[i].str, ids |-> idx[i].ids]
             /\ IsSeq(idx[i].str) /\ Len(idx[i].str) \in Nat
             /\ IsSeq(idx[i].ids) /\ Len(idx[i].ids) \in Nat
             /\ seqs[i] = part(i)
  <2>1. idx[i] \in Term
    OBVIOUS
  <2>2. idx[i].str \in Seq(Nat) /\ idx[i].ids \in Seq(Ids)
    BY <2>1 DEF Term
  <2>3. idx[i] = [str |-> idx[i].str, ids |-> idx[i].ids]
    BY <2>1 DEF Term
  <2>4. seqs[i] = part(i)
    BY <1>1
  <2>5. IsSeq(idx[i].str) /\ IsSeq(idx[i].ids)
    BY <2>2, SeqIsSeq
  <2> QED
    BY <2>3, <2>4, <2>5, IsSeqFacts
<1>3. IsSeq(seqs) /\ Len(seqs) = Len(idx)
  <2>1. seqs = [i \in 1..Len(idx) |-> seqs[i]]
    BY <1>1
  <2> HIDE DEF seqs
  <2> QED
    BY <1>1, <2>1, MadeSeq
<1>4. cells = <<Len(seqs)>> \o FlattenSeq(seqs)
  <2>1. cells = <<Len(idx)>> \o FlattenSeq(seqs)
    BY DEF IndexCells
  <2> QED
    BY <1>3, <2>1
<1> HIDE DEF seqs, part, cells
<1>5. ASSUME NEW i \in 1..Len(idx)
      PROVE  IsPart(seqs[i]) /\ ReadsAs(seqs[i], Len(idx[i].ids), Len(idx[i].str), idx[i].str, idx[i].ids)
  <2> DEFINE x == idx[i].str  y == idx[i].ids  p == seqs[i]  m == Len(x)  n == Len(y)
  <2>1. IsSeq(x) /\ IsSeq(y) /\ m \in Nat /\ n \in Nat /\ p = <<n, m>> \o x \o y
    <3>1. p = part(i) /\ IsSeq(x) /\ IsSeq(y) /\ m \in Nat /\ n \in Nat
      BY <1>2
    <3>2. part(i) = <<n, m>> \o x \o y
      BY DEF part
    <3> HIDE DEF part, x, y, p, m, n
    <3> QED
      BY <3>1, <3>2
  <2> DEFINE two == <<n, m>>
             head == two \o x
  <2>2. m \in Nat /\ n \in Nat /\ Len(x) + Len(y) = n + m
    <3>1. m \in Nat /\ n \in Nat
      BY <1>2
    <3> HIDE DEF x, y
    <3>2. n + m = m + n /\ m = Len(x) /\ n = Len(y)
      BY <3>1
    <3> QED
      BY <3>1, <3>2
  <2>3. IsSeq(two) /\ Len(two) = 2 /\ two[1] = n /\ two[2] = m
    BY TupleFacts
  <2>4. IsJoin(head, two, x)
    BY <2>1, <2>3, JoinIs
  <2>5. IsJoin(p, head, y)
    <3>1. p = head \o y
      BY <2>1
    <3>2. IsSeq(head) /\ IsSeq(y)
      BY <2>1, <2>4 DEF IsJoin
    <3> HIDE DEF p, head, y
    <3>3. IsJoin(head \o y, head, y)
      BY <3>2, JoinIs
    <3> QED
      BY <3>1, <3>3
  <2>7. IsSeq(x) /\ IsSeq(y)
    BY <2>1
  <2> HIDE DEF x, y, p, m, n, two, head
  <2>6. IsPart(p) /\ ReadsAs(p, n, m, x, y)
    BY <2>2, <2>3, <2>4, <2>5, <2>7, PartRead
  <2> QED
    BY <2>6 DEF x, y, p, m, n
<1>6. /\ IsSeq(cells) /\ cells[1] = Len(seqs)
      /\ \A n \in 1..Len(seqs) :
           /\ at[n] \in Nat /\ at[n] >= 1
           /\ at[n] + Len(seqs[n]) - 1 <= Len(cells)
           /\ \A k \in 1..Len(seqs[n]) : cells[at[n] + k - 1] = seqs[n][k]
  <2>1. \A i \in 1..Len(seqs) : IsPart(seqs[i])
    BY <1>3, <1>5
  <2> QED
    BY <1>3, <1>4, <2>1, PartsFound
<1> DEFINE str(n) == at[n] + 2
           ids(n) == str(n) + cells[at[n] + 1]
<1>7. back = [n \in 1..cells[1] |-> [str |-> SubSeq(cells, str(n), ids(n) - 1),
                                    ids |-> SubSeq(cells, ids(n), ids(n) + cells[at[n]] - 1)]]
  BY DEF LoadIndex
<1> HIDE DEF at, back
<1>8. ASSUME NEW n \in 1..Len(idx) PROVE back[n] = idx[n]
  <2> DEFINE x == idx[n].str  y == idx[n].ids  p == seqs[n]  a == at[n]
  <2>1. /\ IsSeq(cells) /\ a \in Nat /\ a >= 1 /\ a + Len(p) - 1 <= Len(cells)
        /\ \A k \in 1..Len(p) : cells[a + k - 1] = p[k]
    BY <1>3, <1>6
  <2>2. ReadsAs(p, Len(y), Len(x), x, y)
    BY <1>5
  <2>3. Len(x) \in Nat /\ Len(y) \in Nat
    BY <1>2
  <2>4. back[n] = [str |-> SubSeq(cells, str(n), ids(n) - 1),
                   ids |-> SubSeq(cells, ids(n), ids(n) + cells[a] - 1)]
    BY <1>3, <1>6, <1>7
  <2>5. idx[n] = [str |-> x, ids |-> y]
    BY <1>2
  <2>6. str(n) = a + 2 /\ ids(n) = a + 2 + cells[a + 1]
    OBVIOUS
  <2> HIDE DEF x, y, p, a, str, ids
  <2>7. /\ cells[a] = Len(y) /\ cells[a + 1] = Len(x)
        /\ SubSeq(cells, a + 2, a + 2 + Len(x) - 1) = x
        /\ SubSeq(cells, a + 2 + Len(x), a + 2 + Len(x) + Len(y) - 1) = y
    BY <2>1, <2>2 DEF ReadsAs
  <2>8. ids(n) - 1 = a + 2 + Len(x) - 1 /\ ids(n) = a + 2 + Len(x) /\ ids(n) + cells[a] - 1 = a + 2 + Len(x) + Len(y) - 1
    BY <2>1, <2>3, <2>6, <2>7
  <2> QED
    BY <2>4, <2>5, <2>6, <2>7, <2>8
<1>9. back = [n \in 1..Len(idx) |-> back[n]]
  BY <1>3, <1>6, <1>7
<1>10. back = [n \in 1..Len(idx) |-> idx[n]]
  BY <1>8, <1>9
<1>11. idx = [n \in 1..Len(idx) |-> idx[n]]
  BY <1>1
<1>12. back = idx
  BY <1>10, <1>11
<1> QED
  BY <1>12 DEF back, cells

LEMMA IndexIs == ASSUME Typed, IndexInv PROVE IndexListsTheValues
<1>1. index \in Seq(Term) /\ file \in [Ids -> Contents] /\ Apart(index)
  BY DEF Typed, Term, IndexInv
<1>2. \A i \in Ids \ damaged :
        \A str \in {index[k].str : k \in DOMAIN index} \cup ValuesOf(file[i]) :
          i \in ListedUnder(index, str) <=> str \in ValuesOf(file[i])
  BY DEF IndexInv, Lists
<1>3. /\ \A k, n \in DOMAIN index : index[k].str = index[n].str => k = n
      /\ \A k \in DOMAIN index : index[k].ids # <<>> /\ IsInjective(index[k].ids)
  BY <1>1 DEF Apart
<1>4. LoadIndex(IndexCells(index)) = index
  BY <1>1, IndexReadBack
<1>5. ASSUME NEW i \in Ids, Loads(i) PROVE ReadEntry(WriteEntry(file[i])) = file[i]
  BY <1>1, <1>5, LoadsEntry, EntryReadBack
<1>6. ASSUME NEW e \in Entries \cup {<<>>}, NEW i \in Ids
      PROVE  IndexSize(UpdateIndex(index, i, e)) <= UpdateSize(index, e)
  <2>1. e \in EntryText
    BY EntryTypes, KeysSessionAssumption
  <2> QED
    BY <1>1, <2>1, UpdateFits
<1> QED
  BY <1>2, <1>3, <1>4, <1>5, <1>6 DEF IndexListsTheValues

(* After any updates, failed ones included, an entry is listed under exactly  *)
(* the values it has, in one term for each and once in it; and what will be   *)
(* written of the index fits the size computed for it and is read back as it  *)
(* is, entries too.                                                           *)
THEOREM IndexListsTheValuesCorrect == Spec => []IndexListsTheValues
<1>1. Init => SessionInv /\ IndexInv
  BY InitHolds, IndexStarts
<1>2. SessionInv /\ IndexInv /\ [Next]_vars => (SessionInv /\ IndexInv)'
  <2>1. SessionInv => Typed
    BY DEF SessionInv
  <2> QED
    BY <2>1, StepKeeps, StepChanges, IndexKept
<1>3. SessionInv /\ IndexInv => IndexListsTheValues
  BY IndexIs DEF SessionInv
<1> QED
  BY <1>1, <1>2, <1>3, PTL DEF Spec

-------------------------------------------------------------------------------
\* What a search has to show

(* The entries that can be shown of those that were found.                    *)
Shows(matches) == FlattenSeq([k \in DOMAIN matches |-> IF Loads(matches[k]) THEN <<file[matches[k]]>> ELSE <<>>])

(* The replies to a search are a message and the entry for each of them.      *)
LEMMA RepliesShow ==
  ASSUME NEW matches \in Seq(Ids), NEW s, s = Shows(matches), NEW r, r = FindReplies(matches)
  PROVE  /\ IsSeq(s) /\ IsSeq(r) /\ Len(r) = 2 * Len(s)
         /\ \A k \in 1..Len(s) : /\ r[2 * k - 1] = Message(OK, Len(matches), 1)
                                 /\ r[2 * k] = <<[entry |-> s[k]]>>
         /\ matches # <<>> /\ Loads(matches[1]) => s # <<>> /\ s[1] = file[matches[1]]
<1> DEFINE f == [k \in DOMAIN matches |-> IF Loads(matches[k]) THEN <<file[matches[k]]>> ELSE <<>>]
           g == [k \in DOMAIN matches |->
                  IF Loads(matches[k]) THEN <<Message(OK, Len(matches), 1), <<[entry |-> file[matches[k]]]>>>> ELSE <<>>]
<1>1. Len(matches) \in Nat /\ DOMAIN matches = 1..Len(matches) /\ (matches = <<>> <=> Len(matches) = 0)
  OBVIOUS
<1>2. IsSeq(f) /\ IsSeq(g) /\ Len(f) = Len(matches) /\ Len(g) = Len(matches) /\ (f = <<>> <=> Len(f) = 0)
  <2>1. f = [k \in 1..Len(matches) |-> f[k]] /\ g = [k \in 1..Len(matches) |-> g[k]]
    BY <1>1
  <2> HIDE DEF f, g
  <2>2. IsSeq(f) /\ IsSeq(g) /\ Len(f) = Len(matches) /\ Len(g) = Len(matches)
    BY <1>1, <2>1, MadeSeq
  <2> QED
    BY <2>2, IsSeqFacts
<1>3. ASSUME NEW k \in 1..Len(matches)
      PROVE  /\ Loads(matches[k]) => /\ IsSeq(f[k]) /\ Len(f[k]) = 1 /\ f[k][1] = file[matches[k]]
                                     /\ IsSeq(g[k]) /\ Len(g[k]) = 2
                                     /\ g[k][1] = Message(OK, Len(matches), 1) /\ g[k][2] = <<[entry |-> file[matches[k]]]>>
             /\ ~ Loads(matches[k]) => IsSeq(f[k]) /\ Len(f[k]) = 0 /\ IsSeq(g[k]) /\ Len(g[k]) = 0
  <2> DEFINE a == Message(OK, Len(matches), 1)
             b == <<[entry |-> file[matches[k]]]>>
             c == file[matches[k]]
  <2>1. Loads(matches[k]) => f[k] = <<c>> /\ g[k] = <<a, b>>
    BY <1>1
  <2>2. ~ Loads(matches[k]) => f[k] = <<>> /\ g[k] = <<>>
    BY <1>1
  <2> HIDE DEF f, g, a, b, c
  <2>3. Loads(matches[k]) => /\ IsSeq(f[k]) /\ Len(f[k]) = 1 /\ f[k][1] = c
                             /\ IsSeq(g[k]) /\ Len(g[k]) = 2 /\ g[k][1] = a /\ g[k][2] = b
    <3> SUFFICES ASSUME Loads(matches[k])
                 PROVE  /\ IsSeq(f[k]) /\ Len(f[k]) = 1 /\ f[k][1] = c
                        /\ IsSeq(g[k]) /\ Len(g[k]) = 2 /\ g[k][1] = a /\ g[k][2] = b
      OBVIOUS
    <3>1. IsSeq(f[k]) /\ Len(f[k]) = 1 /\ f[k][1] = c
      BY <2>1, TupleFacts
    <3>2. IsSeq(g[k]) /\ Len(g[k]) = 2 /\ g[k][1] = a /\ g[k][2] = b
      <4>1. g[k] = <<a, b>>
        BY <2>1
      <4> DEFINE t == g[k]
      <4>2. t = <<a, b>>
        BY <4>1
      <4> HIDE DEF t
      <4>3. IsSeq(t) /\ Len(t) = 2 /\ t[1] = a /\ t[2] = b
        BY <4>2, PairIs, Zenon
      <4> QED
        BY <4>3 DEF t
    <3> QED
      BY <3>1, <3>2
  <2>4. ~ Loads(matches[k]) => IsSeq(f[k]) /\ Len(f[k]) = 0 /\ IsSeq(g[k]) /\ Len(g[k]) = 0
    BY <2>2, TupleFacts
  <2> QED
    BY <2>3, <2>4 DEF a, b, c
<1>4. Double(f, g)
  <2> HIDE DEF f, g
  <2>1. ASSUME NEW k \in 1..Len(f)
        PROVE  /\ IsSeq(f[k]) /\ IsSeq(g[k])
               /\ (Len(f[k]) = 0 /\ Len(g[k]) = 0) \/ (Len(f[k]) = 1 /\ Len(g[k]) = 2)
    <3>1. k \in 1..Len(matches)
      BY <1>2
    <3> QED
      BY <1>3, <3>1
  <2> QED
    BY <1>2, <2>1 DEF Double
<1>5. s = FlattenSeq(f) /\ r = FlattenSeq(g)
  BY DEF Shows, FindReplies
<1> HIDE DEF f, g
<1>6. /\ IsSeq(s) /\ IsSeq(r) /\ Len(r) = 2 * Len(s)
      /\ \A k \in 1..Len(s) : \E i \in 1..Len(f) :
           /\ Len(f[i]) = 1 /\ s[k] = f[i][1]
           /\ r[2 * k - 1] = g[i][1] /\ r[2 * k] = g[i][2]
      /\ f # <<>> /\ Len(f[1]) = 1 => s # <<>> /\ s[1] = f[1][1]
  BY <1>4, <1>5, LaysDouble
<1>7. ASSUME NEW k \in 1..Len(s)
      PROVE  r[2 * k - 1] = Message(OK, Len(matches), 1) /\ r[2 * k] = <<[entry |-> s[k]]>>
  <2>1. PICK i \in 1..Len(f) : /\ Len(f[i]) = 1 /\ s[k] = f[i][1]
                               /\ r[2 * k - 1] = g[i][1] /\ r[2 * k] = g[i][2]
    BY <1>6
  <2>2. i \in 1..Len(matches) /\ Loads(matches[i])
    <3>1. i \in 1..Len(matches)
      BY <1>2
    <3>2. ~ Loads(matches[i]) => Len(f[i]) = 0
      BY <1>3, <3>1
    <3> QED
      BY <2>1, <3>1, <3>2
  <2> QED
    BY <1>3, <2>1, <2>2
<1>8. matches # <<>> /\ Loads(matches[1]) => s # <<>> /\ s[1] = file[matches[1]]
  <2>1. matches # <<>> => 1 \in 1..Len(matches) /\ f # <<>>
    BY <1>1, <1>2
  <2> QED
    BY <1>3, <1>6, <2>1
<1> QED
  BY <1>6, <1>7, <1>8

-------------------------------------------------------------------------------
\* Without a fault

(* Before the first command nothing is there, and without a fault a client    *)
(* that is there is connected and nothing waits at a closed end.              *)
Started ==
  "value" \notin DOMAIN job =>
    client = "off" /\ code = 1 /\ served = <<>> /\ server = "accept" /\ ~ serverOn
Unharmed ==
  /\ faults \in Nat
  /\ faults = 0 => /\ damaged = {}
                   /\ client \notin {"off", "search"} => clientOn
                   /\ ~ serverOn => toServer = <<>>

\* The job of a client does not change; it is made known what is entered.
LEMMA JobMoves ==
  ASSUME [Next]_vars
  PROVE  \/ UNCHANGED job
         \/ \E e \in Entries : Edited(e)
         \/ \E p \in Passwords : NewPasswd(p)
         \/ Given
<1>1. CASE UNCHANGED vars
  BY <1>1 DEF vars, using
<1>2. CASE ServerStep
  BY <1>2 DEF ServerStep, Pong, Accept, ReadKek, ReadMessage, ReadBody, ReadValue, ServeEdit, ServeDelete,
     ServePasswd, ServeRekey, ServeAdd, ImportAdds, ServeFind, ServeExport, ImportEnds, using
<1>3. CASE ClientReading
  BY <1>3 DEF ClientReading, Searching, Ping, GiveUp, Connect, ReadMatch, Receive, ReceiveFails, Send, SendEnd, Response, using
<1>4. CASE UserStep
  BY <1>4 DEF UserStep, Hello, ExportPasswd, ImportPasswd, Refused
<1>5. CASE Restart \/ Break
  BY <1>5 DEF Restart, Break, using
<1> QED
  BY <1>1, <1>2, <1>3, <1>4, <1>5 DEF Next

LEMMA StartedKept ==
  ASSUME SessionInv, Started, [Next]_vars
  PROVE  Started'
<1>1. CASE "value" \in DOMAIN job
  <2>1. ASSUME NEW new, job' = Over(new, job) PROVE "value" \in DOMAIN job'
    BY <1>1, <2>1 DEF Over
  <2>2. "value" \in DOMAIN job'
    <3>1. CASE UNCHANGED job
      BY <1>1, <3>1
    <3>2. ASSUME NEW e \in Entries, Edited(e) PROVE "value" \in DOMAIN job'
      BY <2>1, <3>2 DEF Edited
    <3>3. ASSUME NEW p \in Passwords, NewPasswd(p) PROVE "value" \in DOMAIN job'
      BY <2>1, <3>3 DEF NewPasswd
    <3>4. CASE Given
      BY <3>4 DEF Given, Start
    <3> QED
      BY <3>1, <3>2, <3>3, <3>4, JobMoves
  <2> QED
    BY <2>2 DEF Started
<1>2. CASE "value" \notin DOMAIN job
  <2>1. client = "off" /\ code = 1 /\ served = <<>> /\ server = "accept" /\ ~ serverOn /\ ~ clientOn
        /\ ~ search.ping
    BY <1>2 DEF Started, SessionInv, Present
  <2>2. ~ ServerStep
    BY <2>1 DEF ServerStep, Pong, Accept, ReadKek, ReadMessage, ReadBody, ReadValue, ServeEdit, ServeDelete,
       ServePasswd, ServeRekey, ServeAdd, ImportAdds, ServeFind, ServeExport, ImportEnds, Serving
  <2>3. ~ ClientReading
    BY <2>1 DEF ClientReading, Searching, Ping, GiveUp, Connect, Found, ReadMatch, Receive, ReceiveFails, Send, SendEnd, Response
  <2>4. ~ UserStep
    BY <2>1 DEF UserStep, Hello, Edited, NewPasswd, ExportPasswd, ImportPasswd, Refused
  <2>5. ~ (Restart \/ Break)
    BY <2>1 DEF Restart, Break
  <2>6. CASE Given
    <3>1. "value" \in DOMAIN job'
      BY <2>6 DEF Given, Start
    <3> QED
      BY <3>1 DEF Started
  <2>7. CASE UNCHANGED vars
    <3>1. UNCHANGED <<job, client, code, served, server, serverOn>>
      BY <2>7 DEF vars, using, serving, link
    <3> QED
      BY <3>1 DEF Started
  <2> QED
    BY <2>2, <2>3, <2>4, <2>5, <2>6, <2>7 DEF Next
<1> QED
  BY <1>1, <1>2

\* Faults are counted, and nothing is damaged without one.
LEMMA FaultCounts ==
  ASSUME SessionInv, faults \in Nat, [Next]_vars
  PROVE  /\ faults' \in Nat
         /\ faults' = 0 => faults = 0 /\ (damaged = {} => damaged' = {})
<1>1. ASSUME faults' = faults + 1 PROVE faults' \in Nat /\ faults' # 0
  BY <1>1
<1>2. ASSUME NEW i, NEW e, NEW good \in BOOLEAN, Update(i, e, good) \/ Delete(i, good)
      PROVE  faults' = faults + 1 \/ (faults' = faults /\ damaged' = damaged \ {i})
  BY <1>2 DEF Update, Delete, Fault
<1>3. ASSUME NEW good \in BOOLEAN, NEW p, Rekey(good) \/ UpdateKek(p, good)
      PROVE  faults' = faults + 1 \/ (faults' = faults /\ damaged' = damaged)
  <2>1. CASE UpdateKek(p, good)
    BY <2>1 DEF UpdateKek, Fault
  <2>2. ASSUME Rekey(good), NEW lost, damaged' = damaged \cup lost,
               IF good /\ lost = {} THEN UNCHANGED faults ELSE Fault
        PROVE  faults' = faults + 1 \/ (faults' = faults /\ damaged' = damaged)
    BY <2>2 DEF Fault
  <2> QED
    BY <1>3, <2>1, <2>2 DEF Rekey
<1> DEFINE Counted == faults' = faults + 1 \/ (faults' = faults /\ (damaged' = damaged \/ \E i : damaged' = damaged \ {i}))
<1>4. ASSUME ServerStep PROVE Counted
  <2>1. CASE Pong \/ Accept \/ ReadKek \/ ReadMessage \/ ReadBody \/ ReadValue \/ ServeFind \/ ImportEnds
    BY <2>1 DEF Pong, Accept, ReadKek, ReadMessage, ReadBody, ReadValue, ServeFind, ImportEnds, db
  <2>2. ASSUME NEW good \in BOOLEAN, ServeEdit(good) PROVE Counted
    BY <1>2, <2>2 DEF ServeEdit, db
  <2>3. ASSUME NEW good \in BOOLEAN, ServeDelete(good) PROVE Counted
    BY <1>2, <2>3 DEF ServeDelete, db
  <2>4. ASSUME NEW good \in BOOLEAN, ServePasswd(good) \/ ServeRekey(good) PROVE Counted
    BY <1>3, <2>4 DEF ServePasswd, ServeRekey
  <2>5. ASSUME NEW good \in BOOLEAN, NEW i \in Ids, ServeAdd(i, good) \/ ImportAdds(i, good) PROVE Counted
    BY <1>2, <2>5 DEF ServeAdd, ImportAdds
  <2>6. ASSUME NEW n \in 0..Cardinality(Ids), ServeExport(n) PROVE Counted
    BY <2>6 DEF ServeExport, db, Fault
  <2> QED
    BY <1>4, <2>1, <2>2, <2>3, <2>4, <2>5, <2>6 DEF ServerStep
<1>5. ASSUME ClientReading PROVE Counted
  BY <1>5 DEF ClientReading, Searching, Ping, GiveUp, Connect, ReadMatch, Receive, ReceiveFails, Send, SendEnd, Response, db, Fault
<1>6. ASSUME UserStep PROVE Counted
  BY <1>6 DEF UserStep, Hello, Edited, NewPasswd, ExportPasswd, ImportPasswd, Refused, db
<1>7. ASSUME Given \/ Restart \/ Break \/ UNCHANGED vars PROVE Counted
  BY <1>7 DEF Given, Start, Restart, Break, db, vars, Fault
<1>8. Counted
  BY <1>4, <1>5, <1>6, <1>7 DEF Next
<1>9. \A i : {} \ {i} = {}
  OBVIOUS
<1> HIDE DEF Counted
<1> QED
  <2>1. CASE faults' = faults + 1
    BY <1>1, <2>1
  <2>2. CASE faults' = faults /\ (damaged' = damaged \/ \E i : damaged' = damaged \ {i})
    BY <1>9, <2>2
  <2> QED
    BY <1>8, <2>1, <2>2 DEF Counted

\* What waits at an end that the server has closed.
LEMMA ClosedEmpty ==
  ASSUME SessionInv, [Next]_vars, ~ serverOn => toServer = <<>>, faults' = faults, faults \in Nat
  PROVE  ~ serverOn' => toServer' = <<>>
<1> DEFINE Empty == ~ serverOn' => toServer' = <<>>
<1>1. ASSUME HangUp PROVE Empty
  BY <1>1 DEF HangUp
<1>2. ASSUME UNCHANGED <<toServer, serverOn>> PROVE Empty
  BY <1>2
<1>3. ASSUME toServer # <<>>, UNCHANGED serverOn PROVE Empty
  BY <1>3
<1>10. ASSUME NEW n, Len(Taken(toServer, n)) # 0 PROVE toServer # <<>>
  BY <1>10, TupleFacts DEF Taken
<1>11. faults' # faults + 1
  OBVIOUS
<1>4. ASSUME ServerStep PROVE Empty
  <2>1. CASE Pong \/ Accept \/ ServeFind
    BY <1>2, <2>1 DEF Pong, Accept, ServeFind, link
  <2>2. CASE ReadKek \/ ReadMessage \/ ReadBody
    <3>1. CASE HangUp
      BY <1>1, <3>1
    <3>2. CASE ~ HangUp
      <4>1. UNCHANGED serverOn
        BY <2>2, <3>2 DEF ReadKek, ReadMessage, ReadBody
      <4>2. ASSUME ReadKek PROVE toServer # <<>>
        BY <1>10, <3>2, <4>2 DEF ReadKek, KekLen
      <4>3. ASSUME ReadMessage PROVE toServer # <<>>
        BY <1>10, <3>2, <4>3 DEF ReadMessage
      <4>4. ASSUME ReadBody PROVE toServer # <<>>
        BY <3>2, <4>4 DEF ReadBody
      <4> QED
        BY <1>3, <2>2, <4>1, <4>2, <4>3, <4>4
    <3> QED
      BY <3>1, <3>2
  <2>3. CASE ReadValue
    BY <1>1, <1>3, <2>3 DEF ReadValue
  <2>4. ASSUME NEW good \in BOOLEAN,
               ServeEdit(good) \/ ServeDelete(good) \/ ServePasswd(good) \/ ServeRekey(good) PROVE Empty
    <3>1. HangUp
      BY <2>4 DEF ServeEdit, ServeDelete, ServePasswd, ServeRekey
    <3> QED
      BY <1>1, <3>1
  <2>5. ASSUME NEW good \in BOOLEAN, NEW i \in Ids, ServeAdd(i, good) \/ ImportAdds(i, good) PROVE Empty
    <3>1. CASE HangUp
      BY <1>1, <3>1
    <3>2. CASE ~ HangUp
      <4>1. Left(toServer, 4) # <<>> /\ UNCHANGED serverOn
        BY <2>5, <3>2 DEF ServeAdd, ImportAdds
      <4>2. toServer # <<>>
        BY <4>1 DEF Left
      <4> QED
        BY <1>3, <4>1, <4>2
    <3> QED
      BY <3>1, <3>2
  <2>6. ASSUME NEW n \in 0..Cardinality(Ids), ServeExport(n) PROVE Empty
    BY <1>1, <2>6 DEF ServeExport
  <2>7. CASE ImportEnds
    BY <1>1, <2>7 DEF ImportEnds
  <2> QED
    BY <1>4, <2>1, <2>2, <2>3, <2>4, <2>5, <2>6, <2>7 DEF ServerStep
<1>5. ASSUME ClientReading PROVE Empty
  <2>1. CASE Send \/ SendEnd
    BY <2>1 DEF Send, SendEnd, SentOn
  <2>2. CASE Searching
    <3>1. ASSUME NEW good \in BOOLEAN, Connect(good) PROVE Empty
      BY <1>11, <3>1 DEF Connect, Fault
    <3> QED
      BY <1>2, <2>2, <3>1 DEF Searching, Ping, GiveUp, link
  <2>3. CASE ReadMatch \/ Receive \/ ReceiveFails \/ Response
    BY <1>2, <2>3 DEF ReadMatch, Receive, ReceiveFails, Response
  <2> QED
    BY <1>5, <2>1, <2>2, <2>3 DEF ClientReading
<1>6. ASSUME UserStep PROVE Empty
  <2>1. ASSUME NEW records, toServer' = SentOn(records), UNCHANGED serverOn PROVE Empty
    BY <2>1 DEF SentOn
  <2>2. ASSUME NEW kek, Hello(kek) PROVE Empty
    BY <2>1, <2>2 DEF Hello
  <2>3. ASSUME NEW e \in Entries, Edited(e) PROVE Empty
    BY <2>1, <2>3 DEF Edited
  <2>4. ASSUME NEW p \in Passwords, NewPasswd(p) PROVE Empty
    BY <2>1, <2>4 DEF NewPasswd
  <2>5. CASE ExportPasswd \/ (\E right \in BOOLEAN : ImportPasswd(right)) \/ Refused
    BY <1>2, <2>5 DEF ExportPasswd, ImportPasswd, Refused, link
  <2> QED
    BY <1>6, <2>2, <2>3, <2>4, <2>5 DEF UserStep
<1>7. ASSUME Given \/ Restart \/ Break \/ UNCHANGED vars PROVE Empty
  BY <1>2, <1>7, <1>11 DEF Given, Start, Restart, Break, Fault, link, vars
<1> QED
  BY <1>4, <1>5, <1>6, <1>7 DEF Next

\* A client that is there is connected.
LEMMA StaysConnected ==
  ASSUME SessionInv, [Next]_vars, client \notin {"off", "search"} => clientOn, faults' = faults, faults \in Nat
  PROVE  client' \notin {"off", "search"} => clientOn'
<1> DEFINE On == client' \notin {"off", "search"} => clientOn'
<1>1. faults' # faults + 1
  OBVIOUS
<1>2. ASSUME client' = "off" PROVE On
  BY <1>2
<1>3. ASSUME UNCHANGED <<client, clientOn>> PROVE On
  BY <1>3
<1>4. ASSUME UNCHANGED clientOn, client \notin {"off", "search"} PROVE On
  BY <1>4
<1>5. ASSUME ServerStep PROVE On
  BY <1>3, <1>5 DEF ServerStep, Pong, Accept, ReadKek, ReadMessage, ReadBody, ReadValue, ServeEdit, ServeDelete,
     ServePasswd, ServeRekey, ServeAdd, ImportAdds, ServeFind, ServeExport, ImportEnds, using, link
<1>6. ASSUME ClientReading PROVE On
  BY <1>2, <1>3, <1>4, <1>6 DEF ClientReading, Searching, Ping, GiveUp, Connect, ReadMatch, Receive, ReceiveFails, Send, SendEnd, Response, End,
     using, link
<1>7. ASSUME UserStep PROVE On
  BY <1>2, <1>4, <1>7 DEF UserStep, Hello, Edited, NewPasswd, ExportPasswd, ImportPasswd, Refused, End, link
<1>8. ASSUME Given \/ Restart \/ Break \/ UNCHANGED vars PROVE On
  BY <1>1, <1>3, <1>8 DEF Given, Start, Restart, Break, Fault, using, link, vars
<1> QED
  BY <1>5, <1>6, <1>7, <1>8 DEF Next

LEMMA UnharmedKept ==
  ASSUME SessionInv, Unharmed, [Next]_vars
  PROVE  Unharmed'
<1>1. faults' \in Nat /\ (faults' = 0 => faults = 0 /\ (damaged = {} => damaged' = {}))
  BY FaultCounts DEF Unharmed
<1>2. ASSUME faults' = 0
      PROVE  /\ client' \notin {"off", "search"} => clientOn'
             /\ ~ serverOn' => toServer' = <<>>
  <2>1. faults = 0 /\ faults' = faults /\ faults \in Nat
    BY <1>1, <1>2
  <2> QED
    BY <2>1, ClosedEmpty, StaysConnected DEF Unharmed
<1> QED
  BY <1>1, <1>2 DEF Unharmed

-------------------------------------------------------------------------------
\* A search

\* A command that searches first, how many matches it asks for, those it finds, and
\* the entries it has to show.
Searches == "value" \in DOMAIN job /\ job.cmd \in {Cmd.find, Cmd.edit}
SearchLimit == IF job.cmd = Cmd.edit THEN 2 ELSE job.limit + 1
Hits == SearchIndex(index, job.value, SearchLimit)
ToShow == Shows(Hits)

\* A record of the search, or of an edit of what it has shown.
OfTheSearch(r) ==
  /\ Len(r) = 12 /\ Number(r[4]) = Cmd.find => Number(r[8]) = SearchLimit
  /\ Len(r) = 12 /\ Number(r[4]) = Cmd.edit => shown # <<>>
  /\ Len(r) = 1 /\ DOMAIN r[1] = {"value"} => r[1].value = job.value

SearchKnown == "limit" \in DOMAIN job /\ job.value \in Seq(Nat) /\ job.limit \in Nat /\ IsSeq(shown)
SearchSent ==
  server \in {"kek", "loop", "body", "value"} => \A k \in DOMAIN toServer : OfTheSearch(toServer[k])
SearchRead ==
  /\ server \in {"body", "value", "serve"} =>
       /\ request.cmd = Cmd.find => request.arg = SearchLimit
       /\ request.cmd = Cmd.edit => shown # <<>>
  /\ server = "serve" => request.value = job.value

(* What the server reads and serves is the search for what the user gave, and *)
(* an edit follows only something shown.                                      *)
SearchInv ==
  Searches =>
    /\ SearchKnown
    /\ SearchSent
    /\ ~ Idle => SearchRead
    /\ client = "editor" => shown # <<>>

\* The search stays what it is.
SameSearch ==
  /\ DOMAIN job \subseteq DOMAIN job'
  /\ job'.cmd = job.cmd /\ job'.value = job.value /\ job'.limit = job.limit /\ shown' = shown

LEMMA SameSearchFacts ==
  ASSUME SameSearch, SearchInv, Searches
  PROVE  Searches' /\ SearchKnown' /\ SearchLimit' = SearchLimit
BY DEF SameSearch, SearchInv, Searches, SearchKnown, SearchLimit

\* Of an Over of something else nothing of the search is lost.
LEMMA SameOver ==
  ASSUME Searches, SearchKnown, NEW new, job' = Over(new, job), DOMAIN new = {"entry"}, "cmd" \in DOMAIN job,
         UNCHANGED shown
  PROVE  SameSearch
<1>1. "cmd" \notin DOMAIN new /\ "value" \notin DOMAIN new /\ "limit" \notin DOMAIN new
  OBVIOUS
<1>2. {"cmd", "value", "limit"} \subseteq DOMAIN job
  BY DEF Searches, SearchKnown
<1>3. DOMAIN job \subseteq DOMAIN job'
  BY DEF Over
<1> QED
  BY <1>1, <1>2, <1>3, OverFacts DEF SameSearch

\* The server serves nothing but the search and the edit.
LEMMA ServesSearch ==
  ASSUME SessionInv, Searches
  PROVE  /\ server # "import"
         /\ server = "serve" => request.cmd \in {Cmd.find, Cmd.edit}
<1>1. ASSUME server \in {"serve", "import"} PROVE request.cmd \in {Cmd.find, Cmd.edit}
  BY <1>1, ServesTheJob DEF Searches
<1>2. server = "import" => request.cmd = Cmd.import
  BY NotIdle DEF SessionInv, Understood
<1> QED
  BY <1>1, <1>2, CmdFacts

\* What a server reads are records.
LEMMA ReadsRecords ==
  ASSUME SessionInv, server \in {"kek", "loop", "body", "value"}
  PROVE  IsStream(toServer)
<1>1. CASE Idle
  BY <1>1, TupleStream DEF Idle
<1>2. CASE ~ Idle
  BY <1>2 DEF SessionInv, Understood, Rest
<1> QED
  BY <1>1, <1>2

\* Fewer records are records of the search, too.
LEMMA FewerSent ==
  ASSUME SearchSent, server \in {"kek", "loop", "body", "value"}, UNCHANGED <<job, shown>>, IsStream(toServer),
         \/ toServer' = <<>>
         \/ toServer # <<>> /\ toServer' = Tail(toServer)
         \/ \E n \in 0..Len(toServer) : toServer' = SubSeq(toServer, 1, n)
  PROVE  SearchSent'
<1>1. \A r : OfTheSearch(r) => OfTheSearch(r)'
  BY DEF OfTheSearch, SearchLimit
<1>2. IsSeq(toServer) /\ Len(toServer) \in Nat /\ DOMAIN toServer = 1..Len(toServer)
  BY IsSeqFacts DEF IsStream
<1>3. CASE toServer' = <<>>
  BY <1>3 DEF SearchSent
<1>4. CASE toServer # <<>> /\ toServer' = Tail(toServer)
  <2>1. /\ IsSeq(toServer') /\ Len(toServer') = Len(toServer) - 1
        /\ \A k \in 1..(Len(toServer) - 1) : toServer'[k] = toServer[k + 1]
    BY <1>2, <1>4, IsSeqFacts
  <2>2. DOMAIN toServer' = 1..(Len(toServer) - 1)
    BY <2>1, IsSeqFacts
  <2>3. \A k \in 1..(Len(toServer) - 1) : k + 1 \in DOMAIN toServer
    BY <1>2
  <2> QED
    BY <1>1, <2>1, <2>2, <2>3 DEF SearchSent
<1>5. ASSUME NEW n \in 0..Len(toServer), toServer' = SubSeq(toServer, 1, n) PROVE SearchSent'
  <2>1. IsSeq(toServer') /\ Len(toServer') = n /\ \A k \in 1..n : toServer'[k] = toServer[k]
    BY <1>2, <1>5, PartFacts
  <2>2. DOMAIN toServer' = 1..n
    BY <2>1, IsSeqFacts
  <2>3. \A k \in 1..n : k \in DOMAIN toServer
    BY <1>2
  <2> QED
    BY <1>1, <2>1, <2>2, <2>3 DEF SearchSent
<1> QED
  BY <1>3, <1>4, <1>5

\* A server that reads nothing else understands the same.
LEMMA SearchFrame ==
  ASSUME SearchInv, SearchSent', UNCHANGED job, IsSeq(shown) => IsSeq(shown'), shown # <<>> => shown' # <<>>,
         ~ Idle' => ~ Idle,
         server' \in {"body", "value", "serve"} => UNCHANGED <<server, request>>,
         client' = "editor" => client = "editor" \/ shown' # <<>>
  PROVE  SearchInv'
<1> SUFFICES ASSUME Searches' PROVE SearchInv'
  BY DEF SearchInv
<1>1. Searches /\ SearchKnown /\ (~ Idle => SearchRead) /\ (client = "editor" => shown # <<>>)
  BY DEF SearchInv, Searches
<1>2. SearchKnown' /\ (client' = "editor" => shown' # <<>>)
  BY <1>1 DEF SearchKnown
<1>3. ASSUME ~ Idle' PROVE SearchRead'
  BY <1>1, <1>3 DEF SearchRead, SearchLimit
<1> QED
  BY <1>2, <1>3 DEF SearchInv

LEMMA ReadKekSearches == ASSUME SessionInv, SearchInv, ReadKek PROVE SearchInv'
<1>1. server = "kek" /\ ServerReads /\ UNCHANGED <<db, toClient, clientOn, served, using, search>>
  BY DEF ReadKek
<1>2. CASE HangUp
  BY <1>1, <1>2, SearchFrame DEF HangUp, using, SearchSent, Idle
<1>3. CASE ~ HangUp
  <2>1. /\ Len(Taken(toServer, KekLen)) = KekLen
        /\ server' = "loop" /\ toServer' = Left(toServer, KekLen) /\ UNCHANGED <<request, serverOn>>
    BY <1>3 DEF ReadKek
  <2>2. toServer # <<>>
    BY <2>1, TupleFacts DEF Taken, KekLen
  <2>3. PICK cmd \in Asked, m \in {0, 1} : Rest(toServer, m, cmd, job)
    BY <1>1, <2>2, NotIdle DEF SessionInv, Understood
  <2>4. Fits(toServer[1], m, cmd, job) /\ IsStream(toServer)
    BY <2>2, <2>3, RestFirst
  <2>5. toServer' = Tail(toServer)
    BY <2>1, <2>2, <2>4, TakenCells DEF Fits, KekLen
  <2>6. ASSUME Searches PROVE SearchSent'
    BY <1>1, <2>2, <2>4, <2>5, <2>6, FewerSent DEF SearchInv, using
  <2>7. ~ Idle
    BY <2>2, NotIdle
  <2>8. CASE Searches
    BY <1>1, <2>1, <2>6, <2>7, <2>8, SearchFrame DEF using
  <2>9. CASE ~ Searches
    BY <1>1, <2>9 DEF SearchInv, Searches, using
  <2> QED
    BY <2>8, <2>9
<1> QED
  BY <1>2, <1>3

LEMMA ReadMessageSearches == ASSUME SessionInv, SearchInv, ReadMessage PROVE SearchInv'
<1>1. server = "loop" /\ ServerReads /\ UNCHANGED <<db, toClient, clientOn, served, using, search>>
  BY DEF ReadMessage
<1>2. CASE HangUp
  BY <1>1, <1>2, SearchFrame DEF HangUp, using, SearchSent, Idle
<1>3. CASE ~ HangUp
  <2> DEFINE msg == Taken(toServer, 12)
  <2>1. /\ Len(msg) = 12
        /\ request' = [cmd |-> Number(msg[4]), arg |-> Number(msg[8])]
        /\ server' = IF Number(msg[12]) > 0 THEN "body"
                     ELSE IF msg[4] = Cmd.import THEN "import" ELSE "serve"
        /\ toServer' = Left(toServer, 12) /\ UNCHANGED serverOn
    BY <1>3 DEF ReadMessage
  <2>2. toServer # <<>>
    BY <2>1, TupleFacts DEF Taken
  <2>3. ~ Idle
    BY <2>2, NotIdle
  <2>4. PICK cmd \in Asked : Rest(toServer, 1, cmd, job)
    BY <1>1, <2>3 DEF SessionInv, Understood
  <2>5. Fits(toServer[1], 1, cmd, job) /\ IsStream(toServer)
    BY <2>2, <2>4, RestFirst
  <2>6. /\ Len(toServer[1]) = 12
        /\ Number(toServer[1][4]) = cmd /\ cmd \in 1..8
        /\ (Number(toServer[1][12]) > 0) = (cmd \notin {Cmd.rekey, Cmd.export, Cmd.import})
    BY <2>5 DEF Fits
  <2>7. Left(toServer, 12) = Tail(toServer) /\ msg[4] = toServer[1][4] /\ msg[8] = toServer[1][8]
        /\ msg[12] = toServer[1][12]
    BY <2>2, <2>5, <2>6, TakenCells
  <2> HIDE DEF msg
  <2>8. request'.cmd = cmd /\ request'.arg = Number(toServer[1][8])
    BY <2>1, <2>6, <2>7
  <2> SUFFICES ASSUME Searches PROVE SearchInv'
    BY <1>1 DEF SearchInv, Searches, using
  <2>9. cmd \in {Cmd.find, Cmd.edit}
    BY <2>4, <2>6 DEF Asked, Sent, Searches, Nothing
  <2>10. server' = "body"
    BY <2>1, <2>6, <2>7, <2>9, CmdFacts
  <2>11. SearchSent'
    BY <1>1, <2>1, <2>2, <2>5, <2>7, FewerSent DEF SearchInv, using
  <2>12. OfTheSearch(toServer[1])
    <3>1. 1 \in DOMAIN toServer
      BY <2>2, <2>5, IsSeqFacts DEF IsStream
    <3> QED
      BY <1>1, <3>1 DEF SearchInv, SearchSent
  <2>13. SearchRead'
    BY <1>1, <2>6, <2>8, <2>10, <2>12 DEF SearchRead, OfTheSearch, SearchLimit, using
  <2>14. SearchKnown' /\ (client' = "editor" => shown' # <<>>)
    BY <1>1 DEF SearchInv, SearchKnown, using
  <2> QED
    BY <2>11, <2>13, <2>14 DEF SearchInv
<1> QED
  BY <1>2, <1>3

LEMMA ReadBodySearches == ASSUME SessionInv, SearchInv, ReadBody PROVE SearchInv'
<1>1. server = "body" /\ ServerReads /\ UNCHANGED <<db, toClient, clientOn, served, using, search>>
  BY DEF ReadBody
<1>2. CASE HangUp
  BY <1>1, <1>2, SearchFrame DEF HangUp, using, SearchSent, Idle
<1>3. CASE ~ HangUp
  <2> DEFINE new == Taken(toServer, 1)[1]
  <2>1. /\ toServer # <<>> /\ toServer' = Left(toServer, 1) /\ request' = Over(new, request)
        /\ server' = IF request.cmd = Cmd.edit THEN "value" ELSE "serve"
        /\ UNCHANGED serverOn
    BY <1>3 DEF ReadBody
  <2>2. ~ Idle
    BY <2>1, NotIdle
  <2>3. RequestKnown /\ request.cmd \in 1..5 /\ Rest(toServer, 2, request.cmd, job)
    BY <1>1, <2>2 DEF SessionInv, Understood
  <2>4. Fits(toServer[1], 2, request.cmd, job) /\ IsStream(toServer)
    BY <2>1, <2>3, RestFirst
  <2>5. Len(toServer[1]) = 1 /\ Carries(toServer[1][1], request.cmd, job)
    BY <2>3, <2>4, CmdFacts DEF Fits
  <2>6. Left(toServer, 1) = Tail(toServer) /\ new = toServer[1][1]
    BY <2>1, <2>4, <2>5, TakenCells
  <2> HIDE DEF new
  <2>7. DOMAIN new = IF request.cmd \in {Cmd.add, Cmd.edit} THEN {"entry"} ELSE {"value"}
    BY <2>5, <2>6 DEF Carries
  <2>8. /\ request'.cmd = request.cmd /\ request'.arg = request.arg
        /\ DOMAIN new = {"value"} => request'.value = new.value
    <3>1. {"cmd", "arg"} \subseteq DOMAIN request
      BY <2>3 DEF RequestKnown
    <3>2. "cmd" \notin DOMAIN new /\ "arg" \notin DOMAIN new
      BY <2>7
    <3>3. DOMAIN new = {"value"} => "value" \in DOMAIN new
      OBVIOUS
    <3> QED
      BY <2>1, <3>1, <3>2, <3>3, OverFacts
  <2> SUFFICES ASSUME Searches PROVE SearchInv'
    BY <1>1 DEF SearchInv, Searches, using
  <2>9. request.cmd \in {Cmd.find, Cmd.edit}
    BY <2>3 DEF RequestKnown, Asked, Sent, Searches, Nothing
  <2>10. SearchSent'
    BY <1>1, <2>1, <2>4, <2>6, FewerSent DEF SearchInv, using
  <2>11. OfTheSearch(toServer[1])
    <3>1. 1 \in DOMAIN toServer
      BY <2>1, <2>4, IsSeqFacts DEF IsStream
    <3> QED
      BY <1>1, <3>1 DEF SearchInv, SearchSent
  <2>12. SearchRead
    BY <2>2 DEF SearchInv
  <2>13. SearchRead'
    <3>1. /\ request'.cmd = Cmd.find => request'.arg = SearchLimit'
          /\ request'.cmd = Cmd.edit => shown' # <<>>
      BY <1>1, <2>8, <2>12 DEF SearchRead, SearchLimit, using
    <3>2. server' = "serve" => request'.value = job'.value
      <4>1. server' = "serve" => DOMAIN new = {"value"}
        BY <2>1, <2>7, <2>9, CmdFacts
      <4> QED
        BY <1>1, <2>5, <2>6, <2>8, <2>11, <4>1 DEF OfTheSearch, using
    <3> QED
      BY <3>1, <3>2 DEF SearchRead
  <2>14. SearchKnown' /\ (client' = "editor" => shown' # <<>>)
    BY <1>1 DEF SearchInv, SearchKnown, using
  <2> QED
    BY <2>10, <2>13, <2>14 DEF SearchInv
<1> QED
  BY <1>2, <1>3

LEMMA ReadValueSearches == ASSUME SessionInv, SearchInv, ReadValue PROVE SearchInv'
<1>1. server = "value" /\ ServerReads /\ UNCHANGED <<db, toClient, clientOn, served, using>>
  BY DEF ReadValue
<1>2. CASE server' \in {"accept", "down"} /\ toServer' = <<>>
  BY <1>1, <1>2, SearchFrame DEF using, SearchSent, Idle
<1>3. CASE ~ (server' \in {"accept", "down"} /\ toServer' = <<>>)
  <2> DEFINE new == Taken(toServer, 1)[1]
  <2>1. /\ toServer # <<>> /\ toServer' = Left(toServer, 1) /\ request' = Over(new, request)
        /\ server' = "serve" /\ UNCHANGED <<serverOn, search>>
    BY <1>3 DEF ReadValue, HangUp
  <2>2. ~ Idle
    BY <2>1, NotIdle
  <2>3. RequestKnown /\ request.cmd = Cmd.edit /\ Rest(toServer, 3, request.cmd, job)
    BY <1>1, <2>2 DEF SessionInv, Understood
  <2>4. Fits(toServer[1], 3, request.cmd, job) /\ IsStream(toServer)
    BY <2>1, <2>3, RestFirst
  <2>5. Len(toServer[1]) = 1 /\ DOMAIN toServer[1][1] = {"value"}
    BY <2>3, <2>4, CmdFacts DEF Fits
  <2>6. new = toServer[1][1]
    BY <2>1, <2>4, <2>5, TakenCells
  <2> HIDE DEF new
  <2>7. request'.cmd = request.cmd /\ request'.arg = request.arg /\ request'.value = new.value
    <3>1. {"cmd", "arg"} \subseteq DOMAIN request
      BY <2>3 DEF RequestKnown
    <3>2. "cmd" \notin DOMAIN new /\ "arg" \notin DOMAIN new /\ "value" \in DOMAIN new
      BY <2>5, <2>6
    <3> QED
      BY <2>1, <3>1, <3>2, OverFacts
  <2> SUFFICES ASSUME Searches PROVE SearchInv'
    BY <1>1 DEF SearchInv, Searches, using
  <2>8. SearchSent'
    BY <2>1 DEF SearchSent
  <2>9. OfTheSearch(toServer[1])
    <3>1. 1 \in DOMAIN toServer
      BY <2>1, <2>4, IsSeqFacts DEF IsStream
    <3> QED
      BY <1>1, <3>1 DEF SearchInv, SearchSent
  <2>10. SearchRead
    BY <2>2 DEF SearchInv
  <2>11. SearchRead'
    BY <1>1, <2>1, <2>5, <2>6, <2>7, <2>9, <2>10 DEF SearchRead, SearchLimit, OfTheSearch, using
  <2>12. SearchKnown' /\ (client' = "editor" => shown' # <<>>)
    BY <1>1 DEF SearchInv, SearchKnown, using
  <2> QED
    BY <2>8, <2>11, <2>12 DEF SearchInv
<1> QED
  BY <1>2, <1>3

\* The records of a request, of which each is of the search.
LEMMA RequestOf ==
  ASSUME NEW cmd \in {Cmd.find, Cmd.edit}, NEW arg \in Nat, NEW what, NEW s, s = Asks(cmd, arg, what),
         cmd = Cmd.find => arg = SearchLimit,
         cmd = Cmd.edit => shown # <<>>,
         DOMAIN what = {"value"} => what.value = job.value
  PROVE  IsSeq(s) /\ \A r \in Range(s) : OfTheSearch(r)
<1> DEFINE m == Message(cmd, arg, 1)  t == <<what>>
<1>1. Len(m) = 12 /\ Number(m[4]) = cmd /\ Number(m[8]) = arg
  BY MessageFacts, CmdFacts
<1>2. Len(t) = 1 /\ t[1] = what
  BY TupleFacts
<1>3. s = <<m, t>>
  BY DEF Asks
<1> HIDE DEF m, t
<1>4. IsSeq(s) /\ Range(s) = {m, t}
  BY <1>3, RangeFacts, TupleFacts
<1>5. OfTheSearch(m)
  BY <1>1, CmdFacts DEF OfTheSearch
<1>6. OfTheSearch(t)
  BY <1>2 DEF OfTheSearch
<1> QED
  BY <1>4, <1>5, <1>6

LEMMA HelloSearches ==
  ASSUME SessionInv, SearchInv, NEW kek, Hello(kek)
  PROVE  SearchInv'
<1> DEFINE key == [k \in 1..KekLen |-> kek]
           kekRecord == IF kek \in Passwords /\ toClient # <<>> THEN <<key>> ELSE <<>>
<1>1. /\ client = "hello" /\ ClientReads /\ toServer' = SentOn(kekRecord \o FirstRequest)
      /\ client' = NextStep
      /\ UNCHANGED <<db, clientOn, serverOn, serving, job, shown, unsent, code, export, search>>
  BY DEF Hello
<1>2. toServer = <<>> /\ server \in {"accept", "kek"}
  BY <1>1 DEF SessionInv, Present
<1> SUFFICES ASSUME Searches PROVE SearchInv'
  BY <1>1 DEF SearchInv, Searches
<1>3. SearchKnown /\ SearchLimit \in Nat
  BY DEF SearchInv, SearchKnown, SearchLimit
<1>4. FirstRequest = Asks(Cmd.find, SearchLimit, [value |-> job.value])
  BY CmdFacts DEF Searches, FirstRequest, SearchLimit
<1>5. IsSeq(FirstRequest) /\ \A r \in Range(FirstRequest) : OfTheSearch(r)
  <2> DEFINE what == [value |-> job.value]
  <2>1. what.value = job.value
    OBVIOUS
  <2> HIDE DEF what
  <2>2. Asks(Cmd.find, SearchLimit, what) = FirstRequest
    BY <1>4 DEF what
  <2> QED
    BY <1>3, <2>1, <2>2, RequestOf, CmdFacts
<1>6. IsSeq(kekRecord) /\ \A r \in Range(kekRecord) : OfTheSearch(r)
  <2>1. Len(key) = 16
    <3>1. 16 \in Nat /\ [k \in 1..16 |-> kek] \in [1..16 -> {kek}]
      OBVIOUS
    <3>2. Len([k \in 1..16 |-> kek]) = 16
      BY <3>1, FunctionIsSeq
    <3> QED
      BY <3>2 DEF KekLen
  <2> HIDE DEF key
  <2>2. OfTheSearch(key)
    BY <2>1 DEF OfTheSearch
  <2>3. kekRecord \in {<<>>, <<key>>}
    OBVIOUS
  <2>4. IsSeq(<<key>>) /\ IsSeq(<<>>) /\ Range(<<key>>) = {key} /\ Range(<<>>) = {}
    BY SingleFacts, TupleFacts
  <2> HIDE DEF kekRecord
  <2> QED
    BY <2>2, <2>3, <2>4
<1> HIDE DEF kekRecord
<1>7. SearchSent'
  <2>1. CASE serverOn
    <3> DEFINE s == kekRecord \o FirstRequest
    <3>1. IsSeq(s) /\ Range(s) = Range(kekRecord) \cup Range(FirstRequest)
      BY <1>5, <1>6, JoinApart, JoinFacts
    <3>2. toServer' = s
      <4> HIDE DEF s
      <4>1. toServer' = toServer \o s
        BY <1>1, <2>1 DEF SentOn, s
      <4> QED
        BY <1>2, <3>1, <4>1, JoinEmpty
    <3> HIDE DEF s
    <3>3. \A r : OfTheSearch(r) => OfTheSearch(r)'
      BY <1>1 DEF OfTheSearch, SearchLimit
    <3>4. \A k \in DOMAIN toServer' : toServer'[k] \in Range(s)
      BY <3>2 DEF Range
    <3> QED
      BY <1>5, <1>6, <3>1, <3>3, <3>4 DEF SearchSent
  <2>2. CASE ~ serverOn
    <3>1. toServer' = <<>>
      BY <1>1, <1>2, <2>2 DEF SentOn
    <3> QED
      BY <3>1 DEF SearchSent
  <2> QED
    BY <2>1, <2>2
<1>8. client' = "matches"
  BY <1>1, CmdFacts DEF NextStep, Searches
<1>9. SearchKnown'
  BY <1>1, <1>3 DEF SearchKnown
<1>10. SearchRead'
  BY <1>1, <1>2 DEF SearchRead, serving
<1> QED
  BY <1>7, <1>8, <1>9, <1>10 DEF SearchInv

LEMMA EditedSearches ==
  ASSUME SessionInv, SearchInv, NEW e \in Entries, Edited(e)
  PROVE  SearchInv'
<1> DEFINE new == [entry |-> e]
           last == <<[value |-> job.value]>>
           s == Append(Asks(Cmd.edit, 1, new), last)
<1>1. /\ client = "editor" /\ job' = Over(new, job) /\ client' = "response"
      /\ toServer' = SentOn(IF job.cmd = Cmd.add THEN Asks(Cmd.add, 0, [entry |-> e]) ELSE s)
      /\ UNCHANGED <<db, toClient, clientOn, serverOn, serving, shown, unsent, code, export, search>>
  BY DEF Edited
<1>2. {"cmd", "value", "limit"} \subseteq DOMAIN job /\ DOMAIN new = {"entry"}
  BY <1>1 DEF SessionInv, JobKnown
<1>3. job'.cmd = job.cmd
  BY <1>1, <1>2, OverFacts
<1> SUFFICES ASSUME Searches PROVE SearchInv'
  BY <1>2, <1>3 DEF SearchInv, Searches
<1>4. SameSearch /\ Searches /\ SearchKnown /\ SearchSent /\ shown # <<>>
  BY <1>1, <1>2, SameOver DEF SearchInv
<1>5. SearchKnown' /\ SearchLimit' = SearchLimit
  BY <1>4, SameSearchFacts
<1>6. job.cmd = Cmd.edit
  BY <1>1, CmdFacts DEF SessionInv, JobKnown, Searches
<1>7. IsSeq(s) /\ \A r \in Range(s) : OfTheSearch(r)
  <2> DEFINE asks == Asks(Cmd.edit, 1, new)
  <2>1. IsSeq(asks) /\ \A r \in Range(asks) : OfTheSearch(r)
    <3> HIDE DEF new
    <3>1. Cmd.edit # Cmd.find /\ 1 \in Nat
      BY CmdFacts
    <3>2. ~ (DOMAIN new = {"value"})
      BY <1>2
    <3> QED
      BY <1>4, <3>1, <3>2, RequestOf
  <2>2. OfTheSearch(last)
    <3>1. Len(last) = 1 /\ last[1] = [value |-> job.value] /\ [value |-> job.value].value = job.value
      BY TupleFacts
    <3> HIDE DEF last
    <3> QED
      BY <3>1 DEF OfTheSearch
  <2> HIDE DEF asks, last
  <2>3. IsSeq(Append(asks, last)) /\ Range(Append(asks, last)) = Range(asks) \cup {last}
    BY <2>1, AppendFacts, RangeFacts
  <2> QED
    BY <2>1, <2>2, <2>3 DEF asks
<1> HIDE DEF s, new
<1>8. \A r : OfTheSearch(r) => OfTheSearch(r)'
  BY <1>1, <1>4, <1>5 DEF OfTheSearch, SameSearch
<1>9. SearchSent'
  <2> SUFFICES ASSUME server \in {"kek", "loop", "body", "value"}
               PROVE  \A r \in Range(toServer') : OfTheSearch(r)'
    BY <1>1 DEF SearchSent, serving, Range
  <2>1. IsSeq(toServer) /\ \A r \in Range(toServer) : OfTheSearch(r)
    BY <1>4, ReadsRecords DEF SearchSent, Range, IsStream
  <2>2. toServer' = toServer \/ toServer' = toServer \o s
    BY <1>1, <1>6, CmdFacts DEF SentOn
  <2>3. Range(toServer \o s) = Range(toServer) \cup Range(s)
    BY <1>7, <2>1, JoinApart
  <2>4. \A r \in Range(toServer') : OfTheSearch(r)
    BY <1>7, <2>1, <2>2, <2>3
  <2> QED
    BY <1>8, <2>4
<1>10. ~ Idle
  BY <1>1 DEF Idle
<1>11. SearchRead'
  BY <1>1, <1>4, <1>5, <1>10 DEF SearchInv, SearchRead, SameSearch, serving
<1> QED
  BY <1>1, <1>5, <1>9, <1>11 DEF SearchInv

\* A command that does not search stays one.
LEMMA NotSearching ==
  ASSUME UNCHANGED job, ~ Searches
  PROVE  SearchInv'
BY DEF Searches, SearchInv

\* The server is not in the middle of anything.
LEMMA SearchApart ==
  ASSUME SearchInv, UNCHANGED job, IsSeq(shown) => IsSeq(shown'), shown # <<>> => shown' # <<>>,
         server' \notin {"body", "value", "serve"}, toServer' = <<>> \/ server' \notin {"kek", "loop"},
         client' = "editor" => client = "editor" \/ shown' # <<>>
  PROVE  SearchInv'
<1> SUFFICES ASSUME Searches' PROVE SearchInv'
  BY DEF SearchInv
<1>1. SearchKnown /\ (client = "editor" => shown # <<>>)
  BY DEF SearchInv, Searches
<1>2. SearchKnown' /\ (client' = "editor" => shown' # <<>>)
  BY <1>1 DEF SearchKnown
<1>3. SearchRead' /\ SearchSent'
  BY DEF SearchRead, SearchSent
<1> QED
  BY <1>2, <1>3 DEF SearchInv

LEMMA ServerSearches == ASSUME SessionInv, SearchInv, ServerStep PROVE SearchInv'
<1> SUFFICES ASSUME Searches PROVE SearchInv'
  <2>1. UNCHANGED job
    BY DEF ServerStep, Pong, Accept, ReadKek, ReadMessage, ReadBody, ReadValue, ServeEdit, ServeDelete,
       ServePasswd, ServeRekey, ServeAdd, ImportAdds, ServeFind, ServeExport, ImportEnds, using
  <2> QED
    BY <2>1, NotSearching
<1>1. CASE Pong
  BY <1>1, SearchFrame DEF Pong, link, serving, using, SearchInv, SearchSent, OfTheSearch, SearchLimit, Idle
<1>2. CASE Accept
  <2>1. toServer = <<>>
    BY <1>2 DEF Accept, SessionInv, Present
  <2> QED
    BY <1>2, <2>1, SearchApart DEF Accept, using
<1>3. CASE ReadKek \/ ReadMessage \/ ReadBody \/ ReadValue
  BY <1>3, ReadKekSearches, ReadMessageSearches, ReadBodySearches, ReadValueSearches
<1>4. ASSUME HangUp, UNCHANGED using PROVE SearchInv'
  BY <1>4, SearchApart DEF HangUp, using
<1>5. ASSUME NEW good \in BOOLEAN,
             ServeEdit(good) \/ ServeDelete(good) \/ ServePasswd(good) \/ ServeRekey(good) PROVE SearchInv'
  <2>1. HangUp /\ UNCHANGED using
    BY <1>5 DEF ServeEdit, ServeDelete, ServePasswd, ServeRekey
  <2> QED
    BY <1>4, <2>1
<1>6. ASSUME NEW good \in BOOLEAN, NEW i \in Ids, ServeAdd(i, good) \/ ImportAdds(i, good) PROVE SearchInv'
  <2>1. server # "import"
    BY ServesSearch
  <2>2. HangUp /\ UNCHANGED using
    BY <1>6, <2>1 DEF ServeAdd, ImportAdds
  <2> QED
    BY <1>4, <2>2
<1>7. ASSUME NEW n \in 0..Cardinality(Ids), ServeExport(n) PROVE SearchInv'
  <2>1. HangUp /\ UNCHANGED using
    BY <1>7 DEF ServeExport
  <2> QED
    BY <1>4, <2>1
<1>8. CASE ImportEnds
  BY <1>4, <1>8 DEF ImportEnds
<1>9. CASE ServeFind
  <2>1. toServer = <<>>
    BY <1>9, NotIdle DEF ServeFind, Serving, SessionInv, Understood
  <2> QED
    BY <1>9, <2>1, SearchApart DEF ServeFind, using
<1> QED
  BY <1>1, <1>2, <1>3, <1>5, <1>6, <1>7, <1>8, <1>9 DEF ServerStep

\* The client ends, or goes on with what there is.
LEMMA ClientSearches == ASSUME SessionInv, SearchInv, ClientReading PROVE SearchInv'
<1> USE DEF serving
<1>0. ASSUME UNCHANGED <<toServer, server, job>>, shown # <<>> => shown' # <<>>, Searches PROVE SearchSent'
  BY <1>0 DEF SearchInv, SearchSent, OfTheSearch, SearchLimit
<1> SUFFICES ASSUME Searches PROVE SearchInv'
  <2>1. UNCHANGED job
    BY DEF ClientReading, Searching, Ping, GiveUp, Connect, ReadMatch, Receive, ReceiveFails, Send, SendEnd, Response, using
  <2> QED
    BY <2>1, NotSearching
<1>1. CASE Ping
  <2>1. UNCHANGED <<toServer, server, request, job, shown, client>>
    BY <1>1 DEF Ping, link, using
  <2> QED
    BY <1>0, <2>1, SearchFrame DEF Idle
<1>2. CASE GiveUp
  <2>1. UNCHANGED <<toServer, server, request, job, shown>> /\ client = "search" /\ client' = "off"
    BY <1>2 DEF GiveUp, End
  <2> QED
    BY <1>0, <2>1, SearchFrame DEF Idle
<1>3. ASSUME NEW good \in BOOLEAN, Connect(good) PROVE SearchInv'
  <2>1. server = "accept" /\ UNCHANGED <<server, job, shown>> /\ client' # "editor"
    BY <1>3 DEF Connect, Found, End, SessionInv, Present
  <2> QED
    BY <2>1, SearchApart
<1>4. CASE Response
  <2>1. UNCHANGED <<toServer, server, request, job, shown>> /\ client = "response" /\ client' = "off"
    BY <1>4 DEF Response, End
  <2> QED
    BY <1>0, <2>1, SearchFrame DEF Idle
<1>5. CASE ReadMatch
  <2>1. UNCHANGED <<toServer, server, request, job>> /\ client = "matches"
    BY <1>5 DEF ReadMatch
  <2>2. IsSeq(shown)
    BY DEF SearchInv, SearchKnown
  <2>3. \A x : IsSeq(Append(shown, x)) /\ Append(shown, x) # <<>>
    <3> SUFFICES ASSUME NEW x PROVE IsSeq(Append(shown, x)) /\ Append(shown, x) # <<>>
      OBVIOUS
    <3>1. IsSeq(Append(shown, x)) /\ Len(Append(shown, x)) = Len(shown) + 1 /\ Len(shown) \in Nat
      BY <2>2, AppendFacts, IsSeqFacts
    <3> QED
      BY <3>1, IsSeqFacts
  <2>4. shown' = shown \/ \E x : shown' = Append(shown, x)
    BY <1>5 DEF ReadMatch
  <2>5. IsSeq(shown') /\ (shown # <<>> => shown' # <<>>)
    BY <2>2, <2>3, <2>4
  <2>6. client' = "editor" => shown' # <<>>
    BY <1>5, <2>1 DEF ReadMatch, End
  <2>7. SearchSent'
    BY <1>0, <2>1, <2>5
  <2>8. ~ Idle
    BY <2>1 DEF Idle
  <2> QED
    BY <2>1, <2>5, <2>6, <2>7, <2>8, SearchFrame
<1>6. ~ Receive /\ ~ ReceiveFails /\ ~ Send /\ ~ SendEnd
  BY CmdFacts DEF Receive, ReceiveFails, Send, SendEnd, SessionInv, JobKnown, Searches
<1> QED
  BY <1>1, <1>2, <1>3, <1>4, <1>5, <1>6 DEF ClientReading, Searching

LEMMA UserSearches == ASSUME SessionInv, SearchInv, UserStep PROVE SearchInv'
<1>1. ASSUME NEW kek, Hello(kek) PROVE SearchInv'
  BY <1>1, HelloSearches
<1>2. ASSUME NEW e \in Entries, Edited(e) PROVE SearchInv'
  BY <1>2, EditedSearches
<1>3. CASE Refused
  <2>1. UNCHANGED <<toServer, server, request, job, shown>> /\ client \in {"editor", "prompt"} /\ client' = "off"
    BY <1>3 DEF Refused, End, serving
  <2>2. Searches => SearchSent'
    BY <2>1 DEF SearchInv, SearchSent, OfTheSearch, SearchLimit
  <2>3. CASE Searches
    BY <2>1, <2>2, <2>3, SearchFrame DEF Idle
  <2> QED
    BY <2>1, <2>3, NotSearching
<1>4. ASSUME NEW p \in Passwords, NewPasswd(p) PROVE SearchInv'
  <2>1. job.cmd = Cmd.passwd /\ {"cmd", "value", "limit"} \subseteq DOMAIN job
    BY <1>4 DEF NewPasswd, SessionInv, JobKnown
  <2>2. job'.cmd = job.cmd
    <3> DEFINE new == [password |-> p]
    <3>1. job' = Over(new, job) /\ "cmd" \notin DOMAIN new
      BY <1>4 DEF NewPasswd
    <3> HIDE DEF new
    <3> QED
      BY <2>1, <3>1, OverFacts
  <2> QED
    BY <2>1, <2>2, CmdFacts DEF SearchInv, Searches
<1>5. ASSUME ExportPasswd \/ (\E right \in BOOLEAN : ImportPasswd(right)) PROVE SearchInv'
  <2>1. UNCHANGED job /\ job.cmd \in {Cmd.export, Cmd.import}
    BY <1>5 DEF ExportPasswd, ImportPasswd
  <2> QED
    BY <2>1, NotSearching, CmdFacts DEF Searches
<1> QED
  BY <1>1, <1>2, <1>3, <1>4, <1>5 DEF UserStep

LEMMA OtherSearches ==
  ASSUME SessionInv, SearchInv, Given \/ Restart \/ Break \/ UNCHANGED vars
  PROVE  SearchInv'
<1>1. CASE UNCHANGED vars
  BY <1>1 DEF vars, link, serving, using, SearchInv, Searches, SearchKnown, SearchSent, OfTheSearch, SearchRead,
     SearchLimit, Idle
<1>2. CASE Restart
  BY <1>2, SearchApart DEF Restart, using
<1>3. CASE Break
  <2>1. /\ UNCHANGED <<job, shown, client, server, request>> /\ clientOn
        /\ \E k \in 0..Len(toServer) : toServer' = SubSeq(toServer, 1, k)
    BY <1>3 DEF Break, using, serving
  <2>2. client \notin {"off", "search"}
    BY <2>1 DEF SessionInv, Present
  <2>3. CASE Searches
    <3>1. SearchSent'
      <4>1. CASE server \in {"kek", "loop", "body", "value"}
        BY <2>1, <2>3, <4>1, FewerSent, ReadsRecords DEF SearchInv
      <4>2. CASE server \notin {"kek", "loop", "body", "value"}
        BY <2>1, <4>2 DEF SearchSent
      <4> QED
        BY <4>1, <4>2
    <3> QED
      BY <2>1, <2>2, <3>1, SearchFrame DEF Idle
  <2> QED
    BY <2>1, <2>3, NotSearching
<1>4. CASE Given
  <2>1. ASSUME NEW cmd, NEW value, NEW limit, Start(cmd, value, limit)
        PROVE  /\ toServer' = <<>> /\ shown' = <<>> /\ client' = "search" /\ Idle'
               /\ job'.cmd = cmd /\ job'.value = value /\ job'.limit = limit /\ "limit" \in DOMAIN job'
    BY <2>1 DEF Start, link, Idle
  <2>2. ASSUME NEW cmd, NEW value \in Seq(Nat), NEW limit \in Nat, Start(cmd, value, limit) PROVE SearchInv'
    <3>1. /\ toServer' = <<>> /\ shown' = <<>> /\ client' = "search" /\ Idle'
          /\ job'.value = value /\ job'.limit = limit /\ "limit" \in DOMAIN job'
      BY <2>1, <2>2
    <3>2. SearchKnown' /\ SearchSent'
      BY <3>1, TupleFacts DEF SearchKnown, SearchSent
    <3> QED
      BY <3>1, <3>2 DEF SearchInv
  <2>3. <<>> \in Seq(Nat) /\ 1 \in Nat
    OBVIOUS
  <2>4. ASSUME NEW cmd, Start(cmd, <<>>, 1) PROVE SearchInv'
    BY <2>2, <2>3, <2>4
  <2>5. ASSUME NEW cmd, NEW value \in Values, Start(cmd, value, 1) PROVE SearchInv'
    BY <2>2, <2>3, <2>5, KeysSessionAssumption
  <2>6. ASSUME NEW value \in Values, NEW limit \in Limits, Start(Cmd.find, value, limit) PROVE SearchInv'
    BY <2>2, <2>6, KeysSessionAssumption
  <2> QED
    BY <1>4, <2>4, <2>5, <2>6 DEF Given
<1> QED
  BY <1>1, <1>2, <1>3, <1>4

LEMMA SearchKept == ASSUME SessionInv, SearchInv, [Next]_vars PROVE SearchInv'
BY ServerSearches, ClientSearches, UserSearches, OtherSearches DEF Next

-------------------------------------------------------------------------------
\* What a search shows

(* Replies that go on after the first entries of those that can be shown; all *)
(* that are left and the end, if nothing has gone wrong.                      *)
LeftOf(s, have, all, whole) ==
  /\ \A k \in 1..Len(s) : 2 * k <= Len(s) =>
       have + k <= Len(all) /\ s[2 * k][1].entry = all[have + k]
  /\ whole => Len(s) = 2 * (Len(all) - have) + 1 /\ Number(s[Len(s)][12]) = 0

OnlyFound == \A k \in DOMAIN served : served[k].cmd = Cmd.find
ShownFirst == OnlyFound => Len(shown) <= Len(ToShow) /\ \A k \in 1..Len(shown) : shown[k] = ToShow[k]
MatchesLeft ==
  client = "matches" =>
    IF served = <<>> THEN shown = <<>> /\ toClient = <<>>
    ELSE LeftOf(toClient, Len(shown), ToShow, faults = 0) /\ toServer = <<>> /\ server \in {"loop", "accept"}
EditShown ==
  \A k \in DOMAIN served :
    served[k].cmd = Cmd.edit /\ served[k].old \notin {Absent, Unreadable} => shown # <<>> /\ served[k].old = shown[1]
FindShown ==
  job.cmd = Cmd.find /\ Ended /\ faults = 0 => Idle /\ (served # <<>> => shown = ToShow)

(* The client has the first of what there is to show, and a find that ends    *)
(* without a fault has all; an edit replaces the first.                       *)
ShownInv == Searches => ShownFirst /\ MatchesLeft /\ EditShown /\ FindShown

LEMMA ToShowFacts ==
  ASSUME Typed, SearchInv, Searches
  PROVE  Hits \in Seq(Ids) /\ SearchLimit \in Nat /\ IsSeq(ToShow) /\ Len(ToShow) \in Nat /\ IsSeq(shown) /\ Len(shown) \in Nat
<1>1. job.limit \in Nat /\ IsSeq(shown)
  BY DEF SearchInv, SearchKnown
<1>2. SearchLimit \in Nat
  BY <1>1 DEF SearchLimit
<1>3. Hits \in Seq(Ids)
  BY <1>2, SearchType DEF Typed, Term, Hits
<1>4. IsSeq(ToShow)
  BY <1>3, RepliesShow DEF ToShow
<1> QED
  BY <1>1, <1>2, <1>3, <1>4, IsSeqFacts

LEMMA ToShowLater == (Typed /\ SearchInv /\ Searches => IsSeq(ToShow) /\ Len(ToShow) \in Nat)'
<1>1. Typed /\ SearchInv /\ Searches => IsSeq(ToShow) /\ Len(ToShow) \in Nat
  BY ToShowFacts
<1> QED
  BY <1>1, PTL

\* What is left when another entry has been read.
LEMMA LeftRead ==
  ASSUME NEW s, IsStream(s), s # <<>>, Tail(s) # <<>>, NEW have \in Nat, NEW all, Len(all) \in Nat,
         NEW whole \in BOOLEAN, LeftOf(s, have, all, whole),
         NEW u, u = Tail(Tail(s))
  PROVE  have + 1 <= Len(all) /\ Tail(s)[1][1].entry = all[have + 1] /\ LeftOf(u, have + 1, all, whole)
<1>1. IsStream(u) /\ Len(u) = Len(s) - 2 /\ \A k \in 1..(Len(s) - 2) : u[k] = s[k + 2]
  BY SecondTailShape
<1>2. Len(s) \in Nat /\ Len(s) >= 2 /\ Tail(s)[1] = s[2]
  <2> DEFINE t == Tail(s)
  <2>1. IsStream(t) /\ Len(t) = Len(s) - 1 /\ \A k \in 1..(Len(s) - 1) : t[k] = s[k + 1]
    BY TailShape
  <2>2. t # <<>>
    OBVIOUS
  <2> HIDE DEF t
  <2>3. Len(t) \in Nat /\ Len(t) # 0 /\ Len(s) \in Nat
    BY <2>1, <2>2, StreamShape
  <2>4. 1 \in 1..(Len(s) - 1) /\ Len(s) >= 2
    BY <2>1, <2>3
  <2>5. t[1] = s[1 + 1]
    BY <2>1, <2>4
  <2> QED
    BY <2>3, <2>4, <2>5 DEF t
<1>3. \A k \in 1..Len(s) : 2 * k <= Len(s) => have + k <= Len(all) /\ s[2 * k][1].entry = all[have + k]
  BY DEF LeftOf
<1>4. have + 1 <= Len(all) /\ s[2][1].entry = all[have + 1]
  <2>1. 1 \in 1..Len(s) /\ 2 * 1 <= Len(s) /\ 2 * 1 = 2
    BY <1>2
  <2> QED
    BY <1>3, <2>1
<1>5. ASSUME NEW k \in 1..Len(u), 2 * k <= Len(u)
      PROVE  (have + 1) + k <= Len(all) /\ u[2 * k][1].entry = all[(have + 1) + k]
  <2>1. /\ k + 1 \in 1..Len(s) /\ 2 * (k + 1) <= Len(s) /\ 2 * (k + 1) = 2 * k + 2
        /\ 2 * k \in 1..(Len(s) - 2) /\ have + (k + 1) = (have + 1) + k
    BY <1>1, <1>2, <1>5
  <2>2. have + (k + 1) <= Len(all) /\ s[2 * (k + 1)][1].entry = all[have + (k + 1)]
    BY <1>3, <2>1
  <2>3. u[2 * k] = s[2 * k + 2]
    BY <1>1, <2>1
  <2> QED
    BY <2>1, <2>2, <2>3
<1>6. ASSUME whole PROVE Len(u) = 2 * (Len(all) - (have + 1)) + 1 /\ Number(u[Len(u)][12]) = 0
  <2>1. Len(s) = 2 * (Len(all) - have) + 1 /\ Number(s[Len(s)][12]) = 0
    BY <1>6 DEF LeftOf
  <2>2. Len(u) = 2 * (Len(all) - (have + 1)) + 1 /\ Len(u) \in 1..(Len(s) - 2) /\ Len(u) + 2 = Len(s)
    <3>1. \A a, h, l, n \in Nat : l = 2 * (a - h) + 1 /\ h + 1 <= a /\ n = l - 2 =>
            n = 2 * (a - (h + 1)) + 1 /\ n \in 1..(l - 2) /\ n + 2 = l
      OBVIOUS
    <3>2. Len(u) \in Nat /\ Len(u) = Len(s) - 2
      BY <1>1, StreamShape
    <3> DEFINE a == Len(all)  l == Len(s)  n == Len(u)
    <3>3. a \in Nat /\ l \in Nat /\ n \in Nat /\ l = 2 * (a - have) + 1 /\ have + 1 <= a /\ n = l - 2
      BY <1>2, <1>4, <2>1, <3>2
    <3> HIDE DEF a, l, n
    <3>4. n = 2 * (a - (have + 1)) + 1 /\ n \in 1..(l - 2) /\ n + 2 = l
      BY <3>1, <3>3
    <3> QED
      BY <3>4 DEF a, l, n
  <2> QED
    BY <1>1, <2>1, <2>2
<1> QED
  BY <1>2, <1>4, <1>5, <1>6 DEF LeftOf

\* A part of what is left, if something went wrong.
LEMMA LeftPart ==
  ASSUME NEW s, IsStream(s), NEW have, NEW all, NEW whole, LeftOf(s, have, all, whole), NEW n \in 0..Len(s),
         NEW p, p = SubSeq(s, 1, n)
  PROVE  LeftOf(p, have, all, FALSE)
<1>1. IsStream(p) /\ Len(p) = n /\ (\A k \in 1..n : p[k] = s[k]) /\ Len(s) \in Nat
  BY PartShape, StreamShape
<1>2. ASSUME NEW k \in 1..Len(p), 2 * k <= Len(p)
      PROVE  have + k <= Len(all) /\ p[2 * k][1].entry = all[have + k]
  <2>1. k \in 1..Len(s) /\ 2 * k <= Len(s) /\ 2 * k \in 1..n
    BY <1>1, <1>2
  <2> QED
    BY <1>1, <2>1 DEF LeftOf
<1> QED
  BY <1>2 DEF LeftOf

\* Nothing is left at all when nothing went wrong and there is nothing more to show.
LEMMA LeftNone ==
  ASSUME NEW have, NEW all
  PROVE  LeftOf(<<>>, have, all, FALSE)
<1>1. Len(<<>>) = 0 /\ 1..0 = {}
  OBVIOUS
<1> QED
  BY <1>1 DEF LeftOf

\* A server that has nothing to read does not begin anything.
Quiet ==
  toServer = <<>> =>
    /\ toServer' = <<>>
    /\ server \in {"loop", "accept"} => server' \in {"loop", "accept"}
    /\ server' \in {"serve", "import"} => server' = server

\* What is shown stays right while the search stays and nothing more is served or shown.
LEMMA ShownFrame ==
  ASSUME ShownInv, Searches' => Searches /\ job'.cmd = job.cmd /\ ToShow' = ToShow,
         UNCHANGED <<served, shown>>,
         faults' = 0 => faults = 0,
         client' = "matches" => UNCHANGED <<client, toClient, faults>> /\ Quiet,
         job.cmd = Cmd.find /\ Ended' => Ended /\ client \in {"off", "search"} /\ Quiet
  PROVE  ShownInv'
<1> SUFFICES ASSUME Searches' PROVE ShownInv'
  BY DEF ShownInv
<1>1. Searches /\ job'.cmd = job.cmd /\ ToShow' = ToShow
  OBVIOUS
<1>2. ShownFirst /\ MatchesLeft /\ EditShown /\ FindShown
  BY <1>1 DEF ShownInv
<1>3. ShownFirst'
  BY <1>1, <1>2 DEF ShownFirst, OnlyFound
<1>4. EditShown'
  BY <1>2 DEF EditShown
<1>5. MatchesLeft'
  BY <1>1, <1>2 DEF MatchesLeft, Quiet
<1>6. FindShown'
  <2> SUFFICES ASSUME job'.cmd = Cmd.find, Ended', faults' = 0 PROVE Idle' /\ (served' # <<>> => shown' = ToShow')
    BY DEF FindShown
  <2>1. Idle /\ (served # <<>> => shown = ToShow) /\ Quiet
    BY <1>1, <1>2 DEF FindShown
  <2>2. client' = "off"
    BY DEF Ended
  <2>3. Idle'
    BY <2>1, <2>2 DEF Idle, Quiet
  <2> QED
    BY <1>1, <2>1, <2>3
<1> QED
  BY <1>3, <1>4, <1>5, <1>6 DEF ShownInv

\* Without a search there is nothing to show.
LEMMA NoneToShow ==
  ASSUME UNCHANGED job, ~ Searches
  PROVE  ShownInv'
BY DEF Searches, ShownInv

\* What there is to show is the same while the entries and the search are.
LEMMA SameToShow ==
  /\ UNCHANGED <<index, file, job>> => ToShow' = ToShow
  /\ UNCHANGED <<index, file>> /\ SameSearch => ToShow' = ToShow
BY DEF ToShow, Hits, Shows, Loads, SearchLimit, SameSearch

\* With nothing to read a read ends the connection.
LEMMA ReadsNothing ==
  ASSUME toServer = <<>>, ReadKek \/ ReadMessage \/ ReadBody \/ ReadValue
  PROVE  /\ toServer' = <<>> /\ server' \in {"accept", "down"}
         /\ server = "loop" => server' = "accept"
         /\ server # "accept"
<1>1. \A n : Len(Taken(toServer, n)) = 0
  BY TupleFacts DEF Taken
<1>2. CASE ReadKek
  BY <1>1, <1>2 DEF ReadKek, HangUp, KekLen
<1>3. CASE ReadMessage
  BY <1>1, <1>3 DEF ReadMessage, HangUp
<1>4. CASE ReadBody
  BY <1>4 DEF ReadBody, HangUp
<1>5. CASE ReadValue
  BY <1>5 DEF ReadValue, HangUp
<1> QED
  BY <1>2, <1>3, <1>4, <1>5

LEMMA ReadingShows ==
  ASSUME SessionInv, ShownInv, ReadKek \/ ReadMessage \/ ReadBody \/ ReadValue
  PROVE  ShownInv'
<1>1. UNCHANGED <<db, toClient, clientOn, served, using, faults>>
  BY DEF ReadKek, ReadMessage, ReadBody, ReadValue
<1>2. Quiet
  BY ReadsNothing DEF Quiet
<1> USE DEF db, using
<1>3. Searches' => Searches
  BY <1>1 DEF Searches
<1>4. Ended' => Ended /\ client \in {"off", "search"}
  BY <1>1 DEF Ended
<1> QED
  BY <1>1, <1>2, <1>3, <1>4, SameToShow, ShownFrame

\* An edit replaces the first entry that was shown.
LEMMA ServeEditShows ==
  ASSUME SessionInv, SearchInv, ShownInv, NEW good \in BOOLEAN, ServeEdit(good)
  PROVE  ShownInv'
<1> DEFINE matches == SearchIndex(index, request.value, 2)
           done == [cmd |-> Cmd.edit, ok |-> good, entry |-> request.entry, old |-> file[matches[1]]]
<1>1. server = "serve" /\ request.cmd = Cmd.edit /\ HangUp /\ UNCHANGED <<clientOn, using, search>>
  BY DEF ServeEdit, Serving
<1> USE DEF using
<1>2. job.cmd = Cmd.edit /\ Cmd.edit # Cmd.find /\ client # "matches" /\ ~ Idle
  <2>1. RequestKnown /\ request.cmd = job.cmd /\ ~ Idle
    <3>1. request.cmd # Cmd.find
      BY <1>1, CmdFacts
    <3> QED
      BY <1>1, <3>1, ServesTheJob, NotIdle
  <2>2. Requested
    <3>1. Sent(request.cmd)
      BY <2>1 DEF RequestKnown, Asked
    <3> QED
      BY <1>1, <3>1, CmdFacts DEF Sent, Nothing
  <2>3. Cmd.edit # Cmd.find
    BY CmdFacts
  <2>4. client # "matches"
    BY <2>2 DEF Requested
  <2> QED
    BY <1>1, <2>1, <2>3, <2>4
<1> SUFFICES ASSUME Searches PROVE ShownInv'
  BY <1>1, NoneToShow
<1>3. ShownFirst /\ EditShown /\ SearchRead
  BY <1>2 DEF ShownInv, SearchInv
<1>4. matches = Hits /\ shown # <<>>
  BY <1>1, <1>2, <1>3 DEF SearchRead, Hits, SearchLimit
<1>5. OnlyFound
  BY <1>1, OnlySearches DEF OnlyFound, SessionInv
<1>6. MatchesLeft' /\ FindShown'
  BY <1>1, <1>2 DEF MatchesLeft, FindShown
<1>7. Hits \in Seq(Ids) /\ IsSeq(shown) /\ Len(shown) \in Nat
  BY ToShowFacts DEF SessionInv
<1>8. CASE matches # <<>>
  <2>1. served' = Append(served, done)
    BY <1>8 DEF ServeEdit, Done
  <2>2. done.cmd = Cmd.edit /\ done.old = file[Hits[1]]
    BY <1>4
  <2> HIDE DEF matches, done
  <2>3. /\ IsSeq(served') /\ Len(served') = Len(served) + 1 /\ Len(served) \in Nat
        /\ \A k \in 1..Len(served) : served'[k] = served[k]
        /\ served'[Len(served) + 1] = done /\ DOMAIN served = 1..Len(served)
    BY <2>1, AppendFacts, IsSeqFacts DEF SessionInv, DoneRight
  <2>4. DOMAIN served' = 1..(Len(served) + 1)
    BY <2>3, IsSeqFacts
  <2>5. done.old \notin {Absent, Unreadable} => done.old = shown[1]
    <3> SUFFICES ASSUME done.old \notin {Absent, Unreadable} PROVE done.old = shown[1]
      OBVIOUS
    <3>1. Loads(Hits[1])
      BY <2>2 DEF Loads
    <3>2. ToShow[1] = file[Hits[1]]
      BY <1>4, <1>7, <1>8, <3>1, RepliesShow DEF ToShow
    <3>3. 1 \in 1..Len(shown)
      BY <1>4, <1>7, IsSeqFacts
    <3>4. shown[1] = ToShow[1]
      BY <1>3, <1>5, <3>3 DEF ShownFirst
    <3> QED
      BY <2>2, <3>2, <3>4
  <2>6. ~ OnlyFound'
    <3>1. Len(served) + 1 \in DOMAIN served'
      BY <2>3, <2>4
    <3> QED
      BY <1>2, <2>2, <2>3, <3>1 DEF OnlyFound
  <2>7. EditShown'
    <3>1. ASSUME NEW k \in DOMAIN served', served'[k].cmd = Cmd.edit PROVE k = Len(served) + 1
      <4>1. k \in 1..Len(served) => served[k].cmd = Cmd.find
        BY <1>5, <2>3 DEF OnlyFound
      <4> QED
        BY <1>2, <2>3, <2>4, <3>1, <4>1
    <3> QED
      BY <1>1, <1>4, <2>3, <2>5, <3>1 DEF EditShown
  <2> QED
    BY <1>6, <2>6, <2>7 DEF ShownInv, ShownFirst
<1>9. CASE matches = <<>>
  <2>1. UNCHANGED <<db, served, faults>>
    BY <1>9 DEF ServeEdit
  <2>2. ToShow' = ToShow
    BY <1>1, <2>1, SameToShow DEF db
  <2>3. ShownFirst' /\ EditShown'
    BY <1>1, <1>3, <2>1, <2>2 DEF ShownFirst, EditShown, OnlyFound
  <2> QED
    BY <1>6, <2>3 DEF ShownInv
<1> QED
  BY <1>8, <1>9

\* A find sends the client what there is to show.
LEMMA ServeFindShows ==
  ASSUME SessionInv, SearchInv, Unharmed, ShownInv, ServeFind
  PROVE  ShownInv'
<1> DEFINE matches == SearchIndex(index, request.value, request.arg)
           last == Message(IF TRUE THEN OK ELSE 1, Len(matches), 0)
           recs == Append(FindReplies(matches), last)
           done == [cmd |-> Cmd.find]
<1>1. /\ server = "serve" /\ request.cmd = Cmd.find
      /\ toClient' = SentBack(recs) /\ served' = Append(served, done)
      /\ server' = "loop" /\ UNCHANGED <<db, toServer, clientOn, serverOn, using, search, faults>>
  BY DEF ServeFind, Serving, Reply, Done
<1>2. UNCHANGED <<index, file, job, shown, client, code>>
  BY <1>1 DEF db, using
<1> SUFFICES ASSUME Searches PROVE ShownInv'
  BY <1>2, NoneToShow
<1>3. RequestKnown /\ ~ Idle /\ toServer = <<>>
  BY <1>1, ServesTheJob, NotIdle DEF SessionInv, Understood
<1>4. matches = Hits
  BY <1>1, <1>3 DEF SearchInv, SearchRead, Hits
<1>5. /\ Hits \in Seq(Ids) /\ IsSeq(ToShow) /\ Len(ToShow) \in Nat /\ IsSeq(shown) /\ Len(shown) \in Nat
      /\ ToShow' = ToShow
  BY <1>2, ToShowFacts, SameToShow DEF SessionInv
<1>6. done.cmd = Cmd.find /\ Cmd.find # Cmd.edit
  BY CmdFacts
<1>7. IsSeq(recs) /\ LeftOf(recs, 0, ToShow, TRUE)
  <2> DEFINE r == FindReplies(matches)
  <2>1. IsSeq(r) /\ Len(r) = 2 * Len(ToShow) /\ \A k \in 1..Len(ToShow) : r[2 * k] = <<[entry |-> ToShow[k]]>>
    BY <1>4, <1>5, RepliesShow DEF ToShow
  <2>2. Number(last[12]) = 0
    <3>1. last = Message(OK, Len(matches), 0) /\ OK \in Nat /\ 0 \in Nat /\ Len(matches) \in Nat
      BY <1>4, <1>5, CmdFacts
    <3> HIDE DEF last, matches
    <3> QED
      BY <3>1, MessageFacts
  <2> HIDE DEF r, last, matches
  <2>3. /\ IsSeq(recs) /\ Len(recs) = 2 * Len(ToShow) + 1 /\ recs[2 * Len(ToShow) + 1] = last
        /\ \A k \in 1..(2 * Len(ToShow)) : recs[k] = r[k]
    <3>1. /\ IsSeq(recs) /\ Len(recs) = Len(r) + 1 /\ recs[Len(r) + 1] = last
          /\ \A k \in 1..Len(r) : recs[k] = r[k]
      BY <2>1, AppendFacts DEF r
    <3> HIDE DEF recs
    <3> QED
      BY <2>1, <3>1
  <2> HIDE DEF recs
  <2>4. ASSUME NEW k \in 1..Len(recs), 2 * k <= Len(recs)
        PROVE  0 + k <= Len(ToShow) /\ recs[2 * k][1].entry = ToShow[0 + k]
    <3>1. k \in 1..Len(ToShow) /\ 2 * k \in 1..(2 * Len(ToShow)) /\ 0 + k = k
      <4>1. \A l \in Nat, m \in Nat : \A n \in 1..l : l = 2 * m + 1 /\ 2 * n <= l =>
              n \in 1..m /\ 2 * n \in 1..(2 * m) /\ 0 + n = n
        OBVIOUS
      <4>2. Len(recs) \in Nat
        BY <2>3, IsSeqFacts
      <4> DEFINE m == Len(ToShow)  l == Len(recs)
      <4>3. l \in Nat /\ m \in Nat /\ k \in 1..l /\ l = 2 * m + 1 /\ 2 * k <= l
        BY <1>5, <2>3, <2>4, <4>2
      <4> HIDE DEF m, l
      <4>4. k \in 1..m /\ 2 * k \in 1..(2 * m) /\ 0 + k = k
        BY <4>1, <4>3
      <4> QED
        BY <4>4 DEF m
    <3>2. recs[2 * k] = <<[entry |-> ToShow[k]]>>
      BY <2>1, <2>3, <3>1
    <3>3. \A e : <<[entry |-> e]>>[1].entry = e
      OBVIOUS
    <3> QED
      BY <3>1, <3>2, <3>3
  <2>5. Len(recs) = 2 * (Len(ToShow) - 0) + 1 /\ Number(recs[Len(recs)][12]) = 0
    <3>1. 2 * (Len(ToShow) - 0) = 2 * Len(ToShow)
      BY <1>5
    <3> QED
      BY <2>2, <2>3, <3>1
  <2> QED
    BY <2>3, <2>4, <2>5 DEF LeftOf
<1> HIDE DEF matches, last, recs, done
<1>8. ShownFirst /\ MatchesLeft /\ EditShown /\ FindShown /\ OnlyFound
  BY <1>1, OnlySearches DEF ShownInv, OnlyFound, SessionInv
<1>9. /\ IsSeq(served') /\ Len(served') = Len(served) + 1 /\ Len(served) \in Nat
      /\ \A k \in 1..Len(served) : served'[k] = served[k]
      /\ served'[Len(served) + 1] = done /\ DOMAIN served = 1..Len(served)
  BY <1>1, AppendFacts, IsSeqFacts DEF SessionInv, DoneRight
<1>10. DOMAIN served' = 1..(Len(served) + 1) /\ served' # <<>>
  <2>1. DOMAIN served' = 1..(Len(served) + 1) /\ (served' = <<>> <=> Len(served') = 0)
    BY <1>9, IsSeqFacts
  <2>2. Len(served') # 0
    BY <1>9
  <2> QED
    BY <2>1, <2>2
<1>11. ShownFirst'
  BY <1>2, <1>5, <1>8 DEF ShownFirst
<1>12. EditShown'
  <2>1. \A k \in DOMAIN served' : served'[k].cmd = Cmd.find
    BY <1>6, <1>8, <1>9, <1>10 DEF OnlyFound
  <2> QED
    BY <1>6, <2>1 DEF EditShown
<1>13. FindShown'
  <2>1. ~ (job.cmd = Cmd.find /\ Ended /\ faults = 0)
    BY <1>3, <1>8 DEF FindShown
  <2> QED
    BY <1>1, <1>2, <2>1 DEF FindShown, Ended
<1>14. MatchesLeft'
  <2> SUFFICES ASSUME client = "matches" PROVE LeftOf(toClient', Len(shown), ToShow, faults = 0)
    BY <1>1, <1>2, <1>3, <1>5, <1>10 DEF MatchesLeft
  <2>1. served = <<>> /\ shown = <<>> /\ toClient = <<>>
    BY <1>1, <1>8 DEF MatchesLeft
  <2>2. Len(shown) = 0
    BY <2>1, TupleFacts
  <2>3. CASE clientOn
    <3>1. toClient' = recs
      BY <1>1, <1>7, <2>1, <2>3, JoinEmpty DEF SentBack
    <3>2. LeftOf(recs, 0, ToShow, faults = 0)
      BY <1>7 DEF LeftOf
    <3> QED
      BY <2>2, <3>1, <3>2
  <2>4. CASE ~ clientOn
    <3>1. toClient' = <<>> /\ (faults = 0) = FALSE
      BY <1>1, <2>1, <2>4 DEF SentBack, Unharmed
    <3>2. LeftOf(<<>>, 0, ToShow, FALSE)
      BY LeftNone
    <3> QED
      BY <2>2, <3>1, <3>2
  <2> QED
    BY <2>3, <2>4
<1> QED
  BY <1>11, <1>12, <1>13, <1>14 DEF ShownInv

\* The client reads the next of what there is to show, and ends with all.
LEMMA ReadMatchShows ==
  ASSUME SessionInv, CopyInv, SearchInv, Unharmed, ShownInv, ReadMatch
  PROVE  ShownInv'
<1> DEFINE msg == Taken(toClient, 12)
           rest == Left(toClient, 12)
<1>1. client = "matches" /\ ClientReads /\ UNCHANGED <<db, toServer, serverOn, serving, job, faults>>
  BY DEF ReadMatch
<1>2. UNCHANGED <<index, file, job, served, server, toServer, faults>>
  BY <1>1 DEF db, serving
<1> SUFFICES ASSUME Searches PROVE ShownInv'
  BY <1>2, NoneToShow
<1>3. ShownFirst /\ EditShown /\ OnlyFound /\ MatchesLeft /\ Cmd.find # Cmd.edit
  <2>1. ~ Requested
    BY <1>1 DEF Requested
  <2> QED
    BY <2>1, OnlySearches, CmdFacts DEF ShownInv, OnlyFound, SessionInv
<1>4. /\ Len(shown) <= Len(ToShow) /\ \A k \in 1..Len(shown) : shown[k] = ToShow[k]
      /\ IsSeq(ToShow) /\ Len(ToShow) \in Nat /\ IsSeq(shown) /\ Len(shown) \in Nat
      /\ ToShow' = ToShow
  BY <1>2, <1>3, ToShowFacts, SameToShow DEF SessionInv, ShownFirst
<1>5. EditShown'
  BY <1>2, <1>3 DEF EditShown, OnlyFound
<1>6. IsReplies(toClient)
  BY <1>1 DEF SessionInv, Heard
<1>7. ASSUME toClient # <<>>
      PROVE  /\ rest = Tail(toClient) /\ Len(msg) = 12 /\ msg[12] = toClient[1][12] /\ Number(msg[12]) \in Nat
             /\ Number(msg[12]) = 0 => rest = <<>>
             /\ rest # <<>> => Len(rest[1]) = 1 /\ IsStream(rest)
             /\ IsStream(toClient)
  <2>1. IsStream(toClient) /\ Announces(toClient[1]) /\ IsStream(Tail(toClient))
    BY <1>6, <1>7, RepliesRead
  <2>2. Len(toClient[1]) = 12 /\ Number(toClient[1][12]) \in Nat
    BY <2>1 DEF Announces
  <2>3. rest = Tail(toClient) /\ Len(msg) = 12 /\ msg[12] = toClient[1][12]
    BY <1>7, <2>1, <2>2, TakenCells
  <2> HIDE DEF rest, msg
  <2> QED
    BY <1>6, <1>7, <2>1, <2>2, <2>3, RepliesRead
<1>8. toClient = <<>> => rest = <<>> /\ Len(msg) # 12
  BY TupleFacts DEF Taken, Left
<1>9. CASE Len(msg) = 12 /\ Number(msg[12]) > 0
  <2>1. /\ toClient' = Left(rest, 1) /\ UNCHANGED <<client, clientOn, code>>
        /\ shown' = IF rest = <<>> THEN shown ELSE Append(shown, rest[1][1].entry)
    BY <1>9 DEF ReadMatch
  <2>2. toClient # <<>>
    BY <1>8, <1>9
  <2>3. /\ LeftOf(toClient, Len(shown), ToShow, faults = 0) /\ served # <<>>
        /\ toServer = <<>> /\ server \in {"loop", "accept"}
    BY <1>1, <1>3, <2>2 DEF MatchesLeft
  <2> HIDE DEF rest, msg
  <2>4. FindShown'
    BY <1>1, <2>1 DEF FindShown, Ended
  <2>5. CASE rest = <<>>
    <3>1. shown' = shown /\ toClient' = <<>>
      BY <2>1, <2>5 DEF Left
    <3>2. faults # 0
      <4> SUFFICES ASSUME faults = 0 PROVE FALSE
        OBVIOUS
      <4>1. Number(toClient[Len(toClient)][12]) = 0
        BY <2>3 DEF LeftOf
      <4>2. Len(toClient) = 1
        <5> DEFINE t == Tail(toClient)
        <5>1. Len(t) = Len(toClient) - 1 /\ Len(toClient) \in Nat
          BY <1>7, <2>2, TailShape, StreamShape
        <5>2. t = <<>>
          BY <1>7, <2>2, <2>5
        <5> HIDE DEF t
        <5>3. Len(t) = 0
          BY <5>2, TupleFacts
        <5> QED
          BY <5>1, <5>3
      <4> QED
        BY <1>7, <1>9, <2>2, <4>1, <4>2
    <3>3. LeftOf(<<>>, Len(shown), ToShow, FALSE)
      BY LeftNone
    <3>4. MatchesLeft'
      BY <1>1, <1>2, <1>4, <2>1, <2>3, <3>1, <3>2, <3>3 DEF MatchesLeft
    <3>5. ShownFirst'
      BY <1>4, <3>1 DEF ShownFirst
    <3> QED
      BY <1>5, <2>4, <3>4, <3>5 DEF ShownInv
  <2>6. CASE rest # <<>>
    <3> DEFINE x == rest[1][1].entry
               u == Tail(Tail(toClient))
               n == Len(shown)
    <3>1. shown' = Append(shown, x) /\ toClient' = u
      <4>1. Left(rest, 1) = Tail(rest) /\ rest = Tail(toClient)
        BY <1>7, <2>2, <2>6, TakenCells
      <4> QED
        BY <2>1, <2>6, <4>1
    <3>2. n + 1 <= Len(ToShow) /\ x = ToShow[n + 1] /\ LeftOf(u, n + 1, ToShow, faults = 0)
      <4>1. (faults = 0) \in BOOLEAN
        OBVIOUS
      <4>2. Tail(toClient) # <<>> /\ rest = Tail(toClient) /\ IsStream(toClient)
        BY <1>7, <2>2, <2>6
      <4>3. /\ n + 1 <= Len(ToShow) /\ Tail(toClient)[1][1].entry = ToShow[n + 1]
            /\ LeftOf(u, n + 1, ToShow, faults = 0)
        BY <1>4, <2>2, <2>3, <4>1, <4>2, LeftRead
      <4> QED
        BY <4>2, <4>3
    <3> HIDE DEF x, u
    <3>3. Len(shown') = n + 1 /\ shown'[n + 1] = x /\ \A k \in 1..n : shown'[k] = shown[k]
      BY <1>4, <3>1, AppendFacts
    <3>4. ShownFirst'
      <4>1. \A k \in 1..(n + 1) : k \in 1..n \/ k = n + 1
        BY <1>4
      <4> HIDE DEF n
      <4>2. \A k \in 1..(n + 1) : shown'[k] = ToShow[k]
        BY <1>4, <3>2, <3>3, <4>1 DEF n
      <4> QED
        BY <1>4, <3>2, <3>3, <4>2 DEF ShownFirst
    <3>5. MatchesLeft'
      BY <1>1, <1>2, <1>4, <2>1, <2>3, <3>1, <3>2, <3>3 DEF MatchesLeft
    <3> QED
      BY <1>5, <2>4, <3>4, <3>5 DEF ShownInv
  <2> QED
    BY <2>5, <2>6
<1>10. CASE ~ (Len(msg) = 12 /\ Number(msg[12]) > 0)
  <2>1. /\ UNCHANGED shown
        /\ \/ client' = "editor"
           \/ client' = "off"
    BY <1>10 DEF ReadMatch, End
  <2>2. ShownFirst' /\ MatchesLeft'
    BY <1>2, <1>3, <1>4, <2>1 DEF ShownFirst, MatchesLeft, OnlyFound
  <2>3. FindShown'
    <3> SUFFICES ASSUME job.cmd = Cmd.find, client' = "off", faults = 0
                 PROVE  Idle' /\ (served # <<>> => shown = ToShow)
      BY <1>2, <1>4, <2>1 DEF FindShown, Ended
    <3>1. CASE served = <<>>
      <4>1. toClient = <<>> /\ ~ serverOn /\ clientOn
        BY <1>1, <1>3, <3>1 DEF MatchesLeft, ClientReads, Unharmed
      <4>2. server \in {"accept", "down"} /\ toServer = <<>>
        BY <4>1 DEF CopyInv, HalfClosed, Unharmed
      <4> QED
        BY <1>2, <3>1, <4>2 DEF Idle
    <3>2. CASE served # <<>>
      <4>1. /\ Len(toClient) = 2 * (Len(ToShow) - Len(shown)) + 1
            /\ toServer = <<>> /\ server \in {"loop", "accept"}
        BY <1>1, <1>3, <3>2 DEF MatchesLeft, LeftOf
      <4>2. toClient # <<>> /\ Len(toClient) \in Nat /\ IsStream(toClient)
        <5>1. Len(toClient) # 0
          <6>1. \A a, b \in Nat : b <= a => 2 * (a - b) + 1 # 0
            OBVIOUS
          <6> QED
            BY <1>4, <4>1, <6>1
        <5> QED
          BY <1>6, <5>1, StreamShape DEF IsReplies
      <4>3. Tail(toClient) = <<>>
        <5>1. rest = Tail(toClient) /\ Len(msg) = 12 /\ Number(msg[12]) \in Nat /\ (Number(msg[12]) = 0 => rest = <<>>)
          BY <1>7, <4>2
        <5> HIDE DEF rest, msg
        <5>2. Number(msg[12]) = 0
          BY <1>10, <5>1
        <5> QED
          BY <5>1, <5>2
      <4>4. Len(toClient) = 1
        <5> DEFINE t == Tail(toClient)
        <5>1. Len(t) = Len(toClient) - 1
          BY <4>2, TailShape
        <5>2. t = <<>>
          BY <4>3
        <5> HIDE DEF t
        <5>3. Len(t) = 0
          BY <5>2, TupleFacts
        <5> QED
          BY <4>2, <5>1, <5>3
      <4>5. Len(shown) = Len(ToShow)
        <5>1. \A a, b \in Nat : b <= a /\ 1 = 2 * (a - b) + 1 => b = a
          OBVIOUS
        <5> QED
          BY <1>4, <4>1, <4>4, <5>1
      <4>6. shown = ToShow
        BY <1>4, <4>5, SameSeq
      <4>7. Idle'
        BY <1>2, <4>1 DEF Idle
      <4> QED
        BY <4>6, <4>7
    <3> QED
      BY <3>1, <3>2
  <2> QED
    BY <1>5, <2>2, <2>3 DEF ShownInv
<1> QED
  BY <1>9, <1>10

LEMMA ServerShows ==
  ASSUME SessionInv, SearchInv, Unharmed, ShownInv, ServerStep
  PROVE  ShownInv'
<1>0. UNCHANGED job
  BY DEF ServerStep, Pong, Accept, ReadKek, ReadMessage, ReadBody, ReadValue, ServeEdit, ServeDelete,
     ServePasswd, ServeRekey, ServeAdd, ImportAdds, ServeFind, ServeExport, ImportEnds, using
<1> SUFFICES ASSUME Searches PROVE ShownInv'
  BY <1>0, NoneToShow
<1>1. CASE Pong
  <2>1. UNCHANGED <<index, file, job, served, shown, faults, client, toClient, toServer, server, code>>
    BY <1>1 DEF Pong, db, link, serving, using
  <2>2. client \in {"off", "search"}
    BY <1>1 DEF Pong, SessionInv, Present
  <2> QED
    BY <2>1, <2>2, SameToShow, ShownFrame DEF Quiet, Ended
<1>2. CASE Accept
  <2>1. UNCHANGED <<index, file, job, served, shown, faults, client>> /\ client = "hello"
    BY <1>2 DEF Accept, db, using, SessionInv, Present
  <2> QED
    BY <2>1, SameToShow, ShownFrame DEF Ended
<1>3. CASE ReadKek \/ ReadMessage \/ ReadBody \/ ReadValue
  BY <1>3, ReadingShows
<1>4. ASSUME Serving(Cmd.delete) \/ Serving(Cmd.passwd) \/ Serving(Cmd.rekey) \/ Serving(Cmd.add)
             \/ Serving(Cmd.export) \/ server = "import" PROVE FALSE
  BY <1>4, ServesSearch, CmdFacts DEF Serving
<1>5. ASSUME NEW good \in BOOLEAN,
             ServeEdit(good) \/ ServeDelete(good) \/ ServePasswd(good) \/ ServeRekey(good) PROVE ShownInv'
  <2>1. ServeEdit(good)
    BY <1>4, <1>5 DEF ServeDelete, ServePasswd, ServeRekey
  <2> QED
    BY <2>1, ServeEditShows
<1>6. ASSUME NEW good \in BOOLEAN, NEW i \in Ids PROVE ~ ServeAdd(i, good) /\ ~ ImportAdds(i, good)
  BY <1>4 DEF ServeAdd, ImportAdds
<1>7. ASSUME NEW n \in 0..Cardinality(Ids) PROVE ~ ServeExport(n)
  BY <1>4 DEF ServeExport
<1>8. ~ ImportEnds
  BY <1>4 DEF ImportEnds
<1>9. CASE ServeFind
  BY <1>9, ServeFindShows
<1> QED
  BY <1>1, <1>2, <1>3, <1>5, <1>6, <1>7, <1>8, <1>9 DEF ServerStep

LEMMA ClientShows ==
  ASSUME SessionInv, CopyInv, SearchInv, Unharmed, ShownInv, ClientReading
  PROVE  ShownInv'
<1>0. UNCHANGED job
  BY DEF ClientReading, Searching, Ping, GiveUp, Connect, ReadMatch, Receive, ReceiveFails, Send, SendEnd, Response, using
<1> SUFFICES ASSUME Searches PROVE ShownInv'
  BY <1>0, NoneToShow
<1>1. CASE Ping
  <2>1. UNCHANGED <<index, file, job, served, shown, faults, client>> /\ client = "search"
    BY <1>1 DEF Ping, db, serving, using
  <2> QED
    BY <2>1, SameToShow, ShownFrame DEF Ended
<1>2. CASE GiveUp
  <2>1. UNCHANGED <<index, file, job, served, shown, faults>> /\ client' = "off" /\ code' = 1
    BY <1>2 DEF GiveUp, End, db, serving
  <2> QED
    BY <2>1, SameToShow, ShownFrame, CmdFacts DEF Ended
<1>3. ASSUME NEW good \in BOOLEAN, Connect(good) PROVE ShownInv'
  <2>1. UNCHANGED <<index, file, job, served, shown>> /\ (client' = "hello" \/ (client' = "off" /\ code' = 1))
        /\ (faults' = faults \/ faults' = faults + 1)
    BY <1>3 DEF Connect, End, db, serving, Fault
  <2>2. faults' = 0 => faults = 0
    BY <2>1 DEF Unharmed
  <2> QED
    BY <2>1, <2>2, SameToShow, ShownFrame, CmdFacts DEF Ended
<1>4. CASE Response
  <2>1. UNCHANGED <<index, file, job, served, shown, faults>> /\ client' = "off" /\ job.cmd # Cmd.find
    BY <1>4 DEF Response, End, db, serving, SessionInv, JobKnown
  <2> QED
    BY <2>1, SameToShow, ShownFrame
<1>5. CASE ReadMatch
  BY <1>5, ReadMatchShows
<1>6. ~ Receive /\ ~ ReceiveFails /\ ~ Send /\ ~ SendEnd
  BY CmdFacts DEF Receive, ReceiveFails, Send, SendEnd, SessionInv, JobKnown, Searches
<1> QED
  BY <1>1, <1>2, <1>3, <1>4, <1>5, <1>6 DEF ClientReading, Searching

\* Nothing is shown before anything was served.
LEMMA ShownAnew ==
  ASSUME Typed', SearchInv', served' = <<>>, shown' = <<>>, client' # "off",
         client' = "matches" => toClient' = <<>>
  PROVE  ShownInv'
<1> SUFFICES ASSUME Searches' PROVE ShownInv'
  BY DEF ShownInv
<1>1. IsSeq(ToShow') /\ Len(ToShow') \in Nat
  BY ToShowLater
<1>2. Len(shown') = 0 /\ 1..0 = {} /\ DOMAIN served' = {}
  BY TupleFacts
<1>3. ShownFirst'
  BY <1>1, <1>2 DEF ShownFirst
<1>4. MatchesLeft' /\ EditShown' /\ FindShown'
  BY <1>2 DEF MatchesLeft, EditShown, FindShown, Ended
<1> QED
  BY <1>3, <1>4 DEF ShownInv

LEMMA UserShows ==
  ASSUME SessionInv, SearchInv, SessionInv', SearchInv', Unharmed, ShownInv, UserStep
  PROVE  ShownInv'
<1>1. ASSUME NEW kek, Hello(kek) PROVE ShownInv'
  <2>1. /\ client = "hello" /\ toClient' = Left(toClient, 1) /\ client' = NextStep
        /\ served' = served /\ shown' = shown
    BY <1>1 DEF Hello, serving
  <2>2. served = <<>> /\ shown = <<>> /\ toClient \in {<<>>, <<<<"kdfp">>>>}
    BY <2>1 DEF SessionInv, Present
  <2>3. toClient' = <<>>
    <3>1. CASE toClient = <<>>
      BY <2>1, <3>1 DEF Left
    <3>2. CASE toClient = <<<<"kdfp">>>>
      <4>1. IsStream(toClient) /\ toClient # <<>> /\ Len(toClient[1]) = 1
        <5> DEFINE r == <<"kdfp">>
        <5>1. IsSeq(r) /\ Len(r) = 1
          BY TupleFacts
        <5> HIDE DEF r
        <5>2. toClient = <<r>>
          BY <3>2 DEF r
        <5>3. IsStream(<<r>>) /\ Len(<<r>>) = 1 /\ <<r>>[1] = r
          BY <5>1, TupleStream, TupleFacts
        <5>4. <<r>> # <<>>
          OBVIOUS
        <5> QED
          BY <5>1, <5>2, <5>3, <5>4
      <4>2. Left(toClient, 1) = Tail(toClient)
        BY <4>1, TakenCells
      <4>3. Tail(toClient) = <<>>
        BY <3>2
      <4> QED
        BY <2>1, <4>2, <4>3
    <3> QED
      BY <2>2, <3>1, <3>2
  <2>4. client' # "off"
    BY <2>1 DEF NextStep
  <2> QED
    BY <2>1, <2>2, <2>3, <2>4, ShownAnew DEF SessionInv
<1>2. ASSUME NEW e \in Entries, Edited(e) PROVE ShownInv'
  <2> DEFINE new == [entry |-> e]
  <2>1. /\ client = "editor" /\ job' = Over(new, job) /\ client' = "response" /\ DOMAIN new = {"entry"}
        /\ UNCHANGED <<index, file, served, shown, faults>>
    BY <1>2 DEF Edited, db, serving
  <2>2. {"cmd", "value", "limit"} \subseteq DOMAIN job
    BY <2>1 DEF SessionInv, JobKnown
  <2>3. "cmd" \notin DOMAIN new /\ "value" \notin DOMAIN new /\ "limit" \notin DOMAIN new
    BY <2>1
  <2> HIDE DEF new
  <2>4. SameSearch
    <3>1. DOMAIN job \subseteq DOMAIN job'
      BY <2>1 DEF Over
    <3> QED
      BY <2>1, <2>2, <2>3, <3>1, OverFacts DEF SameSearch
  <2>5. job'.cmd = job.cmd /\ ToShow' = ToShow /\ (Searches' => Searches)
    BY <2>1, <2>2, <2>4, SameToShow DEF SameSearch, Searches
  <2> QED
    BY <2>1, <2>5, ShownFrame DEF Ended
<1>3. CASE Refused
  <2>1. UNCHANGED <<index, file, job, served, shown, faults>> /\ client' = "off" /\ code' = 1
    BY <1>3 DEF Refused, End, db, serving
  <2>2. Searches' => Searches
    BY <2>1 DEF Searches
  <2> QED
    BY <2>1, <2>2, SameToShow, ShownFrame, CmdFacts DEF Ended
<1>4. ASSUME NEW p \in Passwords, NewPasswd(p) PROVE ShownInv'
  <2>1. job.cmd = Cmd.passwd /\ {"cmd", "value", "limit"} \subseteq DOMAIN job
    BY <1>4 DEF NewPasswd, SessionInv, JobKnown
  <2>2. job'.cmd = job.cmd
    <3> DEFINE new == [password |-> p]
    <3>1. job' = Over(new, job) /\ "cmd" \notin DOMAIN new
      BY <1>4 DEF NewPasswd
    <3> HIDE DEF new
    <3> QED
      BY <2>1, <3>1, OverFacts
  <2> QED
    BY <2>1, <2>2, CmdFacts DEF ShownInv, Searches
<1>5. ASSUME ExportPasswd \/ (\E right \in BOOLEAN : ImportPasswd(right)) PROVE ShownInv'
  <2>1. UNCHANGED job /\ job.cmd \in {Cmd.export, Cmd.import}
    BY <1>5 DEF ExportPasswd, ImportPasswd
  <2> QED
    BY <2>1, NoneToShow, CmdFacts DEF Searches
<1> QED
  BY <1>1, <1>2, <1>3, <1>4, <1>5 DEF UserStep

LEMMA BreakShows ==
  ASSUME SessionInv, SearchInv, Unharmed, ShownInv, Break
  PROVE  ShownInv'
<1>1. /\ clientOn /\ faults' # 0 /\ UNCHANGED <<index, file, job, served, shown, client, code, server>>
      /\ \E k \in 0..Len(toServer) : toServer' = SubSeq(toServer, 1, k)
      /\ \E k \in 0..Len(toClient) : toClient' = SubSeq(toClient, 1, k)
  BY DEF Break, Fault, db, serving, using, Unharmed
<1> SUFFICES ASSUME Searches PROVE ShownInv'
  BY <1>1, NoneToShow
<1>2. ToShow' = ToShow /\ ShownFirst /\ MatchesLeft /\ EditShown
  BY <1>1, SameToShow DEF ShownInv
<1>3. ShownFirst' /\ EditShown' /\ FindShown'
  BY <1>1, <1>2 DEF ShownFirst, OnlyFound, EditShown, FindShown
<1>4. \A s : \A k \in 0..Len(<<>>) : s = SubSeq(<<>>, 1, k) => s = <<>>
  BY TupleFacts
<1>5. MatchesLeft'
  <2> SUFFICES ASSUME client = "matches" PROVE MatchesLeft'
    BY <1>1 DEF MatchesLeft
  <2>1. CASE served = <<>>
    <3>1. shown = <<>> /\ toClient = <<>>
      BY <1>2, <2>1 DEF MatchesLeft
    <3>2. toClient' = <<>>
      BY <1>1, <1>4, <3>1
    <3> QED
      BY <1>1, <2>1, <3>1, <3>2 DEF MatchesLeft
  <2>2. CASE served # <<>>
    <3>1. LeftOf(toClient, Len(shown), ToShow, faults = 0) /\ toServer = <<>> /\ server \in {"loop", "accept"}
      BY <1>2, <2>2 DEF MatchesLeft
    <3>2. toServer' = <<>>
      BY <1>1, <1>4, <3>1
    <3>3. IsStream(toClient)
      BY DEF SessionInv, Heard, IsReplies
    <3>4. LeftOf(toClient', Len(shown), ToShow, FALSE)
      BY <1>1, <3>1, <3>3, LeftPart
    <3> QED
      BY <1>1, <1>2, <2>2, <3>1, <3>2, <3>4 DEF MatchesLeft
  <2> QED
    BY <2>1, <2>2
<1> QED
  BY <1>3, <1>5 DEF ShownInv

LEMMA ShownKept ==
  ASSUME SessionInv, CopyInv, SearchInv, Unharmed, ShownInv, [Next]_vars
  PROVE  ShownInv'
<1>0. SessionInv' /\ SearchInv'
  BY StepKeeps, SearchKept
<1>1. CASE Given
  <2>1. ASSUME NEW cmd, NEW value, NEW limit, Start(cmd, value, limit) PROVE ShownInv'
    <3>1. served' = <<>> /\ shown' = <<>> /\ client' = "search"
      BY <2>1 DEF Start
    <3> QED
      BY <1>0, <3>1, ShownAnew DEF SessionInv
  <2> QED
    BY <1>1, <2>1 DEF Given
<1>2. CASE Restart \/ UNCHANGED vars
  <2>1. /\ UNCHANGED <<index, file, job, served, shown, faults, client, toClient, toServer, code>>
        /\ UNCHANGED server \/ server' = "accept"
    BY <1>2 DEF Restart, vars, db, link, serving, using
  <2>2. Quiet /\ (Searches' => Searches) /\ (Ended' => Ended /\ client \in {"off", "search"})
    BY <2>1 DEF Quiet, Searches, Ended
  <2> QED
    BY <2>1, <2>2, SameToShow, ShownFrame
<1> QED
  BY <1>0, <1>1, <1>2, ServerShows, ClientShows, UserShows, BreakShows DEF Next

-------------------------------------------------------------------------------
\* What is found

\* An entry that is not there or cannot be read has no values.
LEMMA HasValues == ASSUME NEW i, ValuesOf(file[i]) # {} PROVE Loads(i)
<1>1. ValuesOf(Absent) = {}
  BY NoValues DEF Absent
<1>2. ValuesOf(Unreadable) = {}
  <2>1. DOMAIN Unreadable = {1} /\ Unreadable[1].pass
    BY DEF Unreadable
  <2> QED
    BY <2>1 DEF ValuesOf
<1> QED
  BY <1>1, <1>2 DEF Loads

(* What a search finds before it is cut off.                                  *)
AllHits(value) ==
  FlattenSeq([i \in DOMAIN index |->
    IF Len(index[i].str) >= Len(value) /\ TermContains(index[i].str, value) THEN index[i].ids ELSE <<>>])

(* If nothing is damaged it finds the entries with a value that contains what *)
(* was searched for, and no other, and they can be loaded.                    *)
LEMMA AllHitsAre ==
  ASSUME Typed, IndexInv, damaged = {}, NEW value \in Seq(Nat)
  PROVE  /\ IsSeq(AllHits(value)) /\ Range(AllHits(value)) = {i \in Ids : Contain(file[i], value)}
         /\ \A i \in Range(AllHits(value)) : Loads(i)
<1> DEFINE Has(k) == Len(index[k].str) >= Len(value) /\ TermContains(index[k].str, value)
           f == [k \in DOMAIN index |-> IF Has(k) THEN index[k].ids ELSE <<>>]
<1>1. /\ index \in Seq(Term) /\ Len(index) \in Nat /\ DOMAIN index = 1..Len(index)
      /\ \A k \in 1..Len(index) : index[k] \in Term /\ index[k].str \in Seq(Nat) /\ index[k].ids \in Seq(Ids)
  <2>1. index \in Seq(Term)
    BY DEF Typed, Term
  <2>2. Len(index) \in Nat /\ DOMAIN index = 1..Len(index) /\ \A k \in 1..Len(index) : index[k] \in Term
    BY <2>1
  <2> QED
    BY <2>1, <2>2 DEF Term
<1>2. AllHits(value) = FlattenSeq(f)
  BY DEF AllHits
<1>3. \A k \in 1..Len(index) : f[k] = IF Has(k) THEN index[k].ids ELSE <<>>
  BY <1>1
<1>4. f = [k \in 1..Len(index) |-> f[k]]
  BY <1>1
<1> HIDE DEF f, Has
<1>5. IsSeq(f) /\ Len(f) = Len(index)
  BY <1>1, <1>4, MadeSeq
<1>6. \A k \in 1..Len(f) : IsSeq(f[k])
  BY <1>1, <1>3, <1>5, SeqIsSeq, TupleFacts
<1>7. IsSeq(FlattenSeq(f)) /\ Range(FlattenSeq(f)) = UNION {Range(f[k]) : k \in 1..Len(f)}
  BY <1>5, <1>6, FlattenRange
<1>8. \A i \in Ids : \A str : (\E t \in Range(index) : t.str = str /\ i \in Range(t.ids)) <=> str \in ValuesOf(file[i])
  BY ListedIn DEF IndexInv, Lists
<1>9. ASSUME NEW x \in Range(FlattenSeq(f)) PROVE x \in Ids /\ Contain(file[x], value) /\ Loads(x)
  <2>1. PICK k \in 1..Len(index) : x \in Range(f[k])
    BY <1>5, <1>7
  <2>2. Range(<<>>) = {}
    BY EmptyShapes
  <2>3. Has(k) /\ x \in Range(index[k].ids)
    BY <1>3, <2>1, <2>2
  <2>4. x \in Ids /\ index[k] \in Range(index)
    <3>1. index[k].ids \in Seq(Ids) /\ k \in DOMAIN index
      BY <1>1
    <3>2. \A ids \in Seq(Ids) : Range(ids) \subseteq Ids
      BY DEF Range
    <3>3. index[k] \in Range(index)
      BY <3>1 DEF Range
    <3> QED
      BY <2>3, <3>1, <3>2, <3>3
  <2>5. index[k].str \in ValuesOf(file[x])
    BY <1>8, <2>3, <2>4
  <2> QED
    BY <2>3, <2>4, <2>5, HasValues DEF Contain, Has
<1>10. ASSUME NEW x \in Ids, Contain(file[x], value) PROVE x \in Range(FlattenSeq(f))
  <2>1. PICK val \in ValuesOf(file[x]) : TermContains(val, value)
    BY <1>10 DEF Contain
  <2>2. PICK t \in Range(index) : t.str = val /\ x \in Range(t.ids)
    BY <1>8
  <2>3. PICK k \in 1..Len(index) : t = index[k]
    BY <1>1 DEF Range
  <2>4. Has(k)
    BY <1>1, <2>1, <2>2, <2>3, ContainsAsLong DEF Has
  <2> QED
    BY <1>3, <1>5, <1>7, <2>2, <2>3, <2>4
<1> QED
  BY <1>2, <1>7, <1>9, <1>10

LEMMA FoundAll ==
  ASSUME Typed, IndexInv, Started, Unharmed, SearchInv, ShownInv
  PROVE  FindsEveryMatch
<1> SUFFICES ASSUME Ended, job.cmd = Cmd.find, faults = 0, Len(shown) <= job.limit, served # <<>>
             PROVE  Range(shown) = {file[i] : i \in {k \in Ids : Contain(file[k], job.value)}}
  BY DEF FindsEveryMatch
<1>1. Searches
  BY DEF Started, Searches
<1>2. shown = ToShow /\ damaged = {} /\ job.value \in Seq(Nat) /\ job.limit \in Nat
  BY <1>1 DEF ShownInv, FindShown, Unharmed, SearchInv, SearchKnown
<1> DEFINE found == AllHits(job.value)
           n == IF Len(found) < SearchLimit THEN Len(found) ELSE SearchLimit
           f == [k \in DOMAIN Hits |-> IF Loads(Hits[k]) THEN <<file[Hits[k]]>> ELSE <<>>]
<1>3. /\ IsSeq(found) /\ Range(found) = {i \in Ids : Contain(file[i], job.value)}
      /\ \A i \in Range(found) : Loads(i)
  BY <1>2, AllHitsAre
<1>4. Hits = SubSeq(found, 1, n)
  BY DEF Hits, SearchIndex, AllHits
<1>5. ToShow = FlattenSeq(f)
  BY DEF ToShow, Shows
<1> HIDE DEF found
<1>6. Len(found) \in Nat /\ DOMAIN found = 1..Len(found) /\ SearchLimit = job.limit + 1
  BY <1>3, IsSeqFacts, CmdFacts DEF SearchLimit
<1>7. n \in 0..Len(found) /\ (n = Len(found) \/ n = job.limit + 1)
  BY <1>2, <1>6
<1> HIDE DEF n
<1>8. IsSeq(Hits) /\ Len(Hits) = n /\ DOMAIN Hits = 1..n /\ \A k \in 1..n : Hits[k] = found[k]
  BY <1>3, <1>4, <1>7, PartFacts, IsSeqFacts
<1>9. \A k \in 1..n : Hits[k] \in Range(found) /\ Loads(Hits[k])
  BY <1>3, <1>6, <1>7, <1>8 DEF Range
<1>10. \A k \in 1..n : f[k] = <<file[Hits[k]]>>
  BY <1>8, <1>9
<1>11. f = [k \in 1..n |-> f[k]]
  BY <1>8
<1> HIDE DEF f
<1>12. IsSeq(f) /\ Len(f) = n
  <2>1. n \in Nat
    BY <1>7
  <2> QED
    BY <1>11, <2>1, MadeSeq
<1>13. IsSeq(ToShow) /\ Len(ToShow) = n /\ \A k \in 1..n : ToShow[k] = file[Hits[k]]
  <2>1. \A k \in 1..Len(f) : IsSeq(f[k]) /\ Len(f[k]) = 1 /\ f[k][1] = file[Hits[k]]
    <3> SUFFICES ASSUME NEW k \in 1..n PROVE IsSeq(f[k]) /\ Len(f[k]) = 1 /\ f[k][1] = file[Hits[k]]
      BY <1>12
    <3> DEFINE e == file[Hits[k]]
    <3>1. f[k] = <<e>>
      BY <1>10
    <3> HIDE DEF e
    <3>2. IsSeq(<<e>>) /\ Len(<<e>>) = 1 /\ <<e>>[1] = e
      BY TupleFacts
    <3>3. IsSeq(f[k]) /\ Len(f[k]) = 1 /\ f[k][1] = e
      BY <3>1, <3>2
    <3> QED
      BY <3>3 DEF e
  <2> QED
    BY <1>5, <1>12, <2>1, LaysOnes
<1>14. n = Len(found)
  BY <1>2, <1>7, <1>13
<1>15. DOMAIN ToShow = 1..n
  BY <1>13, IsSeqFacts
<1>16. Range(ToShow) = {file[i] : i \in Range(found)}
  BY <1>6, <1>8, <1>13, <1>14, <1>15 DEF Range
<1> QED
  BY <1>2, <1>3, <1>16

\* What keeps a search right.
FoundInv == SessionInv /\ CopyInv /\ IndexInv /\ Started /\ Unharmed /\ SearchInv /\ ShownInv

LEMMA FoundStarts == Init => FoundInv
<1> SUFFICES ASSUME Init PROVE FoundInv
  OBVIOUS
<1>1. DOMAIN job = {"cmd"}
  BY DEF Init, Nobody
<1>2. "value" \notin DOMAIN job
  BY <1>1
<1>3. Started /\ Unharmed /\ SearchInv /\ ShownInv
  BY <1>2 DEF Init, Started, Unharmed, SearchInv, ShownInv, Searches
<1>4. CopyInv
  BY CmdFacts DEF Init, CopyInv, HalfClosed, ExportInv, ImportInv, Ended
<1> QED
  BY <1>3, <1>4, InitHolds, IndexStarts DEF FoundInv

LEMMA FoundKept == FoundInv /\ [Next]_vars => FoundInv'
<1> SUFFICES ASSUME FoundInv, [Next]_vars PROVE FoundInv'
  OBVIOUS
<1>1. SessionInv /\ CopyInv /\ IndexInv /\ Started /\ Unharmed /\ SearchInv /\ ShownInv /\ Typed
  BY DEF FoundInv, SessionInv
<1>2. SessionInv' /\ IndexInv'
  BY <1>1, StepKeeps, StepChanges, IndexKept
<1>3. CopyInv' /\ Started' /\ Unharmed'
  BY <1>1, CopyKept, StartedKept, UnharmedKept
<1>4. SearchInv' /\ ShownInv'
  BY <1>1, SearchKept, ShownKept
<1> QED
  BY <1>2, <1>3, <1>4 DEF FoundInv

(* A search that is not cut off at its limit shows every entry with a value   *)
(* that contains what was searched for, in upper or lower case, and no other. *)
THEOREM FindsEveryMatchCorrect == Spec => []FindsEveryMatch
<1>1. FoundInv => FindsEveryMatch
  BY FoundAll DEF FoundInv, SessionInv
<1> QED
  BY <1>1, FoundStarts, FoundKept, PTL DEF Spec

-------------------------------------------------------------------------------
\* What is edited

\* What there is to show are entries that can be loaded.
LEMMA EntriesShown ==
  ASSUME Typed, NEW matches \in Seq(Ids), NEW k \in 1..Len(Shows(matches))
  PROVE  Shows(matches)[k] \in EntryText
<1> DEFINE f == [i \in DOMAIN matches |-> IF Loads(matches[i]) THEN <<file[matches[i]]>> ELSE <<>>]
           s == Shows(matches)
           n == Len(matches)
<1>1. n \in Nat /\ DOMAIN matches = 1..n
  OBVIOUS
<1>2. s = FlattenSeq(f)
  BY DEF Shows
<1>3. IsSeq(f) /\ Len(f) = n
  <2>1. f = [i \in 1..n |-> f[i]]
    BY <1>1
  <2> HIDE DEF f, n
  <2> QED
    BY <1>1, <2>1, MadeSeq
<1>4. ASSUME NEW i \in 1..n PROVE IsSeq(f[i]) /\ \A x \in Range(f[i]) : x \in EntryText
  <2> DEFINE e == file[matches[i]]
             one == <<e>>
  <2>1. /\ matches[i] \in Ids /\ Loads(matches[i]) => f[i] = one
        /\ ~ Loads(matches[i]) => f[i] = <<>>
    BY <1>1
  <2>2. IsSeq(one) /\ Len(one) = 1 /\ one[1] = e
    <3> HIDE DEF e
    <3> QED
      BY TupleFacts
  <2>3. Range(one) = {e}
    <3>1. DOMAIN one = 1..1
      BY <2>2, IsSeqFacts
    <3> HIDE DEF one, e
    <3> QED
      BY <2>2, <3>1 DEF Range
  <2>4. IsSeq(<<>>) /\ Range(<<>>) = {}
    BY TupleFacts DEF Range
  <2>5. Loads(matches[i]) => e \in EntryText
    BY LoadsEntry DEF Typed
  <2> HIDE DEF f, e, one
  <2>6. CASE Loads(matches[i])
    BY <2>1, <2>2, <2>3, <2>5, <2>6
  <2>7. CASE ~ Loads(matches[i])
    BY <2>1, <2>4, <2>7
  <2> QED
    BY <2>6, <2>7
<1> HIDE DEF f, n
<1>5. IsSeq(s) /\ Range(s) = UNION {Range(f[i]) : i \in 1..n}
  <2>1. \A i \in 1..Len(f) : IsSeq(f[i])
    BY <1>3, <1>4
  <2>2. IsSeq(FlattenSeq(f)) /\ Range(FlattenSeq(f)) = UNION {Range(f[i]) : i \in 1..Len(f)}
    BY <1>3, <2>1, FlattenRange
  <2> QED
    BY <1>2, <1>3, <2>2
<1> HIDE DEF s
<1>6. s[k] \in Range(s)
  <2>1. DOMAIN s = 1..Len(s) /\ k \in 1..Len(s)
    BY <1>5, IsSeqFacts DEF s
  <2> QED
    BY <2>1 DEF Range
<1>7. s[k] \in EntryText
  BY <1>4, <1>5, <1>6
<1> QED
  BY <1>7 DEF s

\* An edit is of the first entry its search has shown, and the editor gets one that
\* can be loaded.
LEMMA EditsFound == ASSUME FoundInv PROVE EditsWhatWasShown
<1>1. SessionInv /\ Typed /\ Started /\ SearchInv /\ ShownInv /\ DoneRight
  BY DEF FoundInv, SessionInv
<1>2. ASSUME NEW k \in DOMAIN served, served[k].cmd = Cmd.edit, served[k].old \notin {Absent, Unreadable}
      PROVE  served[k].old = shown[1]
  <2>1. served # <<>>
    <3>1. IsSeq(served)
      BY <1>1 DEF DoneRight
    <3> QED
      BY <3>1, IsSeqFacts
  <2>2. job.cmd = Cmd.edit
    BY <1>1, <1>2, CmdFacts DEF DoneRight, IsTheJob
  <2>3. Searches
    BY <1>1, <2>1, <2>2 DEF Started, Searches
  <2> QED
    BY <1>1, <1>2, <2>3 DEF ShownInv, EditShown
<1>3. ASSUME client = "editor", job.cmd = Cmd.edit
      PROVE  ParseEntry(PrintEntry(shown[1]))
             = IF Len(shown[1]) <= Slots(PrintEntry(shown[1])) THEN shown[1] ELSE Overrun
  <2>1. Searches
    BY <1>1, <1>3 DEF Started, Searches
  <2>2. OnlyFound
    <3>1. ~ Requested
      BY <1>3 DEF Requested
    <3> QED
      BY <1>1, <3>1 DEF DoneRight, OnlyFound
  <2>3. /\ Hits \in Seq(Ids) /\ IsSeq(ToShow) /\ Len(ToShow) \in Nat /\ IsSeq(shown) /\ Len(shown) \in Nat
        /\ shown # <<>>
    BY <1>1, <1>3, <2>1, ToShowFacts DEF SearchInv
  <2>4. Len(shown) >= 1
    BY <2>3, IsSeqFacts
  <2>5. shown[1] = ToShow[1] /\ 1 \in 1..Len(ToShow)
    BY <1>1, <2>1, <2>2, <2>3, <2>4 DEF ShownInv, ShownFirst
  <2>6. ToShow[1] \in EntryText
    BY <1>1, <2>3, <2>5, EntriesShown DEF ToShow
  <2> QED
    BY <2>5, <2>6, TextReadBack
<1> QED
  BY <1>2, <1>3 DEF EditsWhatWasShown

(* The entry that an edit replaces is the first one the user was shown, if    *)
(* the one it replaces can be loaded, and the text the user is given to edit  *)
(* says what the entry holds: it is read back as it was, unless it has more   *)
(* fields than parse_entry has memory for.                                    *)
THEOREM EditsWhatWasShownCorrect == Spec => []EditsWhatWasShown
<1>1. FoundInv => EditsWhatWasShown
  BY EditsFound
<1> QED
  BY <1>1, FoundStarts, FoundKept, PTL DEF Spec

===============================================================================
