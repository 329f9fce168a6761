----------------------------- MODULE PairingProofs -----------------------------
(***************************************************************************)
(* Proofs about Pairing, for any wallets and any number of accounts asked  *)
(* for: no account is made that was not asked for, a password reaches only *)
(* the page of its wallet, and every result reaches a delegate that hears  *)
(* it.  All three follow from what page, queue, events and delegate have   *)
(* to do with each other.                                                  *)
(***************************************************************************)
EXTENDS Pairing, TLAPS

\* The parts of the state have their types.
Delegates == {"app", "create", "parser"}
MaybeWallet == Wallets \cup {None}
MaybePassword == Password \cup {None}
OfWallet == {"fetching", "data", "decrypting", "open"}
Doing == {"nothing", "creating", "parsing"} \cup OfWallet
Page == [of : MaybeWallet \cup {"blank", "login"}, loaded : BOOLEAN, does : Doing, pw : MaybePassword]
Fields ==
    /\ delegate \in Delegates
    /\ wallet \in [guid : MaybeWallet, pw : MaybePassword]
    /\ page \in Page
    /\ stored \in MaybeWallet /\ exists \in SUBSET Wallets
    /\ failed \in BOOLEAN /\ busy \in BOOLEAN /\ scanner \in BOOLEAN /\ cut \in BOOLEAN
    /\ asked \in Nat /\ made \in Nat

\* The events that delegate d has to hear: those it implements, and those that
\* are nobody's result; all but the errors are of a wallet.
NoResult == {"start", "stop"}
Fitting(d) ==
    {e \in [ev : Implements[d] \cup NoResult \cup {"setGuid"}, of : MaybeWallet] :
       e.ev \in NoResult \cup {"createError", "parseError"} \/ e.of \in Wallets}

\* What page, delegate and events have to do with each other: the page works for
\* the delegate there is, which changes only with the page.
PageFits ==
    /\ ~page.loaded => page.does = "nothing"
    /\ page.does \in OfWallet => page.of \in Wallets
    /\ page.of \in Wallets => delegate = "app"
    /\ page.does = "creating" => delegate = "create"
    /\ page.does = "parsing" => delegate = "parser"
    /\ events \in Seq(Fitting(delegate))

\* Commands and passwords are for the page there is, unless the manual pairing
\* has replaced that by the login page, which takes none.
QueueFits ==
    \/ queue = <<>>
    \/ queue = <<Parse>> /\ (page.of = "login" \/ (page.of = "blank" /\ delegate = "parser"))
    \/ \E p \in Password : queue = <<SetPassword(p)>> /\ page.of \in {p.for, "login"}
PasswordsFit ==
    /\ page.pw # None => page.pw.for = page.of
    /\ wallet.pw # None => page.of = "login" \/ wallet.pw.for = page.of

\* While the view of the new account is the delegate, the user is at the screens
\* without a wallet, from where nothing but its button loads a page that asks.
Outside == {"welcome", "create", "manual", "instructions"}
CreateFits ==
    /\ delegate = "create" => screen \in Outside /\ ~failed
    /\ screen \in Outside => stored = None
    /\ made <= asked
    /\ delegate = "create" /\ ~page.loaded /\ page.of # "login" => made < asked

\* The inductive invariant.
PairInv == Fields /\ PageFits /\ QueueFits /\ PasswordsFit /\ CreateFits
-----------------------------------------------------------------------------
\* The queue of commands is run by a fold, of which the proofs need what it does
\* to no command and to one: the recursive function it is defined by is there.
LEMMA RunsNone == ASSUME NEW p PROVE FoldLeft(Runs, p, <<>>) = p
<1> DEFINE Eq(g) == g = [s \in SUBSET (DOMAIN <<>>) |->
                           IF s = {} THEN p ELSE LET x == Max(s) IN Runs(g[s \ {x}], <<>>[x])]
<1>1. DOMAIN <<>> = {}
  OBVIOUS
<1>2. FoldLeft(Runs, p, <<>>) = (CHOOSE g : Eq(g))[DOMAIN <<>>]
  BY DEF FoldLeft, MapThenFoldSet
<1>3. Eq([s \in SUBSET (DOMAIN <<>>) |-> p])
  BY <1>1
<1>4. Eq(CHOOSE g : Eq(g))
  <2> HIDE DEF Eq
  <2> QED
    BY <1>3
<1> QED
  BY <1>1, <1>2, <1>4

\* One command is run.
LEMMA RunsOne == ASSUME NEW p, NEW c PROVE FoldLeft(Runs, p, <<c>>) = Runs(p, c)
<1> DEFINE Eq(g) == g = [s \in SUBSET (DOMAIN <<c>>) |->
                           IF s = {} THEN p ELSE LET x == Max(s) IN Runs(g[s \ {x}], <<c>>[x])]
           w == [s \in SUBSET (DOMAIN <<c>>) |-> IF s = {} THEN p ELSE Runs(p, c)]
           it == CHOOSE g : Eq(g)
<1>1. /\ DOMAIN <<c>> = {1} /\ <<c>>[1] = c
      /\ {1} \ {1} = {} /\ {1} # {} /\ {1} \in SUBSET {1}
  OBVIOUS
<1>9. \A s \in SUBSET {1} : s = {} \/ s = {1}
  OBVIOUS
<1>2. Max({1}) = 1
  BY DEF Max
<1>3. FoldLeft(Runs, p, <<c>>) = (CHOOSE g : Eq(g))[DOMAIN <<c>>]
  BY DEF FoldLeft, MapThenFoldSet
<1>4. Eq(w)
  <2>1. ASSUME NEW s \in SUBSET (DOMAIN <<c>>), s # {}
        PROVE  Max(s) = 1 /\ w[s \ {Max(s)}] = p
    <3>1. s = {1}
      BY <1>1, <1>9, <2>1
    <3>2. s \ {1} = {} /\ {} \in SUBSET (DOMAIN <<c>>)
      BY <3>1
    <3> QED
      BY <1>2, <3>1, <3>2
  <2>2. w = [s \in SUBSET (DOMAIN <<c>>) |->
               IF s = {} THEN p ELSE Runs(w[s \ {Max(s)}], <<c>>[Max(s)])]
    <3> HIDE DEF w
    <3>1. \A s \in SUBSET (DOMAIN <<c>>) :
             (IF s = {} THEN p ELSE Runs(p, c))
               = IF s = {} THEN p ELSE Runs(w[s \ {Max(s)}], <<c>>[Max(s)])
      BY <1>1, <2>1
    <3> QED
      BY <3>1 DEF w
  <2> QED
    BY <2>2
<1>5. Eq(it)
  <2> HIDE DEF Eq
  <2> QED
    BY <1>4
<1> HIDE DEF it
<1>6. it = [s \in SUBSET {1} |->
              IF s = {} THEN p ELSE LET x == Max(s) IN Runs(it[s \ {x}], <<c>>[x])]
  BY <1>1, <1>5
<1>7. it[{}] = p
  BY <1>6
<1>8. it[{1}] = Runs(it[{1} \ {1}], <<c>>[1])
  BY <1>1, <1>2, <1>6
<1> QED
  BY <1>1, <1>3, <1>7, <1>8 DEF it

\* What a command does to a page that is not the login page.
LEMMA RunsPage ==
    ASSUME NEW p \in Page, NEW w \in Password
    PROVE  /\ Runs(p, Parse) = IF p.of = "login" THEN p ELSE [p EXCEPT !.does = "parsing"]
           /\ Runs(p, SetPassword(w)) =
                IF p.of = "login" THEN p
                ELSE [p EXCEPT !.pw = w,
                               !.does = IF p.does = "data" THEN "decrypting" ELSE p.does]
<1>1. SetPassword(w) # Parse /\ SetPassword(w).pw = w
  BY DEF SetPassword, Parse
<1>2. Runs(p, Parse) = IF p.of = "login" THEN p ELSE [p EXCEPT !.does = "parsing"]
  BY DEF Runs
<1> HIDE DEF Parse
<1>3. Runs(p, SetPassword(w)) =
       IF p.of = "login" THEN p
       ELSE [p EXCEPT !.pw = SetPassword(w).pw,
                      !.does = IF p.does = "data" THEN "decrypting" ELSE p.does]
  <2> DEFINE c == SetPassword(w)
  <2>1. c # Parse
    BY <1>1
  <2> HIDE DEF c
  <2>2. Runs(p, c) =
         IF p.of = "login" THEN p
         ELSE [p EXCEPT !.pw = c.pw,
                        !.does = IF p.does = "data" THEN "decrypting" ELSE p.does]
    BY <2>1 DEF Runs
  <2> QED
    BY <2>2 DEF c
<1> QED
  BY <1>1, <1>2, <1>3

\* What each delegate implements.
LEMMA ImplementsIs ==
    /\ Implements["app"] = {"start", "stop", "setGuid", "failGuid", "decrypted", "decryptFailed"}
    /\ Implements["create"] = {"start", "stop", "created", "createError"}
    /\ Implements["parser"] = {"parsed", "parseError"}
  BY DEF Implements

\* An event that fits is one, and queues of them are.
LEMMA EventFits ==
    ASSUME NEW d, NEW ev \in Implements[d] \cup NoResult \cup {"setGuid"}, NEW g \in MaybeWallet,
           ev \in NoResult \cup {"createError", "parseError"} \/ g \in Wallets
    PROVE  Event(ev, g) \in Fitting(d)
  BY DEF Fitting, Event

\* A new document, and the names of pages that are of no wallet.
LEMMA NewDocument ==
    ASSUME NEW of \in MaybeWallet \cup {"blank", "login"}
    PROVE  /\ Document(of) \in Page /\ Document(of).of = of /\ ~Document(of).loaded
           /\ Document(of).does = "nothing" /\ Document(of).pw = None
           /\ "blank" \notin MaybeWallet /\ "login" \notin MaybeWallet /\ None \notin Wallets
  BY PairingAssumption DEF Document, Page, Doing, OfWallet, MaybeWallet, MaybePassword

\* A new page, its commands and passwords fit each other: of a wallet that is
\* opened with its password.
LEMMA OpenFits ==
    ASSUME NEW g \in Wallets, NEW p \in Password, p.for = g, Open(g, p)
    PROVE  /\ delegate' = "app" /\ wallet' \in [guid : MaybeWallet, pw : MaybePassword]
           /\ page' \in Page /\ PageFits' /\ QueueFits' /\ PasswordsFit'
<1>1. /\ wallet' = [guid |-> g, pw |-> p] /\ delegate' = "app"
      /\ page' = Document(g) /\ queue' = <<SetPassword(p)>> /\ events' = <<>>
  BY DEF Open, Load
<1>2. /\ page' \in Page /\ page'.of = g /\ ~page'.loaded
      /\ page'.does = "nothing" /\ page'.pw = None
  BY <1>1, NewDocument DEF MaybeWallet
<1>3. wallet'.pw = p /\ wallet' \in [guid : MaybeWallet, pw : MaybePassword]
  BY <1>1 DEF MaybeWallet, MaybePassword
<1>4. PageFits'
  BY <1>1, <1>2 DEF PageFits, OfWallet
<1>5. QueueFits'
  BY <1>1, <1>2 DEF QueueFits
<1>6. PasswordsFit'
  BY <1>2, <1>3 DEF PasswordsFit
<1> QED
  BY <1>1, <1>2, <1>3, <1>4, <1>5, <1>6

\* Or of no wallet, with no command but to parse for the parser.
LEMMA BlankFits ==
    ASSUME NEW commands, LoadBlank(commands),
           commands = <<>> \/ (commands = <<Parse>> /\ delegate' = "parser")
    PROVE  /\ wallet' \in [guid : MaybeWallet, pw : MaybePassword]
           /\ page' \in Page /\ page'.of = "blank"
           /\ PageFits' /\ QueueFits' /\ PasswordsFit'
<1>1. /\ wallet' = [guid |-> None, pw |-> None]
      /\ page' = Document("blank") /\ queue' = commands /\ events' = <<>>
  BY DEF LoadBlank, Load
<1>2. /\ page' \in Page /\ page'.of = "blank" /\ ~page'.loaded
      /\ page'.does = "nothing" /\ page'.pw = None /\ "blank" \notin Wallets
  BY <1>1, NewDocument DEF MaybeWallet
<1>3. wallet'.pw = None /\ wallet' \in [guid : MaybeWallet, pw : MaybePassword]
  BY <1>1 DEF MaybeWallet, MaybePassword
<1>4. PageFits'
  BY <1>1, <1>2 DEF PageFits, OfWallet
<1>5. QueueFits'
  BY <1>1, <1>2 DEF QueueFits
<1>6. PasswordsFit'
  BY <1>2, <1>3 DEF PasswordsFit
<1> QED
  BY <1>1, <1>2, <1>3, <1>4, <1>5, <1>6

\* The login page replaces another one: what is queued does nothing in it.
LEMMA LoginFits ==
    ASSUME PairInv, page' = Document("login"), UNCHANGED <<delegate, wallet, queue>>,
           events' = <<>>
    PROVE  page' \in Page /\ page'.of = "login" /\ PageFits' /\ QueueFits' /\ PasswordsFit'
<1>1. /\ page' \in Page /\ page'.of = "login" /\ ~page'.loaded
      /\ page'.does = "nothing" /\ page'.pw = None /\ "login" \notin Wallets
  BY NewDocument DEF MaybeWallet
<1>2. PageFits'
  BY <1>1 DEF PageFits, OfWallet
<1>3. QueueFits'
  BY <1>1 DEF PairInv, QueueFits
<1>4. PasswordsFit'
  BY <1>1 DEF PasswordsFit
<1> QED
  BY <1>1, <1>2, <1>3, <1>4

\* Another step of a page that stays gives it events that fit, or takes one.
LEMMA TookFits ==
    ASSUME PairInv, events # <<>>, Took, UNCHANGED <<delegate, wallet, page, queue>>
    PROVE  page' \in Page /\ PageFits' /\ QueueFits' /\ PasswordsFit'
<1>1. events \in Seq(Fitting(delegate)) /\ events # <<>>
  BY DEF PairInv, PageFits
<1> HIDE DEF Fitting
<1>2. Tail(events) \in Seq(Fitting(delegate))
  BY <1>1
<1>3. PageFits'
  BY <1>2 DEF Took, PairInv, PageFits
<1>4. QueueFits' /\ PasswordsFit'
  BY DEF PairInv, QueueFits, PasswordsFit
<1> QED
  BY <1>3, <1>4 DEF PairInv, Fields

\* The event that is delivered fits the delegate.
LEMMA HeadFits ==
    ASSUME PairInv, events # <<>>
    PROVE  Head(events) \in Fitting(delegate)
<1> HIDE DEF Fitting
<1> QED
  BY DEF PairInv, PageFits

\* What a page was doing ends with events that fit, in a page that still fits.
LEMMA EndsFit ==
    ASSUME PairInv, NEW does, NEW now \in Doing \ {"creating", "parsing"}, NEW ev, NEW g, NEW then,
           PageEnds(does, now, ev, g, then), then = Stop \/ then = <<>>,
           now \in OfWallet => page.of \in Wallets,
           Event(ev, g) \in Fitting(delegate),
           exists' \in SUBSET Wallets
    PROVE  PairInv'
<1>1. page' = [page EXCEPT !.does = now] /\ page.loaded
  BY DEF PageEnds
<1>2. /\ page' \in Page /\ page'.of = page.of /\ page'.loaded = page.loaded /\ page'.loaded
      /\ page'.does = now /\ page'.pw = page.pw
  BY <1>1 DEF PairInv, Fields, Page
<1>3. events' \in Seq(Fitting(delegate))
  <2>1. Event("stop", None) \in Fitting(delegate)
    <3>1. "stop" \in NoResult /\ None \in MaybeWallet
      BY DEF NoResult, MaybeWallet
    <3> QED
      BY <3>1, EventFits
  <2>2. events \in Seq(Fitting(delegate))
    BY DEF PairInv, PageFits
  <2>3. events' = events \o <<Event(ev, g)>> \o then
    BY DEF PageEnds
  <2> HIDE DEF Fitting
  <2>4. <<Event(ev, g)>> \in Seq(Fitting(delegate)) /\ then \in Seq(Fitting(delegate))
    <3>1. ASSUME NEW F, NEW x \in F
          PROVE  <<x>> \in Seq(F) /\ <<>> \in Seq(F)
      OBVIOUS
    <3>2. then = <<Event("stop", None)>> \/ then = <<>>
      BY DEF Stop
    <3>3. <<Event("stop", None)>> \in Seq(Fitting(delegate)) /\ <<>> \in Seq(Fitting(delegate))
      BY <2>1, <3>1
    <3>4. <<Event(ev, g)>> \in Seq(Fitting(delegate))
      BY <3>1
    <3> QED
      BY <3>2, <3>3, <3>4
  <2> QED
    BY <2>2, <2>3, <2>4
<1>4. /\ UNCHANGED <<delegate, wallet, queue, stored, view, busy, history>>
  BY DEF PageEnds
<1>5. PageFits'
  BY <1>2, <1>3, <1>4 DEF PairInv, PageFits, OfWallet
<1>6. QueueFits' /\ PasswordsFit'
  BY <1>2, <1>4 DEF PairInv, QueueFits, PasswordsFit
<1>7. Fields'
  BY <1>2, <1>4 DEF PairInv, Fields, view, history
<1>8. CreateFits'
  BY <1>2, <1>4 DEF PairInv, CreateFits, view, history
<1> QED
  BY <1>5, <1>6, <1>7, <1>8 DEF PairInv

\* webViewDidFinishLoad runs what is queued in a page that fits.
LEMMA PageLoadsFits == PairInv /\ PageLoads => PairInv'
<1> SUFFICES ASSUME PairInv, PageLoads
             PROVE  PairInv'
  OBVIOUS
<1> DEFINE l == [page EXCEPT !.loaded = TRUE]
           p == FoldLeft(Runs, l, queue)
           does == IF delegate = "create" /\ page.of # "login" THEN "creating"
                   ELSE IF page.of \in Wallets THEN "fetching" ELSE p.does
<1>1. /\ page \in Page /\ ~page.loaded /\ page.of # None
      /\ page.does = "nothing" /\ (page.pw # None => page.pw.for = page.of)
  BY DEF PageLoads, PairInv, Fields, PageFits, PasswordsFit
<1>2. /\ l \in Page /\ l.of = page.of /\ l.loaded = TRUE /\ l.does = "nothing"
      /\ (l.pw # None => l.pw.for = page.of)
  BY <1>1 DEF Page
<1>3. /\ page' = [p EXCEPT !.does = does]
      /\ made' = IF does = "creating" THEN made + 1 ELSE made
      /\ events' = IF does = "nothing" THEN events ELSE Append(events, Event("start", None))
      /\ queue' = <<>>
      /\ UNCHANGED <<delegate, wallet, stored, view, busy, exists, asked, dropped, cut>>
  BY DEF PageLoads
<1> HIDE DEF l
<1>4. /\ p \in Page /\ p.of = page.of /\ p.loaded = TRUE
      /\ p.pw # None => p.pw.for = page.of
      /\ p.does = "nothing" \/ (p.does = "parsing" /\ delegate = "parser")
  <2>1. CASE queue = <<>>
    BY <1>2, <2>1, RunsNone
  <2>2. CASE queue = <<Parse>> /\ (page.of = "login" \/ (page.of = "blank" /\ delegate = "parser"))
    <3>2. p = IF l.of = "login" THEN l ELSE [l EXCEPT !.does = "parsing"]
      BY <2>2, RunsOne DEF Runs
    <3> HIDE DEF p
    <3> QED
      BY <1>2, <2>2, <3>2 DEF Page, Doing
  <2>3. CASE \E w \in Password : queue = <<SetPassword(w)>> /\ page.of \in {w.for, "login"}
    <3>1. PICK w \in Password : queue = <<SetPassword(w)>> /\ page.of \in {w.for, "login"}
      BY <2>3
    <3>2. p = Runs(l, SetPassword(w))
      BY <3>1, RunsOne
    <3>3. p = IF l.of = "login" THEN l ELSE [l EXCEPT !.pw = w, !.does = "nothing"]
      BY <1>2, <3>2, RunsPage
    <3> HIDE DEF p
    <3> QED
      BY <1>2, <3>1, <3>3 DEF Page, Doing, MaybePassword
  <2> QED
    BY <2>1, <2>2, <2>3 DEF PairInv, QueueFits
<1> HIDE DEF p
<1>5. does \in Doing
  BY <1>4 DEF Doing, OfWallet, Page
<1>6. /\ delegate \in Delegates /\ (page.of \in Wallets => delegate = "app")
      /\ does = "creating" => delegate = "create"
      /\ does = "parsing" => delegate = "parser"
      /\ does \in OfWallet => page.of \in Wallets
      /\ does = "creating" <=> (delegate = "create" /\ page.of # "login")
  BY <1>4 DEF PairInv, Fields, PageFits, OfWallet
<1> HIDE DEF does
<1>7. /\ page' \in Page /\ page'.of = page.of /\ page'.loaded = TRUE /\ page'.does = does
      /\ page'.pw = p.pw
  BY <1>3, <1>4, <1>5 DEF Page
<1>8. events' \in Seq(Fitting(delegate))
  <2>1. Event("start", None) \in Fitting(delegate)
    <3>1. "start" \in NoResult /\ None \in MaybeWallet
      BY DEF NoResult, MaybeWallet
    <3> QED
      BY <3>1, EventFits
  <2>2. events \in Seq(Fitting(delegate))
    BY DEF PairInv, PageFits
  <2> HIDE DEF Fitting
  <2> QED
    BY <1>3, <2>1, <2>2
<1>9. PageFits'
  BY <1>3, <1>6, <1>7, <1>8 DEF PageFits
<1>10. QueueFits'
  BY <1>3 DEF QueueFits
<1>11. PasswordsFit'
  BY <1>3, <1>4, <1>7 DEF PairInv, PasswordsFit
<1>12. CreateFits'
  BY <1>1, <1>3, <1>6, <1>7 DEF PairInv, Fields, CreateFits, view
<1>13. Fields'
  BY <1>3, <1>7 DEF PairInv, Fields, view
<1> QED
  BY <1>9, <1>10, <1>11, <1>12, <1>13 DEF PairInv

\* did_set_guid gives the password of the wallet to its page.
LEMMA DidSetGuidFits == PairInv /\ DidSetGuid => PairInv'
<1> SUFFICES ASSUME PairInv, DidSetGuid
             PROVE  PairInv'
  OBVIOUS
<1>1. /\ Took /\ events # <<>>
      /\ page' = IF wallet.pw = None THEN page ELSE Runs(page, SetPassword(wallet.pw))
      /\ UNCHANGED <<delegate, wallet, queue, stored, view, busy, exists, history>>
  BY DEF DidSetGuid, Told
<1>2. page \in Page /\ wallet.pw \in MaybePassword
  BY DEF PairInv, Fields
<1>3. /\ page' \in Page /\ page'.of = page.of /\ page'.loaded = page.loaded
      /\ page'.pw \in {page.pw, wallet.pw} /\ (page.of = "login" => page'.pw = page.pw)
      /\ page'.does = page.does \/ (page.does = "data" /\ page'.does = "decrypting")
      /\ ~page.loaded => page'.does = page.does
  <2>1. CASE wallet.pw = None
    BY <1>1, <1>2, <2>1
  <2>2. CASE wallet.pw # None
    <3>1. wallet.pw \in Password
      BY <1>2, <2>2 DEF MaybePassword
    <3>2. page' = IF page.of = "login" THEN page
                  ELSE [page EXCEPT !.pw = wallet.pw,
                                    !.does = IF page.does = "data" THEN "decrypting" ELSE page.does]
      BY <1>1, <1>2, <2>2, <3>1, RunsPage
    <3>3. page.loaded \/ page.does = "nothing"
      BY DEF PairInv, PageFits
    <3> QED
      BY <1>2, <3>1, <3>2, <3>3 DEF Page, Doing, OfWallet, MaybePassword
  <2> QED
    BY <2>1, <2>2
<1>4. events' \in Seq(Fitting(delegate))
  <2>1. events \in Seq(Fitting(delegate))
    BY DEF PairInv, PageFits
  <2> HIDE DEF Fitting
  <2> QED
    BY <1>1, <2>1 DEF Took
<1>6. PageFits'
  BY <1>1, <1>3, <1>4 DEF PairInv, PageFits, OfWallet
<1>7. QueueFits'
  BY <1>1, <1>3 DEF PairInv, QueueFits
<1>8. PasswordsFit'
  BY <1>1, <1>3 DEF PairInv, PasswordsFit
<1>9. CreateFits'
  BY <1>1, <1>3 DEF PairInv, CreateFits, view, history
<1>10. Fields'
  BY <1>1, <1>3 DEF PairInv, Fields, view, history
<1> QED
  BY <1>6, <1>7, <1>8, <1>9, <1>10 DEF PairInv

\* The page's work ends with results that fit.
LEMMA PageWorksFits == PairInv /\ PageWorks => PairInv'
<1> SUFFICES ASSUME PairInv, PageWorks
             PROVE  PairInv'
  OBVIOUS
<1>1. /\ exists \in SUBSET Wallets /\ None \in MaybeWallet /\ Wallets \subseteq MaybeWallet
      /\ {"nothing", "data", "open"} \subseteq Doing \ {"creating", "parsing"}
      /\ "nothing" \notin OfWallet
      /\ page.does \in OfWallet => page.of \in Wallets /\ delegate = "app"
      /\ page.does = "creating" => delegate = "create"
      /\ page.does = "parsing" => delegate = "parser"
      /\ {"fetching", "decrypting"} \subseteq OfWallet
  BY DEF PairInv, Fields, PageFits, MaybeWallet, Doing, OfWallet
<1>2. CASE NewAccount
  <2>1. page.does = "creating"
    BY <1>2 DEF NewAccount, PageEnds
  <2>2. CASE \E g \in Wallets \ exists :
               PageEnds("creating", "nothing", "created", g, Stop) /\ exists' = exists \cup {g}
    <3>1. PICK g \in Wallets : PageEnds("creating", "nothing", "created", g, Stop)
                             /\ exists' = exists \cup {g}
      BY <2>2
    <3>2. Event("created", g) \in Fitting(delegate)
      BY <1>1, <2>1, EventFits, ImplementsIs
    <3> QED
      BY <1>1, <3>1, <3>2, EndsFit
  <2>3. CASE PageEnds("creating", "nothing", "createError", None, Stop) /\ UNCHANGED exists
    <3>1. Event("createError", None) \in Fitting(delegate)
      BY <1>1, <2>1, EventFits, ImplementsIs
    <3> QED
      BY <1>1, <2>3, <3>1, EndsFit
  <2>4. CASE /\ page.loaded /\ page' = [page EXCEPT !.does = "nothing"]
             /\ events' = events \o Stop
             /\ UNCHANGED <<delegate, wallet, queue, stored, view, busy, exists, history>>
    <3>1. /\ page' \in Page /\ page'.of = page.of /\ page'.loaded = page.loaded
          /\ page'.does = "nothing" /\ page'.pw = page.pw
      BY <1>1, <2>4 DEF PairInv, Fields, Page
    <3>2. events' \in Seq(Fitting(delegate))
      <4>1. Event("stop", None) \in Fitting(delegate)
        BY <1>1, EventFits DEF NoResult
      <4>2. events \in Seq(Fitting(delegate))
        BY DEF PairInv, PageFits
      <4> HIDE DEF Fitting
      <4>3. <<Event("stop", None)>> \in Seq(Fitting(delegate))
        BY <4>1
      <4>4. events' = events \o <<Event("stop", None)>>
        BY <2>4 DEF Stop
      <4> QED
        BY <4>2, <4>3, <4>4
    <3>3. PageFits'
      BY <1>1, <2>4, <3>1, <3>2 DEF PairInv, PageFits
    <3>4. QueueFits' /\ PasswordsFit'
      BY <2>4, <3>1 DEF PairInv, QueueFits, PasswordsFit
    <3>5. Fields'
      BY <2>4, <3>1 DEF PairInv, Fields, view, history
    <3>6. CreateFits'
      BY <2>4, <3>1 DEF PairInv, CreateFits, view, history
    <3> QED
      BY <3>3, <3>4, <3>5, <3>6 DEF PairInv
  <2> QED
    BY <1>2, <2>2, <2>3, <2>4 DEF NewAccount
<1>3. CASE ParsePairingCode
  <2>1. page.does = "parsing" /\ exists' = exists
    BY <1>3 DEF ParsePairingCode, PageEnds
  <2>2. CASE \E g \in exists : PageEnds("parsing", "nothing", "parsed", g, Stop)
    <3>1. PICK g \in Wallets : PageEnds("parsing", "nothing", "parsed", g, Stop)
      BY <1>1, <2>2
    <3>2. Event("parsed", g) \in Fitting(delegate)
      BY <1>1, <2>1, EventFits, ImplementsIs
    <3> QED
      BY <1>1, <2>1, <3>1, <3>2, EndsFit
  <2>3. CASE PageEnds("parsing", "nothing", "parseError", None, Stop)
    <3>1. Event("parseError", None) \in Fitting(delegate)
      BY <1>1, <2>1, EventFits, ImplementsIs
    <3> QED
      BY <1>1, <2>1, <2>3, <3>1, EndsFit
  <2> QED
    BY <1>3, <2>2, <2>3 DEF ParsePairingCode
<1>4. CASE FetchWallet
  <2>1. page.does = "fetching" /\ exists' = exists
    BY <1>4 DEF FetchWallet, PageEnds
  <2>2. page.of \in Wallets /\ page.of \in MaybeWallet /\ delegate = "app"
    BY <1>1, <2>1
  <2>3. /\ Event("setGuid", page.of) \in Fitting(delegate)
        /\ Event("failGuid", page.of) \in Fitting(delegate)
    BY <2>2, EventFits, ImplementsIs
  <2> QED
    BY <1>1, <1>4, <2>1, <2>2, <2>3, EndsFit DEF FetchWallet
<1>5. CASE DecryptWallet
  <2>1. page.does = "decrypting" /\ exists' = exists
    BY <1>5 DEF DecryptWallet, PageEnds
  <2>2. page.of \in Wallets /\ page.of \in MaybeWallet /\ delegate = "app"
    BY <1>1, <2>1
  <2>3. /\ Event("decrypted", page.of) \in Fitting(delegate)
        /\ Event("decryptFailed", page.of) \in Fitting(delegate)
    BY <2>2, EventFits, ImplementsIs
  <2> QED
    BY <1>1, <1>5, <2>1, <2>2, <2>3, EndsFit DEF DecryptWallet
<1> QED
  BY <1>2, <1>3, <1>4, <1>5 DEF PageWorks

\* Events are delivered, and the delegates may open a wallet.
LEMMA DeliveredFits == PairInv /\ Delivered => PairInv'
<1> SUFFICES ASSUME PairInv, Delivered
             PROVE  PairInv'
  OBVIOUS
<1> USE DEF PairInv
<1>1. CASE Dropped \/ Network \/ ErrorCreating
  <2>1. /\ events # <<>> /\ Took /\ busy' \in BOOLEAN
        /\ UNCHANGED <<delegate, wallet, page, queue, stored, view, exists, asked, made, cut>>
    BY <1>1 DEF Dropped, Network, ErrorCreating, Told, history, Fields
  <2>2. page' \in Page /\ PageFits' /\ QueueFits' /\ PasswordsFit'
    BY <2>1, TookFits
  <2>3. Fields' /\ CreateFits'
    BY <2>1 DEF Fields, CreateFits, view
  <2> QED
    BY <2>2, <2>3
<1>2. CASE ErrorParsingPairingCode \/ WalletFailedToLoad
  <2>1. /\ events # <<>> /\ Took /\ delegate # "create"
        /\ busy' \in BOOLEAN /\ scanner' \in BOOLEAN /\ failed' \in BOOLEAN
        /\ UNCHANGED <<delegate, wallet, page, queue, stored, screen, exists, history>>
    BY <1>2 DEF ErrorParsingPairingCode, WalletFailedToLoad, Told, Fields
  <2>2. page' \in Page /\ PageFits' /\ QueueFits' /\ PasswordsFit'
    BY <2>1, TookFits
  <2>3. Fields' /\ CreateFits'
    BY <2>1 DEF Fields, CreateFits, history
  <2> QED
    BY <2>2, <2>3
<1>3. ASSUME NEW g \in Wallets, DidCreateNewAccount(g) \/ DidParsePairingCode(g)
      PROVE  PairInv'
  <2> DEFINE p == [for |-> g, right |-> TRUE]
  <2>1. /\ stored' = None /\ Open(g, p) /\ p \in Password /\ p.for = g
        /\ busy' \in BOOLEAN /\ scanner' \in BOOLEAN /\ UNCHANGED <<screen, failed, exists, history>>
    BY <1>3 DEF DidCreateNewAccount, DidParsePairingCode, Pair, Password, Fields, view
  <2> HIDE DEF p
  <2>2. /\ delegate' = "app" /\ wallet' \in [guid : MaybeWallet, pw : MaybePassword]
        /\ page' \in Page /\ PageFits' /\ QueueFits' /\ PasswordsFit'
    BY <2>1, OpenFits
  <2>3. Fields' /\ CreateFits'
    BY <2>1, <2>2 DEF Fields, CreateFits, history, Delegates, MaybeWallet
  <2> QED
    BY <2>2, <2>3
<1>4. CASE DidSetGuid
  BY <1>4, DidSetGuidFits
<1>5. CASE WalletDidDecrypt
  <2>1. /\ events # <<>> /\ Head(events) = Event("decrypted", page.of) /\ Took /\ delegate = "app"
        /\ wallet' = [wallet EXCEPT !.guid = page.of] /\ stored' = page.of /\ screen' = "home"
        /\ UNCHANGED <<delegate, page, queue, scanner, failed, busy, exists, history>>
    BY <1>5 DEF WalletDidDecrypt, Told
  <2>2. page.of \in Wallets
    <3>1. Event("decrypted", page.of) \in Fitting(delegate)
      BY <2>1, HeadFits
    <3> QED
      BY <3>1 DEF Fitting, Event, NoResult
  <2>3. wallet' \in [guid : MaybeWallet, pw : MaybePassword] /\ wallet'.pw = wallet.pw
    BY <2>1, <2>2 DEF Fields, MaybeWallet
  <2>4. events' \in Seq(Fitting(delegate))
    <3>1. events \in Seq(Fitting(delegate))
      BY DEF PageFits
    <3> HIDE DEF Fitting
    <3> QED
      BY <2>1, <3>1 DEF Took
  <2>5. PageFits' /\ QueueFits' /\ PasswordsFit'
    BY <2>1, <2>3, <2>4 DEF PageFits, QueueFits, PasswordsFit
  <2>6. Fields' /\ CreateFits'
    BY <2>1, <2>2, <2>3 DEF Fields, CreateFits, history, MaybeWallet, Outside
  <2> QED
    BY <2>5, <2>6
<1>6. CASE WalletFailedToDecrypt
  <2>1. /\ events # <<>> /\ delegate = "app"
        /\ UNCHANGED <<delegate, wallet, queue, stored, scanner, failed, busy, exists, history>>
        /\ \/ /\ stored = None /\ screen' = "manual" /\ page' = Document("login") /\ events' = <<>>
           \/ screen' = "password" /\ Took /\ UNCHANGED page
    BY <1>6 DEF WalletFailedToDecrypt, Told
  <2>2. page' \in Page /\ PageFits' /\ QueueFits' /\ PasswordsFit'
    BY <2>1, LoginFits, TookFits
  <2>3. Fields' /\ CreateFits'
    BY <2>1, <2>2 DEF Fields, CreateFits, history, Outside
  <2> QED
    BY <2>2, <2>3
<1> QED
  BY <1>1, <1>2, <1>3, <1>4, <1>5, <1>6 DEF Delivered

\* What the user does replaces pages only as the parts above fit.
LEMMA UserFits == PairInv /\ User => PairInv'
<1> SUFFICES ASSUME PairInv, User
             PROVE  PairInv'
  OBVIOUS
<1> USE DEF PairInv
<1>0. /\ events = <<>> /\ events' = events /\ UNCHANGED <<delegate, wallet, page, queue>>
        => page' \in Page /\ PageFits' /\ QueueFits' /\ PasswordsFit'
  BY DEF Fields, PageFits, QueueFits, PasswordsFit
<1>1. CASE GoTo
  <2>1. /\ events = <<>> /\ screen \in Outside /\ screen' \in Outside
        /\ page' = Document("login") \/ UNCHANGED page
        /\ UNCHANGED <<delegate, wallet, queue, events, stored, scanner, failed, busy, exists, history>>
    BY <1>1 DEF GoTo, At, Outside
  <2>2. page' \in Page /\ PageFits' /\ QueueFits' /\ PasswordsFit'
    BY <1>0, <2>1, LoginFits
  <2>3. page'.of = "login" \/ UNCHANGED page
    BY <2>1, NewDocument
  <2>4. Fields' /\ CreateFits'
    BY <2>1, <2>2, <2>3 DEF Fields, CreateFits, history
  <2> QED
    BY <2>2, <2>4
<1>2. CASE CreateAccountClicked
  <2>1. /\ screen = "create" /\ ~failed /\ asked' = asked + 1
        /\ LoadBlank(<<>>) /\ delegate' = "create"
        /\ UNCHANGED <<stored, view, busy, exists, made, dropped, cut>>
    BY <1>2 DEF CreateAccountClicked, At
  <2>2. /\ wallet' \in [guid : MaybeWallet, pw : MaybePassword]
        /\ page' \in Page /\ PageFits' /\ QueueFits' /\ PasswordsFit'
    BY <2>1, BlankFits
  <2>3. Fields' /\ CreateFits'
    BY <2>1, <2>2 DEF Fields, CreateFits, view, Delegates, Outside
  <2> QED
    BY <2>2, <2>3
<1>3. CASE Scanner
  <2>1. /\ scanner' \in BOOLEAN
        /\ UNCHANGED <<delegate, wallet, page, queue, events, stored, screen, failed, busy, exists, history>>
    BY <1>3 DEF Scanner
  <2>2. page' \in Page /\ PageFits' /\ QueueFits' /\ PasswordsFit'
    BY <2>1 DEF Fields, PageFits, QueueFits, PasswordsFit
  <2>3. Fields' /\ CreateFits'
    BY <2>1 DEF Fields, CreateFits, history
  <2> QED
    BY <2>2, <2>3
<1>4. CASE CodeCaptured
  <2>1. /\ LoadBlank(<<Parse>>) /\ delegate' = "parser" /\ busy' = TRUE
        /\ UNCHANGED <<stored, view, exists, history>>
    BY <1>4 DEF CodeCaptured
  <2>2. /\ wallet' \in [guid : MaybeWallet, pw : MaybePassword]
        /\ page' \in Page /\ PageFits' /\ QueueFits' /\ PasswordsFit'
    BY <2>1, BlankFits
  <2>3. Fields' /\ CreateFits'
    BY <2>1, <2>2 DEF Fields, CreateFits, view, history, Delegates
  <2> QED
    BY <2>2, <2>3
<1>5. CASE ContinueClicked \/ MainPasswordClicked
  <2>1. PICK p \in Password : Open(p.for, p)
    BY <1>5 DEF ContinueClicked, MainPasswordClicked
  <2>2. p.for \in Wallets /\ UNCHANGED <<stored, view, busy, exists, history>>
    BY <1>5 DEF ContinueClicked, MainPasswordClicked, Password
  <2>3. /\ delegate' = "app" /\ wallet' \in [guid : MaybeWallet, pw : MaybePassword]
        /\ page' \in Page /\ PageFits' /\ QueueFits' /\ PasswordsFit'
    BY <2>1, <2>2, OpenFits
  <2>4. Fields' /\ CreateFits'
    BY <2>2, <2>3 DEF Fields, CreateFits, view, history, Delegates
  <2> QED
    BY <2>3, <2>4
<1>6. CASE ForgetWallet
  <2>1. /\ screen = "password" \/ failed
        /\ stored' = None /\ screen' = "welcome" /\ failed' = FALSE
        /\ LoadBlank(<<>>) /\ cut' = (cut \/ busy)
        /\ UNCHANGED <<delegate, scanner, busy, exists, asked, made, dropped>>
    BY <1>6 DEF ForgetWallet, At
  <2>2. /\ wallet' \in [guid : MaybeWallet, pw : MaybePassword]
        /\ page' \in Page /\ PageFits' /\ QueueFits' /\ PasswordsFit'
    BY <2>1, BlankFits
  <2>3. delegate # "create"
    BY <2>1 DEF CreateFits, Outside
  <2>4. Fields' /\ CreateFits'
    BY <2>1, <2>2, <2>3 DEF Fields, CreateFits, MaybeWallet
  <2> QED
    BY <2>2, <2>4
<1>7. CASE Background
  <2>1. /\ events = <<>>
        /\ \/ page.does = "open" /\ LoadBlank(<<>>)
           \/ UNCHANGED <<wallet, page, queue, events>>
        /\ screen' = IF stored = None THEN "welcome" ELSE "password"
        /\ UNCHANGED <<delegate, stored, scanner, failed, busy, exists, history>>
    BY <1>7 DEF Background
  <2>2. /\ wallet' \in [guid : MaybeWallet, pw : MaybePassword]
        /\ page' \in Page /\ PageFits' /\ QueueFits' /\ PasswordsFit'
    BY <1>0, <2>1, BlankFits DEF Fields
  <2>3. page.does = "open" => delegate # "create"
    BY DEF PageFits, OfWallet
  <2>4. Fields'
    BY <2>1, <2>2 DEF Fields, history
  <2>5. CreateFits'
    BY <2>1, <2>2, <2>3 DEF CreateFits, history, Outside
  <2> QED
    BY <2>2, <2>4, <2>5
<1>8. CASE Relaunch
  <2>1. /\ delegate' = "app" /\ wallet' = [guid |-> None, pw |-> None]
        /\ page' = Document(None) /\ queue' = <<>> /\ events' = <<>>
        /\ screen' = IF stored = None THEN "welcome" ELSE "password"
        /\ scanner' = FALSE /\ failed' = FALSE /\ busy' = FALSE
        /\ UNCHANGED <<stored, exists, history>>
    BY <1>8 DEF Relaunch
  <2>2. /\ page' \in Page /\ page'.of = None /\ ~page'.loaded
        /\ page'.does = "nothing" /\ page'.pw = None /\ None \notin Wallets
    BY <2>1, NewDocument DEF MaybeWallet
  <2>3. wallet'.pw = None /\ wallet' \in [guid : MaybeWallet, pw : MaybePassword]
    BY <2>1 DEF MaybeWallet, MaybePassword
  <2>4. PageFits' /\ QueueFits' /\ PasswordsFit'
    BY <2>1, <2>2, <2>3 DEF PageFits, QueueFits, PasswordsFit, OfWallet
  <2>5. Fields' /\ CreateFits'
    BY <2>1, <2>2, <2>3 DEF Fields, CreateFits, history, Delegates, Outside
  <2> QED
    BY <2>4, <2>5
<1> QED
  BY <1>1, <1>2, <1>3, <1>4, <1>5, <1>6, <1>7, <1>8 DEF User

\* The app starts with nothing that could not fit.
LEMMA PairInit == Init => PairInv
<1> SUFFICES ASSUME Init
             PROVE  PairInv
  OBVIOUS
<1>1. page = Document(None) /\ wallet = [guid |-> None, pw |-> None] /\ events = <<>> /\ queue = <<>>
  BY DEF Init
<1>2. /\ page \in Page /\ page.of = None /\ ~page.loaded
      /\ page.does = "nothing" /\ page.pw = None /\ None \notin Wallets
  BY <1>1, NewDocument DEF MaybeWallet
<1>3. wallet.pw = None /\ wallet \in [guid : MaybeWallet, pw : MaybePassword]
  BY <1>1 DEF MaybeWallet, MaybePassword
<1>4. PageFits /\ QueueFits /\ PasswordsFit
  BY <1>1, <1>2, <1>3 DEF PageFits, QueueFits, PasswordsFit, OfWallet
<1>5. /\ delegate = "app" /\ stored = None /\ exists \in SUBSET Wallets /\ failed = FALSE
      /\ busy = FALSE /\ scanner = FALSE /\ cut = FALSE /\ asked = 0 /\ made = 0
  BY DEF Init
<1>6. Fields
  BY <1>2, <1>3, <1>5 DEF Fields, Delegates, MaybeWallet
<1>7. CreateFits
  BY <1>5 DEF CreateFits
<1> QED
  BY <1>4, <1>6, <1>7 DEF PairInv

\* Every step keeps the invariant.
LEMMA PairStep == PairInv /\ [Next]_vars => PairInv'
<1>1. ASSUME PairInv, UNCHANGED vars
      PROVE  PairInv'
  <2>1. /\ UNCHANGED <<delegate, wallet, page, queue, events, stored, screen, scanner, failed>>
        /\ UNCHANGED <<busy, exists, asked, made, dropped, cut>>
    BY <1>1 DEF vars
  <2>2. PageFits' /\ QueueFits' /\ PasswordsFit'
    BY <1>1, <2>1 DEF PairInv, PageFits, QueueFits, PasswordsFit
  <2>3. Fields' /\ CreateFits'
    BY <1>1, <2>1 DEF PairInv, Fields, CreateFits
  <2> QED
    BY <2>2, <2>3 DEF PairInv
<1> QED
  BY <1>1, PageLoadsFits, PageWorksFits, DeliveredFits, UserFits DEF Next

\* No step drops a result: the event that is delivered fits its delegate.
LEMMA DroppedStep == PairInv /\ ResultsAreHeard /\ [Next]_vars => ResultsAreHeard'
<1> SUFFICES ASSUME PairInv, ResultsAreHeard, [Next]_vars
             PROVE  ResultsAreHeard'
  OBVIOUS
<1>1. CASE Dropped
  <2>1. Head(events) \in Fitting(delegate)
    BY <1>1, HeadFits DEF Dropped
  <2>2. Head(events).ev \in NoResult
    BY <1>1, <2>1 DEF Dropped, Fitting
  <2> QED
    BY <1>1, <2>2 DEF Dropped, ResultsAreHeard, NoResult
<1>2. CASE ~Dropped
  <2>1. UNCHANGED dropped
    BY <1>2 DEF Next, vars, history, PageLoads, PageWorks, NewAccount, ParsePairingCode, FetchWallet,
         DecryptWallet, PageEnds, Delivered, Network, ErrorCreating, ErrorParsingPairingCode,
         DidCreateNewAccount, DidParsePairingCode, DidSetGuid, WalletFailedToLoad, WalletDidDecrypt,
         WalletFailedToDecrypt, User, GoTo, CreateAccountClicked, Scanner, CodeCaptured,
         ContinueClicked, MainPasswordClicked, ForgetWallet, Background, Relaunch
  <2> QED
    BY <2>1 DEF ResultsAreHeard
<1> QED
  BY <1>1, <1>2
-----------------------------------------------------------------------------
\* In every reachable state page, commands, events and passwords fit each other
\* and the delegate, and a page that asks for an account waits for one that the
\* user asked for: the lemmas above are its proof, per action.
THEOREM PairInvHolds == Spec => []PairInv
<1> QED
  BY PairInit, PairStep, PTL DEF Spec

\* newAccount is asked for at most as often as createAccountClicked: ran, though
\* walletJSReady asks in any page that loads while that view is the delegate.
THEOREM AccountsOnRequest == Spec => []AccountsOnlyOnRequest
<1>1. PairInv => AccountsOnlyOnRequest
  BY DEF PairInv, CreateFits, AccountsOnlyOnRequest
<1> QED
  BY <1>1, PairInvHolds, PTL

\* A password that a command or did_set_guid gives to a page is of its wallet.
THEOREM PasswordReachesItsWallet == Spec => []PasswordForItsWallet
<1>1. PairInv => PasswordForItsWallet
  BY DEF PairInv, PasswordsFit, PasswordForItsWallet
<1> QED
  BY <1>1, PairInvHolds, PTL

\* Every result of a page is delivered to a delegate that implements its method.
THEOREM ResultsHeard == Spec => []ResultsAreHeard
<1>1. Init => ResultsAreHeard
  BY DEF Init, ResultsAreHeard
<1> QED
  BY <1>1, PairInit, PairStep, DroppedStep, PTL DEF Spec
=============================================================================
