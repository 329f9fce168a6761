------------------------------- MODULE Pairing --------------------------------
(***************************************************************************)
(* How the app gets a wallet: a new account, a scanned pairing code, or an *)
(* identifier and a password typed by hand.  All three load pages into the *)
(* one web view of the wallet, queue commands for them, and hear of the    *)
(* result through wallet.delegate, which is the app, the view of the new   *)
(* account, or the parser of the code; what a delegate does not implement  *)
(* is dropped.                                                             *)
(*                                                                         *)
(* Calls of a page that is replaced are lost (JSBridge says when they are  *)
(* not), and they are made faster than the user acts.                      *)
(***************************************************************************)
EXTENDS Naturals, Sequences, SequencesExt

CONSTANTS
    Wallets,    \* identifiers (guid)
    None,       \* nil
    MaxAsked    \* bound on the accounts the user asks for

ASSUME PairingAssumption ==
    /\ None \notin Wallets /\ MaxAsked \in Nat
    /\ {"blank", "login"} \cap (Wallets \cup {None}) = {}

VARIABLES
    delegate,   \* wallet.delegate: "app", "create" or "parser"
    wallet,     \* guid and password of the wallet object
    page,       \* the document: what of, is it loaded, what it does, the
                \* password it was given
    queue,      \* pending_commands
    events,     \* calls of the page on their way
    stored,     \* guid of the user defaults (stored with sharedKey)
    screen,     \* the modal on top, "home" for none
    scanner,    \* is PairingCodeParser presented?
    failed,     \* is the alert of walletFailedToLoad up?
    busy,       \* busyView
    exists,     \* wallets of the server
    asked, made,\* history: accounts asked for by the user, requests made
    dropped,    \* history: results the delegate did not implement
    cut         \* history: was the wallet forgotten while the app was busy?

vars == <<delegate, wallet, page, queue, events, stored, screen, scanner, failed,
          busy, exists, asked, made, dropped, cut>>
history == <<asked, made, dropped, cut>>
view == <<screen, scanner, failed>>

Password == [for : Wallets, right : BOOLEAN]
Event(ev, g) == [ev |-> ev, of |-> g]
Document(of) == [of |-> of, loaded |-> FALSE, does |-> "nothing", pw |-> None]

Init ==
    /\ delegate = "app" /\ wallet = [guid |-> None, pw |-> None]
    /\ page = Document(None)
    /\ queue = <<>> /\ events = <<>>
    /\ stored = None /\ screen = "welcome" /\ scanner = FALSE /\ failed = FALSE
    /\ busy = FALSE
    /\ exists \in SUBSET Wallets
    /\ asked = 0 /\ made = 0 /\ dropped = {} /\ cut = FALSE
-----------------------------------------------------------------------------
\* The wallet object and its page.

\* Mutant of Load: commands for the last page wait for this one.
LoadKeepingQueue(of, commands) ==
    /\ page' = Document(of)
    /\ queue' = queue \o commands /\ events' = <<>>

\* loadJS: the page is replaced, and then these commands are queued.
Load(of, commands) ==
    /\ page' = Document(of)
    /\ queue' = commands /\ events' = <<>>

\* loadBlankWallet
LoadBlank(commands) ==
    /\ wallet' = [guid |-> None, pw |-> None]
    /\ Load("blank", commands)

SetPassword(p) == [does |-> "setPassword", pw |-> p]
Parse == [does |-> "parse", pw |-> None]

\* loadGuid: or loadGuid:sharedKey:, then the password and the delegate.
Open(g, p) ==
    /\ wallet' = [guid |-> g, pw |-> p]
    /\ Load(g, <<SetPassword(p)>>)
    /\ delegate' = "app"

\* Mutant of Pair: the view of the new account stays the delegate.
PairKeepingDelegate(g) ==
    /\ stored' = None
    /\ wallet' = [guid |-> g, pw |-> [for |-> g, right |-> TRUE]]
    /\ Load(g, <<SetPassword([for |-> g, right |-> TRUE])>>)
    /\ UNCHANGED delegate

\* forgetWallet, clearPin, and the wallet that was created or scanned.
Pair(g) ==
    /\ stored' = None
    /\ Open(g, [for |-> g, right |-> TRUE])

\* A command runs in page p; there is nothing to decrypt until the data is there.
Runs(p, c) ==
    IF c = Parse /\ p.of # "login" THEN [p EXCEPT !.does = "parsing"]
    ELSE IF c # Parse /\ p.of # "login"
      THEN [p EXCEPT !.pw = c.pw, !.does = IF @ = "data" THEN "decrypting" ELSE @]
    ELSE p

\* webViewDidFinishLoad: runs the commands; the view of a new account asks for
\* it then (walletJSReady); the page of a wallet fetches its data.
PageLoads ==
    /\ ~page.loaded /\ page.of # None
    /\ LET p == FoldLeft(Runs, [page EXCEPT !.loaded = TRUE], queue)
           does == IF delegate = "create" /\ page.of # "login" THEN "creating"
                   ELSE IF page.of \in Wallets THEN "fetching" ELSE p.does
       IN /\ page' = [p EXCEPT !.does = does]
          /\ made' = IF does = "creating" THEN made + 1 ELSE made
          /\ events' = IF does = "nothing" THEN events ELSE Append(events, Event("start", None))
    /\ queue' = <<>>
    /\ UNCHANGED <<delegate, wallet, stored, view, busy, exists, asked, dropped, cut>>

\* What the page was doing ends, with an event of wallet g and then this one.
PageEnds(does, now, ev, g, then) ==
    /\ page.loaded /\ page.does = does
    /\ page' = [page EXCEPT !.does = now]
    /\ events' = events \o <<Event(ev, g)>> \o then
    /\ UNCHANGED <<delegate, wallet, queue, stored, view, busy, history>>

Stop == <<Event("stop", None)>>

\* newAccount: MyWallet makes a wallet, or fails; without the script for it
\* nothing more happens.
NewAccount ==
    \/ \E g \in Wallets \ exists :
         PageEnds("creating", "nothing", "created", g, Stop) /\ exists' = exists \cup {g}
    \/ PageEnds("creating", "nothing", "createError", None, Stop) /\ UNCHANGED exists
    \/ /\ page.loaded /\ page.does = "creating"
       /\ page' = [page EXCEPT !.does = "nothing"] /\ events' = events \o Stop
       /\ UNCHANGED <<delegate, wallet, queue, stored, view, busy, exists, history>>

\* parsePairingCode: a code of a wallet there is, or anything that goes wrong.
ParsePairingCode ==
    /\ \/ \E g \in exists : PageEnds("parsing", "nothing", "parsed", g, Stop)
       \/ PageEnds("parsing", "nothing", "parseError", None, Stop)
    /\ UNCHANGED exists

\* MyWallet fetches the data of the wallet.
FetchWallet ==
    /\ \/ page.of \in exists /\ PageEnds("fetching", "data", "setGuid", page.of, Stop)
       \/ PageEnds("fetching", "nothing", "failGuid", page.of, Stop)
    /\ UNCHANGED exists

\* MyWallet decrypts the data, if the password is right.
DecryptWallet ==
    /\ page.pw # None
    /\ \/ page.pw.right /\ PageEnds("decrypting", "open", "decrypted", page.of, <<>>)
       \/ ~page.pw.right /\ PageEnds("decrypting", "data", "decryptFailed", page.of, <<>>)
    /\ UNCHANGED exists

PageWorks == NewAccount \/ ParsePairingCode \/ FetchWallet \/ DecryptWallet
-----------------------------------------------------------------------------
\* The delegates.

Told(ev, g) == events # <<>> /\ Head(events) = Event(ev, g)
Took == events' = Tail(events)

\* What the delegate does not implement.
Implements == [app |-> {"start", "stop", "setGuid", "failGuid", "decrypted", "decryptFailed"},
               create |-> {"start", "stop", "created", "createError"},
               parser |-> {"parsed", "parseError"}]
Dropped ==
    /\ events # <<>> /\ Head(events).ev \notin Implements[delegate] \cup {"setGuid"}
    /\ dropped' = dropped \cup ({Head(events).ev} \ {"start", "stop"})
    /\ Took
    /\ UNCHANGED <<delegate, wallet, page, queue, stored, view, busy, exists, asked, made, cut>>

\* networkActivityStart and networkActivityStop
Network ==
    /\ delegate # "parser"
    /\ \/ Told("start", None) /\ busy' = TRUE
       \/ Told("stop", None) /\ busy' = FALSE
    /\ Took
    /\ UNCHANGED <<delegate, wallet, page, queue, stored, view, exists, history>>

\* didCreateNewAccount:sharedKey:password:
DidCreateNewAccount(g) ==
    /\ delegate = "create" /\ Told("created", g)
    /\ Pair(g)
    /\ UNCHANGED <<view, busy, exists, history>>

\* errorCreatingNewAccount: tells the user, who is still at the form.
ErrorCreating ==
    /\ delegate = "create" /\ Told("createError", None) /\ Took
    /\ UNCHANGED <<delegate, wallet, page, queue, stored, view, busy, exists, history>>

\* didParsePairingCode: of the parser, which is dismissed.
DidParsePairingCode(g) ==
    /\ delegate = "parser" /\ Told("parsed", g)
    /\ busy' = FALSE /\ scanner' = FALSE
    /\ Pair(g)
    /\ UNCHANGED <<screen, failed, exists, history>>

\* Mutant of ErrorParsingPairingCode: the busy view stays.
ErrorKeepingBusy ==
    /\ delegate = "parser" /\ Told("parseError", None) /\ Took
    /\ scanner' = FALSE
    /\ UNCHANGED <<delegate, wallet, page, queue, stored, screen, failed, busy, exists, history>>

\* errorParsingPairingCode:
ErrorParsingPairingCode ==
    /\ delegate = "parser" /\ Told("parseError", None) /\ Took
    /\ busy' = FALSE /\ scanner' = FALSE
    /\ UNCHANGED <<delegate, wallet, page, queue, stored, screen, failed, exists, history>>

\* did_set_guid: the password goes to the page, whoever is the delegate.
DidSetGuid ==
    /\ Told("setGuid", page.of) /\ Took
    /\ page' = IF wallet.pw = None THEN page ELSE Runs(page, SetPassword(wallet.pw))
    /\ UNCHANGED <<delegate, wallet, queue, stored, view, busy, exists, history>>

\* walletFailedToLoad: an alert, but not at the manual pairing.
WalletFailedToLoad ==
    /\ delegate = "app" /\ Told("failGuid", page.of) /\ Took
    /\ failed' = (failed \/ screen # "manual")
    /\ UNCHANGED <<delegate, wallet, page, queue, stored, screen, scanner, busy, exists, history>>

\* did_decrypt and walletDidDecrypt: setAccountData:.. stores the wallet.
WalletDidDecrypt ==
    /\ delegate = "app" /\ Told("decrypted", page.of) /\ Took
    /\ wallet' = [wallet EXCEPT !.guid = page.of]
    /\ stored' = page.of /\ screen' = "home"
    /\ UNCHANGED <<delegate, page, queue, scanner, failed, busy, exists, history>>

\* walletFailedToDecrypt: back to the manual pairing, if that is where g is from.
WalletFailedToDecrypt ==
    /\ delegate = "app" /\ Told("decryptFailed", page.of)
    /\ \/ /\ wallet.guid # None /\ stored = None
          /\ screen' = "manual" /\ page' = Document("login") /\ events' = <<>>
       \/ /\ wallet.guid = None \/ stored # None
          /\ screen' = "password" /\ Took /\ UNCHANGED page
    /\ UNCHANGED <<delegate, wallet, queue, stored, scanner, failed, busy, exists, history>>

Delivered ==
    \/ Dropped \/ Network \/ ErrorCreating \/ ErrorParsingPairingCode
    \/ \E g \in Wallets : DidCreateNewAccount(g) \/ DidParsePairingCode(g)
    \/ DidSetGuid \/ WalletFailedToLoad \/ WalletDidDecrypt \/ WalletFailedToDecrypt
-----------------------------------------------------------------------------
\* The user; the busy view covers all but alerts and the scanner.
At(s) == screen = s /\ ~busy /\ events = <<>> /\ ~scanner /\ ~failed

\* showCreateWallet:, showPairWallet: and the instructions for scanning, or back.
GoTo ==
    /\ \/ At("welcome") /\ screen' \in {"create", "manual", "instructions"}
       \/ (At("create") \/ At("manual") \/ At("instructions")) /\ screen' = "welcome"
    /\ IF screen' = "manual" THEN page' = Document("login") ELSE UNCHANGED page
    /\ UNCHANGED <<delegate, wallet, queue, events, stored, scanner, failed, busy, exists, history>>

\* createAccountClicked: with a valid password and e-mail.
CreateAccountClicked ==
    /\ At("create") /\ asked < MaxAsked
    /\ asked' = asked + 1
    /\ LoadBlank(<<>>) /\ delegate' = "create"
    /\ UNCHANGED <<stored, view, busy, exists, made, dropped, cut>>

\* scanAccountQRCodeclicked:, or Close.
Scanner ==
    /\ \/ At("instructions") /\ scanner' = TRUE
       \/ scanner /\ scanner' = FALSE
    /\ UNCHANGED <<delegate, wallet, page, queue, events, stored, screen, failed, busy, exists, history>>

\* captureOutput:.. of a pairing code: the parser becomes the delegate.  A second
\* code may already wait on the parser's queue when the first stops the session.
CodeCaptured ==
    /\ scanner /\ events = <<>>
    /\ busy => delegate = "parser" /\ ~page.loaded
    /\ LoadBlank(<<Parse>>) /\ delegate' = "parser"
    /\ busy' = TRUE
    /\ UNCHANGED <<stored, view, exists, history>>

\* Mutant of ContinueClicked: the delegate is left as it is.
ContinueAsDelegate ==
    /\ At("manual")
    /\ \E p \in Password :
         /\ wallet' = [guid |-> p.for, pw |-> p]
         /\ Load(p.for, <<SetPassword(p)>>) /\ UNCHANGED delegate
    /\ UNCHANGED <<stored, view, busy, exists, history>>

\* continueClicked: of the manual pairing.
ContinueClicked ==
    /\ At("manual")
    /\ \E p \in Password : Open(p.for, p)
    /\ UNCHANGED <<stored, view, busy, exists, history>>

\* mainPasswordClicked:
MainPasswordClicked ==
    /\ At("password") /\ stored # None
    /\ \E p \in Password : p.for = stored /\ Open(stored, p)
    /\ UNCHANGED <<stored, view, busy, exists, history>>

\* forgetWallet from the password screen, or from the alert of a failed load.
ForgetWallet ==
    /\ At("password") \/ (failed /\ events = <<>>)
    /\ stored' = None /\ screen' = "welcome" /\ failed' = FALSE
    /\ LoadBlank(<<>>)
    /\ cut' = (cut \/ busy)
    /\ UNCHANGED <<delegate, scanner, busy, exists, asked, made, dropped>>

\* The app leaves the foreground and returns: an open wallet is logged out, the
\* modals are closed and the first screen is shown.
Background ==
    /\ events = <<>>
    /\ \/ page.does = "open" /\ LoadBlank(<<>>)
       \/ page.does # "open" /\ UNCHANGED <<wallet, page, queue, events>>
    /\ screen' = IF stored = None THEN "welcome" ELSE "password"
    /\ UNCHANGED <<delegate, stored, scanner, failed, busy, exists, history>>

\* The app ends and is started again.
Relaunch ==
    /\ delegate' = "app" /\ wallet' = [guid |-> None, pw |-> None]
    /\ page' = Document(None) /\ queue' = <<>> /\ events' = <<>>
    /\ screen' = IF stored = None THEN "welcome" ELSE "password"
    /\ scanner' = FALSE /\ failed' = FALSE /\ busy' = FALSE
    /\ UNCHANGED <<stored, exists, history>>

User ==
    \/ GoTo \/ CreateAccountClicked \/ Scanner \/ CodeCaptured \/ ContinueClicked
    \/ MainPasswordClicked \/ ForgetWallet \/ Background \/ Relaunch

Next == PageLoads \/ PageWorks \/ Delivered \/ User

Spec == Init /\ [][Next]_vars

\* Pages load, requests are answered or time out, calls are delivered.
FairSpec == Spec /\ WF_vars(PageLoads) /\ WF_vars(PageWorks) /\ WF_vars(Delivered)
-----------------------------------------------------------------------------
(***************************************************************************)
(* Properties.                                                             *)
(***************************************************************************)

\* The server is never asked for more accounts than the user asked for, though
\* every load of a page that the view of the new account hears of asks again.
AccountsOnlyOnRequest == made <= asked

\* A password is only ever given to the page of the wallet it belongs to,
\* through all replacements of pages and of the queue of commands.
PasswordForItsWallet == page.pw # None => page.pw.for = page.of

\* No result is dropped because the wrong object is the delegate.
ResultsAreHeard == dropped = {}

\* The busy view does not cover the screen for ever, whatever fails, is scanned
\* twice or is replaced; unless the user answers the alert of a failed load,
\* which came up over the scanner, by forgetting the wallet while a code is parsed.
BusyEnds == busy ~> ~busy \/ cut
=============================================================================
