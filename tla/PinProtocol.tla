------------------------------ MODULE PinProtocol ------------------------------
(***************************************************************************)
(* The PIN of the app: AppDelegate's PIN delegate methods, the screens of  *)
(* PEPinEntryController, the requests of Wallet and of its page to the     *)
(* PIN server, and the three keys of NSUserDefaults that make the record.  *)
(*                                                                         *)
(* The password is not stored: it is kept encrypted under a random value   *)
(* that the server returns for the right PIN.  A save sends a fresh key    *)
(* and value; put number k has key k and value k, so an encrypted password *)
(* [pw, put] opens exactly with the answer for key put.  Every request     *)
(* lives in the page that sent it and dies when another page is loaded;    *)
(* until then one get and any number of saves may be under way, and they   *)
(* are answered in any order.                                              *)
(***************************************************************************)
EXTENDS Naturals, FiniteSets

CONSTANTS
    Passwords,   \* passwords the wallet of the account may have
    Password1,   \* the one it has at first (they are alike)
    PINs,        \* PINs the user types
    None,        \* nil
    Garbage,     \* a decryption under the wrong value
    MaxPuts,     \* bound on saved PINs
    MaxChanges,  \* bound on password changes made on the web
    MaxKills     \* bound on restarts of the app

ASSUME PinProtocolAssumption ==
    /\ Password1 \in Passwords /\ PINs # {}
    /\ None \notin Passwords \cup PINs /\ Garbage \notin Passwords
    /\ MaxPuts \in Nat /\ MaxChanges \in Nat /\ MaxKills \in Nat

VARIABLES
    account, legacy,      \* guid and sharedKey saved; keys of an old version
    pinKey, enc, partHash,\* the record in NSUserDefaults (pinKey 0: absent)
    server,               \* the PIN server: PIN of each key
    actual,               \* the password of the wallet on the server
    app,                  \* "off", "active", "background"
    wallet,               \* Wallet: guid known?, password
    page,                 \* the document of the web view
    req,                  \* the get of a PIN by that document
    saves,                \* the saves of PINs by that document
    pin,                  \* the PIN controller and whether it is on screen
    callback,             \* pinViewControllerCallback: whose?
    modal,                \* the top modal: none, welcome (and pairing), password
    alerts,               \* alert views on screen
    puts, changes, kills, \* bounds
    torn                  \* history: were the writes of the record cut off?

requests == <<req, saves>>
record == <<pinKey, enc, partHash, torn>>
saved  == <<account, legacy, record>>
world  == <<actual, changes>>
ui     == <<modal, alerts>>
vars   == <<account, legacy, pinKey, enc, partHash, server, actual, app, wallet,
            page, req, saves, pin, callback, modal, alerts, puts, changes, kills, torn>>

-----------------------------------------------------------------------------
Keys == 1..MaxPuts
AnyPassword == Passwords \cup {Garbage}

NoEnc  == [pw |-> None, put |-> 0]
NoReq  == [key |-> 0, pin |-> None, screen |-> "none", phase |-> "none", ans |-> "none"]
NoPage == [html |-> "none", guid |-> FALSE, stage |-> "none", pw |-> None]
NoWallet == [guid |-> FALSE, password |-> None]

\* pinVerifyController, pinChangeController, pinCreateController; a screen not
\* yet made reads as nil, whose verifyOnly is NO.  The controller it is made with,
\* the root, shows that it is busy; the later ones, that replace it, do not.
Screen(kind) == [shown |-> kind # "nil", verifyOnly |-> kind = "verify",
                 stage |-> IF kind \in {"verify", "change"} THEN "verify" ELSE "enter1",
                 entry1 |-> None, last |-> None, root |-> TRUE, busy |-> FALSE]

isPINSet == pinKey # 0 /\ enc # NoEnc

\* MyWallet.getIsInitialized of the loaded page; wallet_pre.html says false.
isInitialized == page.html = "wallet" /\ page.stage = "open"

\* JavaScript of the page runs and reaches native code.
PageRuns == app # "off" /\ page.stage \in {"loaded", "set", "open", "failed"}

\* The user sees the wallet's own views and can press their buttons.
AtHome == app = "active" /\ ~pin.shown /\ modal = "none" /\ alerts = {}

Init ==
    /\ account \in BOOLEAN
    /\ legacy \in {"none", "stored"} /\ (legacy = "stored" => account)
    /\ pinKey = 0 /\ enc = NoEnc /\ partHash = None
    /\ server = [k \in Keys |-> None]
    /\ actual = Password1
    /\ app = "off" /\ wallet = NoWallet /\ page = NoPage /\ req = NoReq /\ saves = {}
    /\ pin = Screen("nil") /\ callback = "none" /\ modal = "none" /\ alerts = {}
    /\ puts = 0 /\ changes = 0 /\ kills = 0 /\ torn = FALSE

-----------------------------------------------------------------------------
\* Building blocks.

\* loadHTMLString: commands queued for it and requests of the old page are gone.
LoadPage(html, guid) ==
    /\ page' = [html |-> html, guid |-> guid, stage |-> "loading", pw |-> None]
    /\ req' = NoReq /\ saves' = {}

\* loadGuid:sharedKey: (or loadGuid:) and then wallet.password = pw.
LoadWallet(pw) == LoadPage("wallet", TRUE) /\ wallet' = [guid |-> TRUE, password |-> pw]

\* logout: the password goes and the blank page is loaded.
logout == LoadPage("wallet", FALSE) /\ wallet' = NoWallet

clearPin == pinKey' = 0 /\ enc' = NoEnc /\ partHash' = None /\ torn' = FALSE

\* A new controller; the callback kept, if any, is now of an older one.
Present(kind) ==
    /\ pin' = Screen(kind)
    /\ callback' = IF callback = "none" THEN "none" ELSE "old"

closePINModal == pin' = [pin EXCEPT !.shown = FALSE, !.busy = FALSE]

\* pinServerPutKeyOnPinServerServer of the page.
PutRequest(key, p, phase) == [key |-> key, pin |-> p, phase |-> phase, ans |-> "none"]

\* savePIN: a fresh key and value, sent by the page or queued for it.
savePIN(p, phase) ==
    /\ puts < MaxPuts
    /\ puts' = puts + 1
    /\ saves' = saves \cup {PutRequest(puts + 1, p, phase)}

\* didFailPutPin: the create screen replaces whatever PIN screen there is.
didFailPutPin == Present("create")

-----------------------------------------------------------------------------
\* Life of the process.

\* didFinishLaunchingWithOptions: with the migration of an old version's keys:
\* the save goes to a web view that has no page yet.
Launch ==
    /\ app = "off"
    /\ app' = "active"
    /\ \/ /\ ~account
          /\ modal' = "welcome"
          /\ UNCHANGED <<legacy, wallet, saves, pin, callback, puts>>
       \/ /\ account
          /\ \/ isPINSet /\ Present("verify") /\ UNCHANGED modal
             \/ ~isPINSet /\ modal' = "password" /\ UNCHANGED <<pin, callback>>
          /\ \/ /\ legacy = "stored"
                /\ legacy' = "removed"
                /\ \E pw \in Passwords : wallet' = [wallet EXCEPT !.password = pw]
                /\ \E p \in PINs : savePIN(p, "queued")
             \/ legacy # "stored" /\ UNCHANGED <<legacy, wallet, saves, puts>>
    /\ UNCHANGED <<account, record, server, world, page, req, alerts, kills>>

\* The system or the user ends the process; NSUserDefaults stays.
Forgotten ==
    /\ app' = "off" /\ wallet' = NoWallet /\ page' = NoPage /\ req' = NoReq /\ saves' = {}
    /\ pin' = Screen("nil") /\ callback' = "none" /\ modal' = "none" /\ alerts' = {}

Kill ==
    /\ app # "off" /\ kills < MaxKills
    /\ kills' = kills + 1
    /\ Forgotten
    /\ UNCHANGED <<saved, server, world, puts>>

\* applicationDidEnterBackground: change and create screens close, the unlock
\* screen is shown if there is a PIN, and an opened wallet is logged out.
EnterBackground ==
    /\ app' = "background"
    /\ modal' = "none"
    /\ LET shown == pin.shown /\ pin.verifyOnly IN
         \/ /\ isPINSet /\ shown
            /\ pin' = [pin EXCEPT !.busy = FALSE] /\ UNCHANGED callback
         \/ isPINSet /\ ~shown /\ Present("verify")
         \/ /\ ~isPINSet
            /\ pin' = [pin EXCEPT !.shown = shown, !.busy = shown /\ pin.busy]
            /\ UNCHANGED callback
    /\ \/ isInitialized /\ logout
       \/ ~isInitialized /\ UNCHANGED <<wallet, page, requests>>
    /\ UNCHANGED <<saved, server, world, puts, kills>>

Background == app = "active" /\ EnterBackground /\ UNCHANGED alerts

\* applicationWillEnterForeground:
Foreground ==
    /\ app = "background"
    /\ app' = "active"
    /\ \/ (isPINSet \/ isInitialized) /\ UNCHANGED modal
       \/ /\ ~isPINSet /\ ~isInitialized
          /\ modal' = IF account THEN "password" ELSE "welcome"
    /\ UNCHANGED <<saved, server, world, wallet, page, requests, pin, callback, alerts,
                   puts, kills>>

-----------------------------------------------------------------------------
\* The wallet page.

\* Mutant of PageLoads: queued JavaScript is not evaluated.
LoadsWithoutFlush ==
    /\ app # "off" /\ page.stage = "loading"
    /\ page' = [page EXCEPT !.stage = "loaded"]
    /\ UNCHANGED <<saved, server, world, app, wallet, requests, pin, callback, ui,
                   puts, kills>>

\* webViewDidFinishLoad: flushes the queue, the PIN request with it.
PageLoads ==
    /\ app # "off" /\ page.stage = "loading"
    /\ page' = [page EXCEPT !.stage = "loaded"]
    /\ req' = IF req.phase = "queued" THEN [req EXCEPT !.phase = "sent"] ELSE req
    /\ UNCHANGED <<saved, server, world, app, wallet, saves, pin, callback, ui, puts,
                   kills>>

\* did_set_guid: the wallet was downloaded and gets the password, if known.
DidSetGuid ==
    /\ PageRuns /\ page.html = "wallet" /\ page.guid /\ page.stage = "loaded"
    /\ page' = [page EXCEPT !.stage = "set", !.pw = wallet.password]
    /\ UNCHANGED <<saved, server, world, app, wallet, requests, pin, callback, ui,
                   puts, kills>>

\* did_fail_set_guid and walletFailedToLoad: silent on the manual pairing view.
DidFailSetGuid ==
    /\ PageRuns /\ page.html = "wallet" /\ page.guid /\ page.stage = "loaded"
    /\ page' = [page EXCEPT !.stage = "failed"]
    /\ \/ alerts' = alerts \cup {"load"}
       \/ modal = "welcome" /\ UNCHANGED alerts
    /\ UNCHANGED <<saved, server, world, app, wallet, requests, pin, callback, modal,
                   puts, kills>>

\* Mutant of PasswordChanged: the hash prefix is not compared.
NeverChanged == FALSE

\* The prefix of the password's hash differs from the one recorded.
PasswordChanged == wallet.password = None \/ partHash # wallet.password

\* did_decrypt and walletDidDecrypt: the account is saved, modals close, a PIN
\* of another password is cleared, and without a PIN one is asked for.
DidDecrypt ==
    /\ PageRuns /\ page.stage = "set" /\ page.pw = actual
    /\ page' = [page EXCEPT !.stage = "open"]
    /\ account' = TRUE
    /\ modal' = "none"
    /\ \/ PasswordChanged /\ clearPin
       \/ ~PasswordChanged /\ UNCHANGED record
    /\ \/ (PasswordChanged \/ ~isPINSet) /\ ~pin.shown /\ Present("create")
       \/ ~((PasswordChanged \/ ~isPINSet) /\ ~pin.shown) /\ UNCHANGED <<pin, callback>>
    /\ UNCHANGED <<legacy, server, world, app, wallet, requests, alerts, puts, kills>>

\* error_restoring_wallet and walletFailedToDecrypt: back to pairing or to the
\* password.
DidFailToDecrypt ==
    /\ PageRuns /\ page.stage = "set" /\ page.pw \notin {None, actual}
    /\ page' = [page EXCEPT !.stage = "failed"]
    /\ modal' = IF account THEN "password" ELSE "welcome"
    /\ UNCHANGED <<saved, server, world, app, wallet, requests, pin, callback, alerts,
                   puts, kills>>

-----------------------------------------------------------------------------
\* The user, away from the PIN screens.

\* mainPasswordClicked:
EnterPassword(pw) ==
    /\ app = "active" /\ ~pin.shown /\ alerts = {} /\ modal = "password" /\ account
    /\ LoadWallet(pw)
    /\ UNCHANGED <<saved, server, world, app, pin, callback, ui, puts, kills>>

\* Pairing by hand: continueClicked:.
Pair(pw) ==
    /\ app = "active" /\ ~pin.shown /\ alerts = {} /\ modal = "welcome" /\ ~account
    /\ LoadWallet(pw)
    /\ UNCHANGED <<saved, server, world, app, pin, callback, ui, puts, kills>>

\* logoutClicked:
LogOut ==
    /\ AtHome
    /\ clearPin /\ logout /\ modal' = "password"
    /\ UNCHANGED <<account, legacy, server, world, app, pin, callback, alerts,
                   puts, kills>>

\* forgetWallet and showWelcome, from the password view or the load alert.
Forget ==
    /\ app = "active"
    /\ \/ modal = "password" /\ alerts = {} /\ ~pin.shown
       \/ "load" \in alerts
    /\ alerts' = alerts \ {"load"}
    /\ clearPin /\ account' = FALSE /\ logout /\ modal' = "welcome"
    /\ UNCHANGED <<legacy, server, world, app, pin, callback, puts, kills>>

\* "Close App" in the load alert suspends the app.
CloseApp ==
    /\ app = "active" /\ "load" \in alerts
    /\ alerts' = alerts \ {"load"}
    /\ EnterBackground

\* changePIN shows a change screen over the wallet.
ChangePIN ==
    /\ AtHome
    /\ Present("change")
    /\ UNCHANGED <<saved, server, world, app, wallet, page, requests, ui, puts, kills>>

\* Only the first screen of a change has a cancel button.
Cancelable == ~pin.verifyOnly /\ pin.stage = "verify"

\* pinEntryControllerDidCancel:
CancelChange ==
    /\ app = "active" /\ alerts = {} /\ pin.shown /\ Cancelable
    /\ closePINModal
    /\ UNCHANGED <<saved, server, world, app, wallet, page, requests, callback, ui,
                   puts, kills>>

-----------------------------------------------------------------------------
\* The PIN screens.

\* apiGetPINValue:pin:withWalletDownload: of Wallet: the page that asks.
PinPage(withWalletDownload) ==
    [html |-> IF withWalletDownload THEN "wallet" ELSE "pre",
     guid |-> withWalletDownload /\ wallet.guid, stage |-> "loading", pw |-> None]

\* apiGetPINValue of the page: the request it makes when it is loaded.
GetRequest(p) ==
    [key |-> pinKey, pin |-> p, screen |-> IF pin.verifyOnly THEN "verify" ELSE "change",
     phase |-> "queued", ans |-> "none"]

\* shouldAcceptPin: without a network an alert; otherwise the page that asks
\* is loaded (the whole wallet for a change) and the request queued.
shouldAcceptPin(p, cb) ==
    \/ /\ alerts' = (alerts \ {"ask"}) \cup {"error"}
       /\ pin' = [pin EXCEPT !.busy = TRUE, !.last = p]
       /\ UNCHANGED <<page, requests, callback>>
    \/ /\ alerts' = alerts \ {"ask"}
       /\ pin' = [pin EXCEPT !.busy = TRUE, !.last = p]
       /\ page' = PinPage(~pin.verifyOnly)
       /\ req' = GetRequest(p) /\ saves' = {}
       /\ callback' = cb

\* The keyboard that is disabled is the root controller's.
CanType == app = "active" /\ alerts = {} /\ pin.shown /\ ~(pin.busy /\ pin.root)

EnterVerify(p) ==
    /\ CanType /\ pin.stage = "verify"
    /\ shouldAcceptPin(p, "current")
    /\ UNCHANGED <<saved, server, world, app, wallet, modal, puts, kills>>

EnterFirst(p) ==
    /\ CanType /\ pin.stage = "enter1"
    /\ pin' = [pin EXCEPT !.entry1 = p, !.stage = "enter2", !.root = FALSE]
    /\ UNCHANGED <<saved, server, world, app, wallet, page, requests, callback, ui,
                   puts, kills>>

\* The second entry: a mismatch starts over, a match is saved (changedPin:).  The
\* screen stays as it is, and its keyboard enabled: the user may type again while
\* the save is under way, and save once more.
EnterSecond(p) ==
    /\ CanType /\ pin.stage = "enter2"
    /\ \/ /\ p # pin.entry1
          /\ pin' = [pin EXCEPT !.stage = "enter1"]
          /\ UNCHANGED <<saves, callback, puts>>
       \/ /\ p = pin.entry1 /\ (~isInitialized \/ wallet.password = None)
          /\ didFailPutPin
          /\ UNCHANGED <<saves, puts>>
       \/ /\ p = pin.entry1 /\ isInitialized /\ wallet.password # None
          /\ savePIN(p, "sent")
          /\ pin' = [pin EXCEPT !.busy = TRUE]
          /\ UNCHANGED callback
    /\ UNCHANGED <<saved, server, world, app, wallet, page, req, ui, kills>>

\* The tap on the alert of showPinErrorWithMessage resets the screen.
DismissError ==
    /\ app = "active" /\ "error" \in alerts
    /\ alerts' = alerts \ {"error"}
    /\ pin' = [pin EXCEPT !.busy = FALSE]
    /\ UNCHANGED <<saved, server, world, app, wallet, page, requests, callback, modal,
                   puts, kills>>

\* The two buttons of askIfUserWantsToResetPIN.
AskPassword ==
    /\ app = "active" /\ "ask" \in alerts
    /\ alerts' = alerts \ {"ask"}
    /\ closePINModal
    /\ modal' = "password"
    /\ UNCHANGED <<saved, server, world, app, wallet, page, requests, callback, puts,
                   kills>>

AskRetry ==
    /\ app = "active" /\ "ask" \in alerts
    /\ shouldAcceptPin(pin.last, callback)
    /\ UNCHANGED <<saved, server, world, app, wallet, modal, puts, kills>>

-----------------------------------------------------------------------------
\* The PIN server and the answers.

\* What the server says to a get; "odd" is a status code the app does not know.
GetAnswers(key, p) ==
    IF key = 0 \/ (key \in Keys /\ server[key] = None) THEN {"deleted", "odd"}
    ELSE IF server[key] # p THEN {"incorrect", "odd"}
    ELSE {"ok", "noSuccess", "noCode", "odd"}

\* What the server says to the get of the page.
ServeGet ==
    /\ req.phase = "sent" /\ PageRuns
    /\ \E a \in GetAnswers(req.key, req.pin) :
          req' = [req EXCEPT !.phase = "answered", !.ans = a]
    /\ UNCHANGED <<saved, server, world, app, wallet, page, saves, pin, callback, ui,
                   puts, kills>>

\* And to one of its saves.
Answered(save, a) == (saves \ {save}) \cup {[save EXCEPT !.phase = "answered", !.ans = a]}

ServePut ==
    /\ PageRuns
    /\ \E save \in saves :
          /\ save.phase = "sent"
          /\ \/ /\ saves' = Answered(save, "ok")
                /\ server' = [server EXCEPT ![save.key] = save.pin]
             \/ /\ saves' = Answered(save, "refused")
                /\ UNCHANGED server
    /\ UNCHANGED <<saved, world, app, wallet, page, req, pin, callback, ui, puts, kills>>

\* The server deletes a key, after too many wrong PINs or by the owner.
ServerForgets ==
    /\ \E k \in Keys : server[k] # None /\ server' = [server EXCEPT ![k] = None]
    /\ UNCHANGED <<saved, world, app, wallet, page, requests, pin, callback, ui, puts,
                   kills>>

\* The owner changes the password in another client.
ChangePasswordElsewhere ==
    /\ changes < MaxChanges
    /\ changes' = changes + 1
    /\ actual' \in Passwords \ {actual}
    /\ UNCHANGED <<saved, server, app, wallet, page, requests, pin, callback, ui, puts,
                   kills>>

\* The screen is idle again, and at another stage when a change was verified.
Idle == [pin EXCEPT !.busy = FALSE]

\* Decrypting the stored password with the value the server returned.
Decrypted(value) ==
    IF enc = NoEnc THEN {None}
    ELSE IF enc.put = value THEN {enc.pw} ELSE {None, Garbage}

\* The code is OK and no change is under way: the wallet is loaded, or the
\* user is asked what to do.
Unlock ==
    \/ /\ req.ans = "noSuccess" \/ None \in Decrypted(req.key)
       /\ alerts' = alerts \cup {"ask"}
       /\ pin' = Idle
       /\ req' = NoReq
       /\ UNCHANGED <<wallet, page, saves, callback>>
    \/ /\ req.ans = "ok"
       /\ \E pw \in Decrypted(req.key) \ {None} :
             \/ account /\ LoadWallet(pw)
             \/ /\ ~account /\ wallet' = [wallet EXCEPT !.password = pw]
                /\ req' = NoReq /\ UNCHANGED <<page, saves>>
       /\ closePINModal
       /\ callback' = "none"
       /\ UNCHANGED alerts

\* The code is OK and the screen is not an unlock screen: the callback moves
\* the controller it belongs to on to the new PIN.
GoOn ==
    /\ pin' = IF callback = "current" THEN [Idle EXCEPT !.stage = "enter1", !.root = FALSE]
              ELSE Idle
    /\ callback' = "none"
    /\ req' = NoReq
    /\ UNCHANGED <<wallet, page, saves, alerts>>

\* Mutant of PinDeleted: the password is not asked for.
PinDeletedQuietly == clearPin /\ pin' = [Idle EXCEPT !.shown = FALSE] /\ UNCHANGED modal

\* The server no longer knows the key: the PIN goes and the password is asked.
PinDeleted == clearPin /\ modal' = "password" /\ pin' = [Idle EXCEPT !.shown = FALSE]

\* didGetPinSuccess: looks at the controller there is now, not at the one that
\* asked.
DidGetPinSuccess ==
    /\ PageRuns /\ req.phase = "answered"
    /\ \/ /\ req.ans = "deleted"
          /\ PinDeleted
          /\ callback' = "none" /\ req' = NoReq
          /\ UNCHANGED <<wallet, page, saves, alerts>>
       \/ /\ req.ans \in {"noCode", "incorrect", "odd"}
          /\ alerts' = IF req.ans = "odd" THEN alerts \cup {"ask"} ELSE alerts
          /\ pin' = Idle /\ callback' = "none" /\ req' = NoReq
          /\ UNCHANGED <<wallet, page, saves, record, modal>>
       \/ /\ req.ans \in {"ok", "noSuccess"} /\ ~pin.verifyOnly
          /\ GoOn
          /\ UNCHANGED <<record, modal>>
       \/ /\ req.ans \in {"ok", "noSuccess"} /\ pin.verifyOnly
          /\ Unlock
          /\ UNCHANGED <<record, modal>>
    /\ UNCHANGED <<account, legacy, server, world, app, puts, kills>>

\* wallet_pre.html tells why a request failed: an alert that resets the screen.
FailsWithReason ==
    page.html = "pre" /\ alerts' = alerts \cup {"error"} /\ UNCHANGED pin

\* wallet.html tells only that it failed: the user is asked.
FailsWithMessage ==
    page.html = "wallet" /\ alerts' = alerts \cup {"ask"} /\ pin' = Idle

\* A get that times out or is answered by nothing readable.
DidFailGetPin ==
    /\ PageRuns /\ req.phase \in {"sent", "answered"}
    /\ req' = NoReq
    /\ FailsWithReason \/ FailsWithMessage
    /\ UNCHANGED <<saved, server, world, app, wallet, page, saves, callback, modal, puts,
                   kills>>

\* Mutant of StoreRecord: the key of an older record stays.
StoreWithOldKey(pw, key) ==
    /\ enc' = [pw |-> pw, put |-> key] /\ partHash' = pw
    /\ pinKey' = (IF pinKey = 0 THEN key ELSE pinKey) /\ torn' = FALSE

\* The three writes of didPutPinSuccess.
StoreRecord(pw, key) ==
    /\ enc' = [pw |-> pw, put |-> key] /\ partHash' = pw /\ pinKey' = key
    /\ torn' = FALSE

\* didPutPinSuccess: the password there is now is encrypted under the value, and
\* whatever PIN screen there is closes, also when another save is under way.
DidPutPinSuccess ==
    /\ PageRuns
    /\ \E save \in saves :
          /\ save.phase = "answered"
          /\ saves' = saves \ {save}
          /\ \/ /\ wallet.password = None \/ save.ans # "ok"
                /\ didFailPutPin
                /\ UNCHANGED record
             \/ /\ wallet.password # None /\ save.ans = "ok"
                /\ StoreRecord(wallet.password, save.key)
                /\ closePINModal
                /\ UNCHANGED callback
    /\ UNCHANGED <<account, legacy, server, world, app, wallet, page, req, ui, puts,
                   kills>>

\* on_error_pin_code_put_error: the server may have stored the PIN all the same.
DidFailPutPin ==
    /\ PageRuns
    /\ \E save \in saves : save.phase \in {"sent", "answered"} /\ saves' = saves \ {save}
    /\ didFailPutPin
    /\ UNCHANGED <<saved, server, world, app, wallet, page, req, ui, puts, kills>>

\* The process dies between the writes: encrypted password, hash, key.
DieWhileStoring ==
    /\ kills < MaxKills
    /\ PageRuns /\ wallet.password # None
    /\ \E save \in saves :
          /\ save.phase = "answered" /\ save.ans = "ok"
          /\ enc' = [pw |-> wallet.password, put |-> save.key]
    /\ partHash' \in {partHash, wallet.password}
    /\ kills' = kills + 1 /\ torn' = TRUE
    /\ Forgotten
    /\ UNCHANGED <<account, legacy, pinKey, server, world, puts>>

-----------------------------------------------------------------------------
Process == Launch \/ Kill \/ Background \/ Foreground \/ DieWhileStoring
Page    == PageLoads \/ DidSetGuid \/ DidFailSetGuid \/ DidDecrypt \/ DidFailToDecrypt
GetAnswer == DidGetPinSuccess \/ DidFailGetPin
PutAnswer == DidPutPinSuccess \/ DidFailPutPin
Other   == ServeGet \/ ServePut \/ ServerForgets \/ ChangePasswordElsewhere
User ==
    \/ LogOut \/ Forget \/ CloseApp \/ ChangePIN \/ CancelChange
    \/ DismissError \/ AskPassword \/ AskRetry
    \/ \E pw \in Passwords : EnterPassword(pw) \/ Pair(pw)
    \/ \E p \in PINs : EnterVerify(p) \/ EnterFirst(p) \/ EnterSecond(p)

Next == Process \/ Page \/ GetAnswer \/ PutAnswer \/ Other \/ User

Spec == Init /\ [][Next]_vars

\* A page that is loaded finishes loading; a get is answered or times out.
FairSpec == Spec /\ WF_vars(PageLoads) /\ WF_vars(GetAnswer)
-----------------------------------------------------------------------------
(***************************************************************************)
(* Properties.                                                             *)
(***************************************************************************)

\* A PIN that is set opens if and only if the last record was written as a whole:
\* the encrypted password and the key were stored together, by one acknowledged
\* save, however saves that overlap, failures, timeouts, page loads and restarts
\* interleave.  A record whose writes were cut off by the end of the process mixes
\* two saves and opens with no answer, until it is cleared or a save is stored.
StoredPairMatches == isPINSet => (enc.put = pinKey <=> ~torn)

\* While a wallet is open, a PIN that is set stands for its password: a PIN of
\* an earlier password was cleared when the wallet opened.  At any time what is
\* stored is a password that has opened a wallet, never one that came out of a
\* failed decryption, and it belongs to an account that is saved.
PinOpensThisWallet ==
    isPINSet => enc.pw # Garbage /\ account /\ (isInitialized => enc.pw = page.pw)

\* The wallet is on its way: its page is loading with a password, or a PIN
\* request is.
UnderWay ==
    \/ page.html = "wallet" /\ page.guid /\ page.stage \in {"loading", "loaded", "set"}
    \/ req # NoReq \/ saves # {}

\* The active app always shows something to go on with: an open wallet, a
\* wallet under way, a PIN screen, a modal or an alert; no failure of a
\* request, a page or a decryption leaves an empty screen.
NeverStranded ==
    app = "active" => isInitialized \/ UnderWay \/ pin.shown \/ modal # "none" \/ alerts # {}

\* showPinModalAsView: "if pin exists - verify": the unlock screen is shown
\* only while there is a PIN to verify.
VerifyOnlyIfPinExists == pin.shown /\ pin.verifyOnly => isPINSet

\* didGetPinSuccess: the answer to a PIN typed "for change PIN" leads to the
\* enter screens; only a PIN typed on the unlock screen loads the wallet.
ChangeNeverUnlocks == [][Unlock /\ wallet' # wallet => req.screen # "change"]_vars

\* "Migrate Password and PIN from NSUserDefaults": when the keys of the old
\* version are gone and the account was not forgotten, the new record is there
\* or its save is under way.
LegacyPinIsMigrated == legacy = "removed" /\ account => isPINSet \/ saves # {}

\* A PIN screen without a cancel button does not stay busy, its keyboard
\* disabled, unless an alert waits for the user (or the wallet was forgotten
\* under it: see the README).
DeadScreen ==
    /\ app = "active" /\ account /\ alerts = {}
    /\ pin.shown /\ pin.busy /\ pin.root /\ ~Cancelable
NoDeadScreen == DeadScreen ~> ~DeadScreen
=============================================================================
