------------------------------- MODULE Payment --------------------------------
(***************************************************************************)
(* Sending coins: the Send button and its confirmation, quickSend of the   *)
(* page and its table of pending transactions, the listener that reports   *)
(* back to SendViewController, and the import of a private key that may    *)
(* run at the same time.  Both ask their questions in the modals of        *)
(* Modals.  What is signed and sent is MyWallet's; here it starts, asks    *)
(* for keys, and succeeds, fails or is cancelled.                          *)
(*                                                                         *)
(* The page reaches native code through a queue of events (module JSBridge *)
(* says why it is one); native code answers the page's questions at once.  *)
(***************************************************************************)
EXTENDS Naturals, Sequences, FiniteSets, SequencesExt

CONSTANTS
    Sends,      \* confirmed payments
    Imports,    \* imports of a private key
    None,       \* nil
    LateEvents, \* do events of a page reach native code while it is replaced?
    MaxFlows    \* bound on the sends and imports that are started

ASSUME PaymentAssumption ==
    /\ Sends \cap Imports = {} /\ None \notin Sends \cup Imports
    /\ LateEvents \in BOOLEAN /\ MaxFlows \in Nat

VARIABLES
    modalView, modalChain, field, validateSecondPassword, holder, answer,
    app,        \* "active", "inactive", "background"
    page,       \* "open" (decrypted), "closing" (being replaced), "closed"
    flow,       \* where each send or import is in the page
    pendingTransactions,
    events,     \* calls of the page on their way to native code
    sendEnabled,\* sendPaymentButton
    disableBusyView,
    alerts,     \* "confirm" (of a payment), "logout"
    keyAlerts,  \* sends whose "ask for private key" alert is up
    reader      \* for whom the camera reads a private key

Flows == Sends \cup Imports
M == INSTANCE Modals WITH Askers <- Flows
modals == <<modalView, modalChain, field, validateSecondPassword, holder, answer>>
button == <<sendEnabled, disableBusyView>>
dialogs == <<alerts, keyAlerts, reader>>
thePage == <<flow, pendingTransactions, events>>
vars == <<modals, app, page, thePage, button, dialogs>>

Progress == [kind |-> "fixed", by |-> None]  \* sendProgressModal, mainPasswordView
Panel    == [kind |-> "panel", by |-> None]
Import   == "import"

Over == {"idle", "sent", "failed", "done", "lost"}

Home ==
    /\ app = "active" /\ page = "open"
    /\ modalView = M!NoModal /\ alerts = {} /\ keyAlerts = {} /\ reader = None

Init ==
    /\ M!Init
    /\ app = "active" /\ page = "open"
    /\ flow = [f \in Flows |-> "idle"]
    /\ pendingTransactions = {} /\ events = <<>>
    /\ sendEnabled = TRUE /\ disableBusyView = FALSE
    /\ alerts = {} /\ keyAlerts = {} /\ reader = None

-----------------------------------------------------------------------------
\* The page.

Event(ev, f) == [ev |-> ev, by |-> f]

\* f can be started.  (Bound: MaxFlows.)
Startable(f) ==
    page = "open" /\ flow[f] = "idle" /\ Cardinality({g \in Flows : flow[g] # "idle"}) < MaxFlows

\* listener.on_error of the sends in S, after rest: each reports and takes
\* only its own id off the table.  An import reports with a notification.
Fail(S, rest) ==
    /\ pendingTransactions' = pendingTransactions \ S
    /\ events' = rest \o SetToSeq({Event("error", i) : i \in S \cap Sends})

\* What the page goes on with once the question of f is answered.
AfterPassword(f, bip38) ==
    IF f \in Sends THEN "signer" ELSE IF bip38 THEN "script" ELSE "done"
AfterKeyPassword(f) == IF f \in Sends THEN "signing" ELSE "done"

\* The callbacks of the questions that this step answers run at once; those of
\* a page that is gone do not.
Replied(f) ==
    IF flow[f] = "password" THEN <<answer[M!Second(f)], answer'[M!Second(f)]>>
    ELSE IF flow[f] = "keyPassword" THEN <<answer[M!Key(f)], answer'[M!Key(f)]>>
    ELSE <<"", "">>

PageResumes(rest) ==
    LET told   == {f \in Flows : Replied(f)[1] = "open" /\ Replied(f)[2] # "open"}
        failed == {f \in told : Replied(f)[2] = "error"}
    IN /\ \E bip38 \in BOOLEAN :
            flow' = [f \in Flows |->
                IF f \notin told THEN flow[f]
                ELSE IF f \in failed THEN "failed"
                ELSE IF flow[f] = "password" THEN AfterPassword(f, bip38)
                ELSE AfterKeyPassword(f)]
       /\ Fail(failed, rest)

\* getSecondPassword of MyWallet asks, unless it knows the password or needs none.
Ask2(f) ==
    \/ /\ flow' = [flow EXCEPT ![f] = "password"]
       /\ events' = Append(events, Event("second", f))
    \/ \E bip38 \in BOOLEAN :
         /\ flow' = [flow EXCEPT ![f] = AfterPassword(f, bip38)]
         /\ UNCHANGED events

\* One step of flow f in the page, with the call it makes.
PageStep(f, from, to, calls) ==
    /\ page = "open" /\ flow[f] = from
    /\ flow' = [flow EXCEPT ![f] = to]
    /\ events' = events \o calls
    /\ UNCHANGED <<modals, app, page, button, dialogs>>

\* "Transaction already pending" is thrown otherwise.
Free == pendingTransactions = {}

\* The signer is loaded: the transaction is put on the table and started.
SignerLoaded(i) ==
    /\ Free
    /\ pendingTransactions' = pendingTransactions \cup {i}
    /\ PageStep(i, "signer", "signing", <<Event("start", i)>>)

\* listener.on_error: pending already, script not loaded, invalid value...
Throws(i) ==
    /\ pendingTransactions' = pendingTransactions \ {i}
    /\ \E from \in {"signer", "signing", "script"} :
         /\ from = "signer" \/ from = "script" \/ i \in pendingTransactions
         /\ PageStep(i, from, "failed", <<Event("error", i)>>)

\* obj.ask_for_private_key.  (Bound: one key with a password per send.)
AskForPrivateKey(i) ==
    /\ answer[M!Key(i)] = "unasked"
    /\ UNCHANGED pendingTransactions
    /\ PageStep(i, "signing", "needKey", <<Event("askKey", i)>>)

\* import-export is loaded: MyWallet.getPassword of the key.
ImportExportLoaded(f) ==
    /\ UNCHANGED pendingTransactions
    /\ PageStep(f, "script", "keyPassword", <<Event("key", f)>>)

ImportFails(f) ==
    /\ f \in Imports /\ UNCHANGED pendingTransactions
    /\ PageStep(f, "script", "failed", <<>>)

\* Mutant of TxSent: the transaction stays on the table.
SentKeepsPending(i) ==
    /\ UNCHANGED pendingTransactions
    /\ PageStep(i, "signing", "sent", <<Event("success", i)>>)

\* listener.on_success.
TxSent(i) ==
    /\ pendingTransactions' = pendingTransactions \ {i}
    /\ PageStep(i, "signing", "sent", <<Event("success", i)>>)

\* cancelTxSigning: every pending transaction ends with an error.
Cancelled(rest) ==
    /\ flow' = [f \in Flows |-> IF f \in pendingTransactions THEN "failed" ELSE flow[f]]
    /\ Fail(pendingTransactions, rest)

\* didFailBackupWallet.
BackupFails ==
    /\ page = "open" /\ pendingTransactions # {}
    /\ Cancelled(events)
    /\ UNCHANGED <<modals, app, page, button, dialogs>>

\* logout: transactions are cancelled and the blank page is loaded over this one.
logout ==
    /\ page' = "closing"
    /\ flow' = [f \in Flows |-> IF flow[f] \in Over THEN flow[f] ELSE "lost"]
    /\ Fail(pendingTransactions, events)

\* The new page is there: calls of the old one that were not made are gone.
PageReplaced ==
    /\ page = "closing"
    /\ page' = "closed"
    /\ flow' = [f \in Flows |->
         IF \E n \in 1..Len(events) : events[n].by = f THEN "lost" ELSE flow[f]]
    /\ pendingTransactions' = {} /\ events' = <<>>
    /\ UNCHANGED <<modals, app, button, dialogs>>
-----------------------------------------------------------------------------
\* Native code.

\* The next call of the page reaches native code.
Called(ev, f) ==
    /\ page = "open" \/ (LateEvents /\ page = "closing")
    /\ events # <<>> /\ Head(events) = Event(ev, f)

\* Mutant of GetPassword: the question waits until no modal is up.
GetPasswordWaits(f) ==
    /\ modalView = M!NoModal
    /\ \/ Called("second", f) /\ M!Ask(M!Second(f))
       \/ Called("key", f) /\ M!Ask(M!Key(f))
    /\ PageResumes(Tail(events))
    /\ UNCHANGED <<app, page, button, dialogs>>

\* Mutant of GetPassword: no question while another modal is up.
GetPasswordAlone(f) ==
    /\ \/ Called("second", f) /\ (IF modalView = M!NoModal THEN M!Ask(M!Second(f)) ELSE UNCHANGED modals)
       \/ Called("key", f) /\ M!Ask(M!Key(f))
    /\ PageResumes(Tail(events))
    /\ UNCHANGED <<app, page, button, dialogs>>

\* getPassword:success:error:
GetPassword(f) ==
    /\ \/ Called("second", f) /\ M!Ask(M!Second(f))
       \/ Called("key", f) /\ M!Ask(M!Key(f))
    /\ PageResumes(Tail(events))
    /\ UNCHANGED <<app, page, button, dialogs>>

\* ask_for_private_key:success:error:
AskedForKey(i) ==
    /\ Called("askKey", i)
    /\ keyAlerts' = keyAlerts \cup {i}
    /\ events' = Tail(events)
    /\ UNCHANGED <<modals, app, page, flow, pendingTransactions, button, alerts, reader>>

\* tx_on_start: the progress modal.
OnStart(i) ==
    /\ Called("start", i)
    /\ disableBusyView' = TRUE
    /\ M!ShowPlain(Progress)
    /\ PageResumes(Tail(events))
    /\ UNCHANGED <<app, page, sendEnabled, dialogs>>

Reported == sendEnabled' = TRUE /\ disableBusyView' = FALSE

\* tx_on_success: and tx_on_error:error:, both close the modal on top.
OnEnd(i) ==
    /\ Called("success", i) \/ Called("error", i)
    /\ Reported
    /\ M!closeModal
    /\ PageResumes(Tail(events))
    /\ UNCHANGED <<app, page, dialogs>>

Delivered == \E f \in Flows :
    GetPassword(f) \/ (f \in Sends /\ (AskedForKey(f) \/ OnStart(f) \/ OnEnd(f)))

-----------------------------------------------------------------------------
\* The user, the camera and the system.

\* sendPaymentClicked: with a valid amount and address, and confirmPayment.
SendPaymentClicked ==
    /\ Home /\ sendEnabled
    /\ alerts' = alerts \cup {"confirm"}
    /\ UNCHANGED <<modals, app, page, thePage, button, keyAlerts, reader>>

\* "No", or "Yes": reallyDoPayment, sendPaymentTo: and quickSend.
Confirmed ==
    /\ app = "active" /\ "confirm" \in alerts
    /\ alerts' = alerts \ {"confirm"}
    /\ \/ UNCHANGED <<thePage, sendEnabled>>
       \/ \E i \in Sends :
            /\ Startable(i)
            /\ sendEnabled' = FALSE
            /\ Ask2(i) /\ UNCHANGED pendingTransactions
    /\ UNCHANGED <<modals, app, page, disableBusyView, keyAlerts, reader>>

\* scanKeyClicked: of the Receive screen.
ScanKeyClicked ==
    /\ Home
    /\ reader' = Import
    /\ UNCHANGED <<modals, app, page, thePage, button, alerts, keyAlerts>>

\* askForPrivateKey: "No" is an error, "Yes" presents the reader.
KeyAlertAnswered(i) ==
    /\ app = "active" /\ i \in keyAlerts
    /\ keyAlerts' = keyAlerts \ {i}
    /\ \/ /\ reader' = reader
          /\ flow' = [flow EXCEPT ![i] = IF @ = "needKey" THEN "failed" ELSE @]
          /\ Fail({i} \cap {j \in Sends : flow[j] = "needKey"}, events)
       \/ /\ reader = None /\ reader' = i
          /\ UNCHANGED thePage
    /\ UNCHANGED <<modals, app, page, button, alerts>>

\* The reader closes, without a key or with one for an import or for a send.
ReaderCloses ==
    /\ app = "active" /\ reader # None
    /\ reader' = None
    /\ \/ reader = Import /\ UNCHANGED thePage
       \/ /\ reader = Import
          /\ \E f \in Imports : Startable(f) /\ Ask2(f) /\ UNCHANGED pendingTransactions
       \/ /\ reader \in Sends /\ flow[reader] # "needKey" /\ UNCHANGED thePage
       \/ /\ reader \in Sends /\ flow[reader] = "needKey"
          /\ \/ flow' = [flow EXCEPT ![reader] = "failed"] /\ Fail({reader}, events)
             \/ /\ \E to \in {"signing", "script"} : flow' = [flow EXCEPT ![reader] = to]
                /\ UNCHANGED <<pendingTransactions, events>>
    /\ UNCHANGED <<modals, app, page, button, alerts, keyAlerts>>

\* The address book, the options of an address, the QR reader...
ShowPanel ==
    /\ Home
    /\ M!ShowPlain(Panel)
    /\ UNCHANGED <<app, page, thePage, button, dialogs>>

\* At a modal, if no alert covers it.
AtModal ==
    /\ app = "active" /\ alerts = {} /\ keyAlerts = {} /\ reader = None
    /\ \/ \E t \in M!Texts : M!Type(t)
       \/ M!secondPasswordClicked \/ M!closeModalClicked
    /\ PageResumes(events)
    /\ UNCHANGED <<app, page, button, dialogs>>

\* application:handleOpenURL: closes the modal on top (a link of the web view,
\* or another app).
HandleOpenURL ==
    /\ app = "active"
    /\ M!closeModal
    /\ PageResumes(events)
    /\ UNCHANGED <<app, page, button, dialogs>>

\* logoutClicked:
LogoutClicked ==
    /\ Home
    /\ alerts' = alerts \cup {"logout"}
    /\ UNCHANGED <<modals, app, page, thePage, button, keyAlerts, reader>>

LogoutConfirmed ==
    /\ app = "active" /\ page = "open" /\ "logout" \in alerts
    /\ alerts' = alerts \ {"logout"}
    /\ logout
    /\ M!ShowPlain(Progress)
    /\ UNCHANGED <<app, button, keyAlerts, reader>>

\* applicationWillResignActive:
ResignActive ==
    /\ app = "active" /\ app' = "inactive"
    /\ sendEnabled' = TRUE
    /\ UNCHANGED <<modals, page, thePage, disableBusyView, dialogs>>

BecomeActive ==
    /\ app = "inactive" /\ app' = "active"
    /\ UNCHANGED <<modals, page, thePage, button, dialogs>>

\* applicationDidEnterBackground: closes the modals, whose questions the page
\* still hears, and logs out; BCAlertView cancels the confirmation.
EnterBackground ==
    /\ app = "inactive" /\ app' = "background"
    /\ M!closeAllModals
    /\ \/ page = "open" /\ logout
       \/ page # "open" /\ UNCHANGED <<page, thePage>>
    /\ alerts' = alerts \ {"confirm"}
    /\ UNCHANGED <<button, keyAlerts, reader>>

EnterForeground ==
    /\ app = "background" /\ app' = "inactive"
    /\ UNCHANGED <<modals, page, thePage, button, dialogs>>

\* walletDidDecrypt of the next page.
DidDecrypt ==
    /\ app = "active" /\ page = "closed"
    /\ page' = "open"
    /\ M!closeAllModals
    /\ UNCHANGED <<app, thePage, button, dialogs>>

-----------------------------------------------------------------------------
InPage ==
    \/ \E i \in Sends : SignerLoaded(i) \/ Throws(i) \/ AskForPrivateKey(i) \/ TxSent(i)
    \/ \E f \in Flows : ImportExportLoaded(f) \/ ImportFails(f)
    \/ BackupFails \/ PageReplaced
User ==
    \/ SendPaymentClicked \/ Confirmed \/ ScanKeyClicked \/ ReaderCloses
    \/ \E i \in Sends : KeyAlertAnswered(i)
    \/ ShowPanel \/ AtModal \/ HandleOpenURL \/ LogoutClicked \/ LogoutConfirmed
System == ResignActive \/ BecomeActive \/ EnterBackground \/ EnterForeground \/ DidDecrypt

Next == InPage \/ Delivered \/ User \/ System

Spec == Init /\ [][Next]_vars

\* Scripts load and transactions end, or fail, by a timeout at the latest;
\* calls of the page are delivered and a page that is loaded comes.
Ends(i) == SignerLoaded(i) \/ TxSent(i) \/ Throws(i)
FairSpec ==
    /\ Spec /\ WF_vars(Delivered) /\ WF_vars(PageReplaced)
    /\ \A i \in Sends : WF_vars(Ends(i))
-----------------------------------------------------------------------------
(***************************************************************************)
(* Properties.                                                             *)
(***************************************************************************)

\* At most one transaction is signed at a time, though the button is enabled
\* again while one is under way (reset, and the error of another) and the table
\* is looked at only after the signer was loaded; and the table holds just that
\* one: no path of an error or a cancellation leaves it there to block every
\* later send, and the error of a second send does not take the first one off.
Started == {"signing", "needKey", "script", "keyPassword"}
OneAtATime ==
    LET started == {i \in Sends : flow[i] \in Started}
    IN Cardinality(started) <= 1 /\ (page = "open" => pendingTransactions = started)

\* A flow that waits for a password has its question asked, or its call on the
\* way: no step of anything else (another's modal, an alert, a link, the end
\* of a send) loses the question.
Waits(f, q, ev) ==
    answer[q] = "open" \/ \E n \in 1..Len(events) : events[n] = Event(ev, f)
QuestionNotLost ==
    \A f \in Flows :
        /\ flow[f] = "password" => Waits(f, M!Second(f), "second")
        /\ flow[f] = "keyPassword" => Waits(f, M!Key(f), "key")

\* No call of i is on its way.
Quiet(i) == \A n \in 1..Len(events) : events[n].by # i

\* A send that is started is reported or waits for the user, unless its page
\* is replaced.
Reports(i) ==
    \/ flow[i] \in Over /\ Quiet(i)
    \/ flow[i] \in {"needKey", "script", "keyPassword"} \/ page # "open"
SendIsReported == \A i \in Sends : flow[i] = "signing" ~> Reports(i)

\* "Close transaction modal": once the success of a send is reported, its
\* progress modal is gone, unless another send is under way.
TransactionModalCloses ==
    \A i \in Sends :
        flow[i] = "sent" /\ page = "open" /\ (\A j \in Sends : flow[j] \in Over /\ Quiet(j))
            => ~M!OnScreen(Progress)

\* The questions of the sends and imports that run at the same time are
\* answered once each, however they cover one another: none is hidden, none gets
\* the text of the other, and a second password is checked when it is typed.
QuestionsAnsweredOnce ==
    M!AnsweredOnce /\ M!NothingHidden /\ M!ChecksSecondPassword
=============================================================================
