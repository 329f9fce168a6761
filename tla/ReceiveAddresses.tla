--------------------------- MODULE ReceiveAddresses ---------------------------
(***************************************************************************)
(* The Receive screen: the list of addresses, the options of one of them,  *)
(* and the address that is generated.  The screen remembers the address    *)
(* its modals are about in clickedAddress, and asks for the label of a new *)
(* address when a notification comes, which every reload of the list posts.*)
(*                                                                         *)
(* The modals of this screen all have a close button, so that showing one  *)
(* dismisses the one there is (module Modals).  The addresses themselves   *)
(* are MyWallet's.                                                         *)
(***************************************************************************)
EXTENDS Naturals, Sequences, SequencesExt

CONSTANTS
    Addresses,
    None,       \* nil
    MaxClicks   \* bound on registrations for the notification

VARIABLES
    all,        \* addresses of the wallet, oldest first
    archived,   \* those with tag 2
    saved,      \* both, as the server has them
    page,       \* what the page does: "idle", "asking" (its call is on the way),
                \* "asked", "saving", "refreshing" (the wallet), "history" (its
                \* transactions), "closed"
    activeKeys, archivedKeys, \* the lists on the screen
    ui,         \* clickedAddress, registrations for EVENT_NEW_ADDRESS, and the
                \* modal on top: its kind, the address it shows, is it a prompt?
    new,        \* history: the address made since the button was clicked, or None
    labelled,   \* history: the address shown when a label was saved last, with the
                \* one that was given the label
    failed      \* history: did the last refetch fail, and nothing was reloaded since?

wallet == <<all, archived, saved>>
list == <<activeKeys, archivedKeys>>
history == <<new, labelled>>
vars == <<wallet, page, list, ui, history, failed>>

NoModal == [kind |-> "none", shows |-> None, prompt |-> FALSE]
Modal(kind, a) == [kind |-> kind, shows |-> a, prompt |-> FALSE]

Active(keys, away) == SelectSeq(keys, LAMBDA a : a \notin away)

Init ==
    /\ \E a \in Addresses : all = <<a>>
    /\ archived = {} /\ saved = [all |-> all, archived |-> {}]
    /\ page = "idle" /\ activeKeys = Active(all, archived) /\ archivedKeys = {}
    /\ ui = [clicked |-> None, observers |-> 0, modal |-> NoModal]
    /\ new = None /\ labelled = {} /\ failed = FALSE
-----------------------------------------------------------------------------
\* The modals.

\* Mutant of Forgetful: the options forget the address as the others do.
AllForgetful == {"options", "label", "request"}

\* The modals whose onDismiss sets clickedAddress to nil.
Forgetful == {"label", "request"}

\* The modal on top is dismissed, and m takes its place.
Shown(u, m) ==
    [u EXCEPT !.clicked = IF u.modal.kind \in Forgetful THEN None ELSE @, !.modal = m]

\* labelAddressClicked: by the user or by the prompt.
LabelAddress(u, prompt) ==
    Shown(u, [kind |-> "label", shows |-> u.clicked, prompt |-> prompt])

Newest(keys) == IF keys = <<>> THEN None ELSE Last(keys)

\* Mutant of Prompted: the label view stays if it is there already.
PromptedInPlace(u, keys) ==
    LET v == [u EXCEPT !.clicked = Newest(keys), !.observers = 0]
    IN IF u.modal.kind = "label" THEN v ELSE LabelAddress(v, TRUE)

\* promptForLabelAfterGenerate, which takes the observer away.
Prompted(u, keys) ==
    LabelAddress([u EXCEPT !.clicked = Newest(keys), !.observers = 0], TRUE)

\* The notification of a reload that lists these keys.  An observer that is
\* registered twice is told twice, or not when the first removes the second.
Notified(u, keys) ==
    IF u.observers = 0 THEN {u}
    ELSE {Prompted(u, keys)} \cup
         (IF u.observers = 1 THEN {} ELSE {Prompted(Prompted(u, keys), keys)})

\* A question for the second password that is dismissed is an error.
Answered(u, p) == IF p = "asked" /\ u.modal.kind # "second" THEN "idle" ELSE p

\* reload, with these addresses in the wallet and the page at p.
Reload(u, keys, away, p) ==
    /\ activeKeys' = Active(keys, away) /\ archivedKeys' = away
    /\ failed' = FALSE
    /\ ui' \in Notified(u, Active(keys, away))
    /\ page' = Answered(ui', p)

\* reload, and then closeModalWithTransition:
ReloadAndClose(u, keys, away, p) ==
    /\ activeKeys' = Active(keys, away) /\ archivedKeys' = away
    /\ failed' = FALSE
    /\ \E v \in Notified(u, Active(keys, away)) : ui' = Shown(v, NoModal)
    /\ page' = p
-----------------------------------------------------------------------------
\* The user; the busy view is up while the page saves or refreshes.  The wallet
\* is not changed in the moment a click of the generate button takes to be
\* answered by a question (page = "asking").
At(kind) == ui.modal.kind = kind /\ page \in {"idle", "asking", "asked"}

\* The addresses that have a row.  The archived ones have the second section,
\* and with no active address there is one section only.
Rows == ToSet(activeKeys) \cup (IF activeKeys = <<>> THEN {} ELSE archivedKeys)

Selected(u, a) == Shown([u EXCEPT !.clicked = a], Modal("options", a))

\* tableView:didSelectRowAtIndexPath:
SelectRow(a) ==
    /\ At("none")
    /\ a \in Rows
    /\ ui' = Selected(ui, a)
    /\ UNCHANGED <<wallet, page, list, history, failed>>

\* requestPaymentClicked:
RequestPayment ==
    /\ At("options")
    /\ ui' = Shown(ui, Modal("request", ui.clicked))
    /\ UNCHANGED <<wallet, page, list, history, failed>>

LabelAddressClicked ==
    /\ At("options")
    /\ ui' = LabelAddress(ui, FALSE)
    /\ UNCHANGED <<wallet, page, list, history, failed>>

\* What MyWallet does with a call about address a: it saves the wallet; an
\* address it does not have, on a list that is stale, it may leave at that.
Saves(a) == {"saving"} \cup (IF a \in ToSet(all) THEN {} ELSE {"idle"})

\* labelSaveClicked: MyWallet sets the label and saves the wallet.
LabelSaveClicked ==
    /\ At("label") /\ page = "idle"
    /\ labelled' = {<<ui.modal.shows, ui.clicked>>}
    /\ \E p \in Saves(ui.clicked) : ReloadAndClose(ui, all, archived, p)
    /\ UNCHANGED <<wallet, new>>

\* archiveAddress: or unArchiveAddress:, by the tag of the address.
Toggled(a) ==
    IF a \in archived THEN archived \ {a} ELSE archived \cup ({a} \cap ToSet(all))

\* archiveAddressClicked:, which also takes an address out of the archive.
ArchiveAddressClicked ==
    /\ At("options") /\ page = "idle"
    /\ archived' = Toggled(ui.clicked)
    /\ \E p \in Saves(ui.clicked) : ReloadAndClose(ui, all, Toggled(ui.clicked), p)
    /\ UNCHANGED <<all, saved, history>>

\* closeModalClicked: of a modal but the question.
CloseModalClicked ==
    /\ At("options") \/ At("label") \/ At("request")
    /\ ui' = Shown(ui, NoModal)
    /\ UNCHANGED <<wallet, page, list, history, failed>>

\* MyWallet makes a key, if it may, and saves the wallet.
MakeKey ==
    /\ \E a \in Addresses \ ToSet(all) : all' = Append(all, a) /\ new' = a
    /\ page' = "saving"
    /\ UNCHANGED <<archived, saved, list, labelled, failed>>

\* generateNewAddressClicked: the second password is asked for, or not.
GenerateNewAddressClicked ==
    /\ At("none") /\ page = "idle"
    /\ ui.observers < MaxClicks
    /\ ui' = [ui EXCEPT !.observers = @ + 1]
    /\ \/ MakeKey
       \/ page' = "asking" /\ new' = None /\ UNCHANGED <<wallet, list, labelled, failed>>

\* getPassword:success:error: reaches native code.
GetSecondPassword ==
    /\ page = "asking" /\ page' = "asked"
    /\ ui' = Shown(ui, Modal("second", None))
    /\ UNCHANGED <<wallet, list, history, failed>>

\* The question is answered, or closed, which is an error.
SecondPasswordAnswered ==
    /\ At("second")
    /\ ui' = Shown(ui, NoModal)
    /\ \/ MakeKey
       \/ page' = "idle" /\ UNCHANGED <<wallet, list, history, failed>>
-----------------------------------------------------------------------------
\* The page and the server.

Current == [all |-> all, archived |-> archived]

\* Mutant of DidBackupWallet: the Receive screen is not reloaded.
BackupUnseen ==
    /\ page = "saving" /\ page' = "idle"
    /\ saved' = Current
    /\ UNCHANGED <<all, archived, list, ui, history, failed>>

\* didBackupWallet
DidBackupWallet ==
    /\ page = "saving"
    /\ saved' = Current
    /\ Reload(ui, all, archived, "idle")
    /\ UNCHANGED <<all, archived, history>>

\* Mutant of DidFailBackupWallet: nothing is fetched.
FailWithoutRefresh ==
    /\ page = "saving" /\ page' = "idle"
    /\ UNCHANGED <<wallet, list, ui, history, failed>>

\* didFailBackupWallet, also when the server has the wallet and only its answer
\* was lost: wallet and history are fetched again.
DidFailBackupWallet ==
    /\ page = "saving" /\ page' = "refreshing"
    /\ saved' \in {saved, Current}
    /\ UNCHANGED <<all, archived, list, ui, history, failed>>

\* #refresh: the page takes the wallet the server has, or keeps its own if that
\* cannot be fetched, and asks for the history.
WalletFetched ==
    /\ page = "refreshing" /\ page' = "history"
    /\ \/ all' = saved.all /\ archived' = saved.archived
       \/ UNCHANGED <<all, archived>>
    /\ UNCHANGED <<saved, list, ui, history, failed>>

\* get_history: did_multiaddr, or a notice alone when the request fails.
HistoryFetched ==
    /\ page = "history"
    /\ Reload(ui, all, archived, "idle")
    /\ UNCHANGED <<wallet, history>>
HistoryFails ==
    /\ page = "history" /\ page' = "idle"
    /\ failed' = TRUE
    /\ UNCHANGED <<wallet, list, ui, history>>

\* didGetMultiAddressResponse: because the web socket tells of a transaction;
\* toggleSymbol reloads as well.
DidGetMultiAddressResponse ==
    /\ page # "closed"
    /\ Reload(ui, all, archived, page)
    /\ UNCHANGED <<wallet, history>>

\* applicationWillResignActive: takes the observer away.
ResignActive ==
    /\ ui' = [ui EXCEPT !.observers = 0]
    /\ UNCHANGED <<wallet, page, list, history, failed>>

\* logoutClicked: the list is reloaded without a wallet, and the password is
\* asked for.
logout ==
    /\ At("none") /\ page = "idle"
    /\ page' = "closed" /\ activeKeys' = <<>> /\ archivedKeys' = {}
    /\ \E v \in Notified(ui, <<>>) : ui' = Shown(v, Modal("password", None))
    /\ UNCHANGED <<wallet, history, failed>>

\* walletDidDecrypt: closes the modals and reloads.
WalletDidDecrypt ==
    /\ page = "closed"
    /\ Reload(Shown(ui, NoModal), all, archived, "idle")
    /\ UNCHANGED <<wallet, history>>
-----------------------------------------------------------------------------
User ==
    \/ \E a \in Addresses : SelectRow(a)
    \/ RequestPayment \/ LabelAddressClicked \/ LabelSaveClicked
    \/ ArchiveAddressClicked \/ CloseModalClicked \/ GenerateNewAddressClicked
    \/ SecondPasswordAnswered
Page ==
    \/ GetSecondPassword \/ DidBackupWallet \/ DidFailBackupWallet
    \/ WalletFetched \/ HistoryFetched \/ HistoryFails
System == DidGetMultiAddressResponse \/ ResignActive \/ logout \/ WalletDidDecrypt

Next == User \/ Page \/ System

Spec == Init /\ [][Next]_vars

\* Saving and fetching end, by success, by failure or by their time limits.
FairSpec == Spec /\ WF_vars(Page)
-----------------------------------------------------------------------------
(***************************************************************************)
(* Properties.                                                             *)
(***************************************************************************)

\* The variables hold what their declarations in the code allow; the views of
\* an address show one (but the label view, when every address is archived).
TypeOK ==
    /\ all \in Seq(Addresses) /\ archived \subseteq Addresses
    /\ saved.all \in Seq(Addresses) /\ saved.archived \subseteq Addresses
    /\ page \in {"idle", "asking", "asked", "saving", "refreshing", "history", "closed"}
    /\ activeKeys \in Seq(Addresses) /\ archivedKeys \subseteq Addresses
    /\ ui \in [clicked : Addresses \cup {None}, observers : 0..MaxClicks,
               modal : [kind : {"none", "options", "label", "request", "second", "password"},
                        shows : Addresses \cup {None}, prompt : BOOLEAN]]
    /\ new \in Addresses \cup {None}
    /\ ui.modal.kind \in {"options", "request"} => ui.modal.shows \in Addresses
    /\ labelled \subseteq (Addresses \cup {None}) \X (Addresses \cup {None})
    /\ failed \in BOOLEAN

\* What is archived, copied, requested for or labelled from the options is the
\* address the modal shows, whatever is prompted, dismissed or reloaded.
ActsOnTheShownAddress ==
    ui.modal.kind \in {"options", "request"} => ui.clicked = ui.modal.shows

\* A label is never given to another address than the one that was shown: when
\* a prompt replaces a modal, its onDismiss may lose the address but not swap it.
LabelNotMisplaced == \A l \in labelled : l[2] \in {l[1], None}

\* When nothing is under way the lists on the screen are the wallet's, also
\* after a failed backup may have taken an address back.  Only a refetch that
\* failed itself leaves them behind, until the next reload.
ListIsCurrent ==
    page = "idle" /\ ~failed =>
        activeKeys = Active(all, archived) /\ archivedKeys = archived

\* An address that was generated leads to a prompt, or the app leaves the
\* foreground: a failing backup alone does not leave the observer waiting, the
\* refetch that follows it has to fail as well.
NewAddressIsPrompted == new # None /\ ui.observers > 0 ~> ui.observers = 0 \/ failed

\* promptForLabelAfterGenerate: "newest address is the last object in
\* activeKeys": the prompt shows the address that was generated.
PromptIsForTheNewest == ui.modal.prompt => ui.modal.shows = new

\* numberOfSectionsInTableView: counts the sections that have rows: every
\* address of the wallet can be selected, so that it can be taken out again.
EveryAddressHasARow == page = "idle" => ToSet(all) \subseteq Rows
=============================================================================
