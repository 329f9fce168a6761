# Verification of the iPhone wallet

TLA+ models of the iOS Bitcoin wallet in `src/Blockchain` (Objective-C) and
`src/Blockchain/js` (the JavaScript page the Objective-C code drives), and of the
two programs of their own that the repository carries: the QR encoder that draws
receive addresses (`src/QR-Code-Encoder`, C++) and the keys server, a store of
credentials with its client (`src/Library/keys`, C). They are checked with TLC, and
what matters most about every part but the encoder is
proved with TLAPS.

The app is a native shell around one `UIWebView`. The wallet itself (keys,
encryption, transactions) is JavaScript in the page (`wallet.html`, which loads
`wallet.js`, a library that is not in this repository). Almost everything the
app does is a conversation between the two sides, through a bridge that has no
channel of its own: the page navigates to fake URLs, the native side evaluates
strings. Pages are replaced while the conversation goes on. Most of the models are
about that conversation and about what is built on it. The other two parts are
separate: the encoder is a pure function of text, level, version and mask, and the
keys server keeps an index, a file for every entry and a lock in a directory, and
serves one connection at a time.

## Inventory

| Part | State | Operations | Modelled by |
|---|---|---|---|
| JavaScript bridge (`JSBridgeWebView.m`, `js/bridge.js`) | `isLoaded`, `pending_commands`, `usedIDs`; in the page `JSBridge_objArray`, `JSBridge_pendingObjIDs`, `JSBridge_objCount` | `executeJS…`, `loadHTMLString:`, `loadRequest:`, the policy and load callbacks, `device.execute`, `JSBridge_setResponseWithId` | `JSBridge`, `CallChannel` |
| PIN and unlocking (`AppDelegate.m`, `Wallet.m`, `PinEntry/Classes`, `wallet_pre.html`) | the record in `NSUserDefaults` (`pinKey`, `encryptedPINPassword`, `passwordPartHash`), guid and sharedKey, the PIN controller, `pinViewControllerCallback`, the page, the get and the saves under way | launch, background, foreground, entering/changing/saving a PIN, the answers of the PIN server, password entry, log out, forget | `PinProtocol` |
| Modal views and password questions (`AppDelegate.m`, `BCModalView.m`) | `modalView`, `modalChain`, the shared `secondPasswordView`, its text field, `validateSecondPassword` | show, close, close all, the two questions, the buttons | `Modals` |
| Payments and key import (`SendViewController.m`, `Wallet.m`, `wallet.html`, `PrivateKeyReader.m`) | `pendingTransactions`, listeners, `sendPaymentButton`, `disableBusyView`, alerts, the key reader | send, confirm, `quickSend` and its callbacks, cancel, import, background, logout | `Payment` (with `Modals`) |
| Send amount and currency (`SendViewController.m`, `AppDelegate.m`) | text field, `displayingLocalSymbol`, `originalBtcAmount`, `didChangeDollarAmount`, label, `symbolLocal`, `latestResponse` | type, scan, link, toggle, new rates, confirm, send, logout, login | `SendAmount` |
| Account creation and pairing (`BCCreateWalletView.m`, `BCManualPairView.m`, `PairingCodeParser.m`) | `wallet.delegate`, `wallet.guid`/`password`, the page and its queue, the stored account, the forms, the scanner, the busy view | create, scan, continue, decrypt or fail, forget, background, relaunch | `Pairing` |
| Receive screen (`ReceiveCoinsViewController.mm`, `Wallet.m`, `AppDelegate.m`) | `activeKeys`, `clickedAddress`, the observer of `EVENT_NEW_ADDRESS`, the modal on top; the addresses of the wallet and of the server | select, request, label, archive, generate, reload, the prompt, a backup that succeeds or fails, background, log out | `ReceiveAddresses` |
| QR encoder (`QR_Encode.cpp`, called by `QREncoder.mm`) | the data code words, blocks of modes, code words and modules of one symbol; its tables | `EncodeData`: source, code words, symbol, mask | `QRTables`, `QRSource`, `QRSymbol` |
| Keys database (`db.c`, `export.c` of `Library/keys`) | `index`, `index.work`, `<id>`, `<id>.work`, `.lock`; the index in memory | find, add, edit, delete, passwd, rekey, export, import, each as the writes and renames it consists of | `KeysDb`, `CredentialStore` |
| Keys index, protocol and discovery (`db.c`, `server.c`, `client.c`, `keys.c`, `export.c`, `mcast.c`) | the terms of the index, the text of an entry, two streams of records, what client and server wait for | search and update of terms, reading and writing of entries; the search for the server; the commands of the client | `KeysIndex`, `KeysSession` |
| Keys certificates, web socket and history, scrypt worker, address book, merchant map, navigation, helpers, vendored libraries | | | not modelled, see the end |

Interactions: everything native reaches the page through `executeJS` (queued
until the page is loaded) or `executeJSSynchronous` (an exception if it is not);
everything in the page reaches `Wallet.m` through the bridge and from there
`wallet.delegate`, which is the app delegate, the form of a new account or the
pairing parser. The modals are shared by all screens. `NSUserDefaults` survive
restarts; pages, queues, screens and requests do not. The Receive screen asks the
encoder for a symbol of the address. Nothing in the app calls the keys server; its
client and server share the code of index, entries and export.

What is hard here: calls, answers, timeouts and alerts interleave freely; a page
is replaced with calls and closures outstanding; answers refer to requests by a
small number; a request may be answered when its screen has gone; three keys
that belong together are written one by one; two flows share one question view;
the amount that is confirmed is computed again before it is sent. In the encoder,
blocks are joined in place, the longer blocks of two kinds are interleaved last, and
forty versions with four levels depend on tables no test reads. In the keys server an
update is several writes and renames with a lock that survives a crash, a change of
the database key rewrites every entry, and neither end knows whether what it reads is
what the other meant to send.

What makes the parts correct: a call is handed over once and in order and its
callback returns once with its own answer (bridge); a PIN that is set opens the
wallet it was set for, and the user is never left at a dead screen (PIN); every
question is answered once, by what was typed for it (modals); one transaction
at a time, each of them reported, no table entry or disabled button left behind
(payments); what is shown, confirmed and sent is one amount (amount); nothing is
created unasked, no password reaches the page of another wallet, no result is
dropped (pairing); what is done to an address is done to the one on the screen
(Receive); a reader of the symbol gets the text back (encoder); an update of the
store takes effect at one moment or not at all, and status 0 means it did (keys).

## Modules

### JSBridge, CallChannel, MCJSBridge, JSBridgeProofs

`JSBridge` has both sides of the bridge. A call is a number (`JSBridge_objCount` of its
page) and one of three kinds: without callback, with callback, and with a handler that
evaluates JavaScript synchronously (`did_decrypt`). `Send` is `device.execute`;
`ShouldStartLoad` is the start of `webView:shouldStartLoadWithRequest:` for a fake URL
and `Deliver` one turn of its loop, whose handler may answer, keep its closure in
`open`, issue commands, or load another page in the middle of the loop. `UseClosure` is
a later answer by a handler. `LoadHTML`, `LoadRequest`, `StartLoad`, `CommitLoad`,
`FailLoad` and `FinishLoad` are a page load as `UIWebView` performs it, of which only
the delegate callbacks are in the repository. Two facts about `UIWebView` are constants,
because the code cannot decide them: which loads are used (`LoadKinds`; `loadRequest:`
is used for the login page only) and whether scripts of the old document still run
between the policy callback and the commit (`RunsUntilCommit`). Two things may go wrong
inside a step of the page or of the loop over the queue. A callback may throw:
`SetResponse` then leaves the id in `pendingObjIDs`, because `bridge.js` removes it
after the callback, and the next answer runs the callback again. And the callback of a
queued command may call `executeJS` during the flush (`FlushInterrupted`): it appends to
the array that the loop enumerates, which raises with the commands so far run, none of
them removed and the page not marked as loaded. An exception that leaves the bridge ends
the app (`raised`). `ran`, `log` and `fired` are history; `ran` has the kind of the page
a command was for and of the one it ran on, `fired` whether the callback returned.

`CallChannel` is the abstract specification: a page makes calls, native code handles
them one by one and settles each at most once; the channel goes down only with the app.
A page may be replaced by another that starts from nothing. To the first page the
channel promises that every call is handled; to its successors it promises less, because
native code that answers a call of the old page answers the new page's call of the same
number, which need not have been handled. An answer whose callback returned *settles*
the call, and no other follows; one whose callback threw does not. `MCJSBridge` maps the
bridge, over all its pages, to it.

### PinProtocol, PinProtocolProofs

One action per handler. A save with number *k* has key *k* and value *k*, so the
encrypted password `[pw, put]` opens with the value of key `put` and gives nothing or
garbage with any other; the hash prefix is the password itself (two passwords with the
same five hex digits are left out). The requests under way belong to the page and die
when it is replaced: a get (`req`), and any number of saves (`saves`), because only the
first controller of a PIN screen shows that it is busy and disables its keyboard
(`root`); the two that enter and repeat a new PIN replace it, so that the user may type
again while a save is on its way, and save again. Alerts are a set that the user may
answer in any order. `torn` is history: the writes of the last record were cut off by
the end of the process, so that key and encrypted password are of two saves. `Password1`
is the password the first wallet has, so that passwords are told apart only by when they
were chosen.

### Modals, Payment, PaymentProofs

`Modals` has the stack of modal views and the two questions that share one view,
one field and one flag; a question is *unasked*, *open*, or answered with success
or error by the dismissal of its modal, whatever dismisses it. `Payment` INSTANCEs
it for its sends and imports: every operation of `Payment` that touches a modal is
an operation of `Modals`, and the callbacks of questions that a step answers run
in the page in that same step. Calls of the page wait in `events` until native
code gets them, which is what `JSBridge` provides. A page that is being replaced
(`closing`) may still be heard (`LateEvents`). `MaxFlows` bounds how many sends and
imports are started (`Startable`).

### SendAmount

Numbers are ticks; a rate is what one smallest printed unit of the local currency is
worth, and printing rounds half to even, as the formatter does. `unit` and `typed` are
history: the unit the number was entered in, and the satoshi last entered. Whatever
reloads the form does so in one operator, `Reload`: new rates, a backup that succeeded
(`DidBackupWallet`, with the rates there are), a link, the end of `logout`, and a login.
The confirmation remembers the rate it was asked at and whether the local text was in
whole cents (`Whole`); `sent.exact` says that one of the reasons applies for which
reading the form again gives the amount that was confirmed. `BeforeRates` and `Hurried`
admit two situations in which the code does not keep its promises, see *Known
divergences*.

### Pairing, PairingProofs

The delegate, the page with what it is doing, the queue of commands for it, the
events on their way, and the screens. The page of a new account, of a code, of a
wallet and the login page are told apart by `page.of`. A call that the delegate
does not implement is dropped (`Dropped`), and the history variable `dropped`
remembers results lost that way. Events are handled faster than the user acts.

`NewAccount`, `ParsePairingCode`, `FetchWallet` and `DecryptWallet` are what the page
may be doing; the first two are functions of `wallet.html`, the others belong to
`wallet.js`. `NewAccount` ends with an account, with an error, or with neither: when the
script it needs cannot be loaded nobody is told (`wallet.html:316-325`).

### ReceiveAddresses, MCReceive

The screen remembers the address its modals are about in one variable, `clickedAddress`,
which the `onDismiss` of two of these modals sets to nil; and a click on the generate
button registers an observer for a notification that every reload of the list posts.
`ui` has `clickedAddress`, the number of registrations and the modal on top (with the
address it shows); `page` says what the page does. The screen shows two lists,
`activeKeys` and `archivedKeys`, which every reload makes of the wallet there is
(`Reload`). `Shown` is a modal taking the place of another, as module `Modals` has it
for modals with a close button. `Notified` gives the outcomes of one notification: an
observer that is registered twice is told twice, or once if the first call removes both
registrations in time. `Answered` lets a prompt that replaces the question for the
second password dismiss it, which the page takes as an error. `new` and `labelled` are
history. Between a click of the generate button and the question the wallet is not
changed (`page = "asking"`): the two are one navigation apart.

A backup that fails is followed by a refetch in two requests, of the wallet
(`WalletFetched`; the page keeps its own if that fails) and of the history. Only an
answer to the second reaches the app and reloads the lists (`HistoryFetched`); if it
fails, the user gets a notice and the lists stay as they were (`HistoryFails`,
`failed`), until something else reloads them. On lists that are stale the user may act
on an address the wallet does not have, which `MyWallet` may leave without a save
(`Saves`).

### QRTables, QRSource, QRSymbol, MCQREncoder

The encoder is operators, recursive where the source loops. `QRTables` has the tables,
entry by entry: the forty versions, powers and logarithms of GF(256), the generator
polynomials, the widths of counts. `QRSource` cuts a text into blocks of one mode,
joins blocks in the two passes of `EncodeSourceData` and writes the bits; a block is a
record, so that the moving of two arrays by one place is one operator. `QRSymbol` pads,
deals the words into blocks, computes check words, sets the function modules, walks,
masks and counts the penalty. `MCQREncoder` asks it one question per state and contains
a *reader*: it takes a symbol apart from the other end, by the layout of the symbol,
and uses of the encoder the table of versions only. A text is a sequence of bytes.

### KeysDb, CredentialStore, MCKeysDb, KeysDbProofs

The database as files. Each write and each rename of `update_db`, `delete_entry`,
`update_kek`, `rekey_db`, `export_db` and `import_db` is an action that succeeds or
fails (`good`); `Crash` may come between any two, loses what is in memory and keeps the
files, `.lock` among them, which only someone else removes (`RemoveLock`). A file opens
with the key it was written with and no other (`Opens`). To load an entry may fail for
another reason too, a lack of memory or of descriptors, at any time: `Tried` is what
loading leaves of the files, and whatever loads an entry has a disjunct in which that
fails. A change of key passes over what it cannot load and succeeds all the same;
`skipped` are those that it passed over though they open, and they are lost once it is
done. `Export` that finds the lock held goes straight to the reply, which says that all
is well. `idx` is the index a connection loaded, and every update starts from it, also
when another one has failed. `damaged` is auxiliary: the entries that an update was cut
or failed for half-way, of which nothing is promised until an edit of theirs succeeds,
and those a change of key left behind; `HalfDone` are those that would be added now.
`CredentialStore` is the promise: names with what a client finds under them, one
password, and updates that are asked for, take effect at one moment and are answered.
`KeysDb` has the refinement mapping at its end: an addition takes effect with the rename
of the index, an edit or a deletion with that of the entry's file.

### KeysIndex, KeysIndexProofs, KeysSession, MCKeysSession, KeysSessionProofs

`KeysIndex` has the terms of the index as sequences: what a search finds, what an update
makes of them, the size computed for the file beforehand, and index and entry as the
cells they are written and read as, and the text an entry is printed and parsed as. A
character is a number, an upper-case letter 100 more than the letter. Of the names of
fields only matters whether they begin with `pass`, so that there are two; the shorter
has the one character a name needs. `parse_entry` reads into an array made for a field
in every eight characters (`Slots`); a text with more fields than that writes past its
end, and what becomes of the entry is not defined (`Overrun`).

`KeysSession` has one client and the server over two streams of records. A reader takes
from the first record what it asked for, or less, so that one which expects something
else goes on in the middle of a message; this is what happens when the user gives no
password and the client sends its command all the same. The user may refuse every
prompt, the connection may break with any suffix of either stream lost, and an update
may fail before or after the entry's file changed; `KeysDb` says how. Of a broken
connection either end may not be told (`deaf`), and then waits for ever in a read, for
no read has a timeout (`ServerStuck`, `ClientStuck`). A change of key may lose entries
(`Rekey`), an export end at an entry that cannot be loaded, or send nothing under a lock
that is held (`ServeExport`). `ReceiveFails` is the client that cannot make the export
file (`Unmade`), cannot write it, or writes an entry short without noticing (`Torn`);
`SendEnd` is the import that ends with the file or at what cannot be read of it
(`CanRead`). Loads that fail for want of memory while the server searches, edits or
deletes are in `KeysDb` only.

A command begins with `find_server`: `Ping` sends one of a few pings, `Pong` is the
answer of the server's poll loop, which comes between two connections only, and
`Connect` takes the address of a pong that verifies. A ping that reaches the server
while it serves waits until it has done so; one that meets no server is lost, and so may
be any pong. `GiveUp` is the end of the tries, also if a pong is on its way. The client
comes while the server may still be busy with a connection whose client is gone.

## Runs

| Run | Instance | What it shows |
|---|---|---|
| `bridge` | two loads of either kind, two calls and two commands, callbacks that throw, an interrupted flush, fair | commands run in order and on their page, if it was not requested with `loadRequest:`; an answer comes from a handler of that number; no queued command is forgotten unless the flush raised; and the bridge implements `CallChannel` with its fairness: calls are handled one by one, none is forgotten, each is settled at most once |
| `bridge_eager` | two loads of either kind, failed loads, old documents that keep running | a call is handed over at most once and a callback that has returned is not run again even then |
| `pin_record` | two passwords, two PINs, two saves that may overlap, a change elsewhere and a restart or crash, fair | a PIN that is set opens if and only if its record was not cut off; it stands for the password of the open wallet and for one that opened it; no empty screen; a PIN screen without a cancel button does not stay disabled |
| `pin_migrate` | violation | the PIN of an old version is not migrated |
| `pay` | any two of two sends and an import, fair | one transaction at a time and a table that holds just that one; no question is lost, hidden, or answered twice or with another's text; every started send is reported |
| `pay_modal` | violation | the success of a send closes another modal and leaves its own |
| `amount` | three numbers, three rates, rounding to four ticks, backups | what is typed, displayed, confirmed and sent agree; for a local amount if it is in whole cents and the rate stays |
| `pairing` | two wallets, two accounts asked for, fair | accounts only on request, passwords only to their page, no result dropped, the busy view ends |
| `receive` | three addresses, two registrations for the notification, fair | actions are about the address that is shown, a label is lost rather than misplaced, the lists follow the wallet also after a failed backup and a new address leads to a prompt, unless the refetch fails too |
| `qr` | texts of up to four runs, symbols of versions 1 to 7 with all levels and masks, all forty versions and 31 polynomials of the tables, seven walks, all lines of twelve modules | the reader gets back every text and symbol; the tables fit together and the walks fill their versions; the points of a line are those of the rules |
| `keys_db` | two entries, two values, three contents, two passwords, two changes of key | the index opens, what it lists opens and is found under its values and no others, an export that returns TRUE has sent all or, under a lock that is held, nothing, and the database implements `CredentialStore`, whatever load, write or rename fails and wherever the server stops |
| `keys_session` | two entries of three, one of them of five short fields, searches for two values, two passwords, two pings, one fault, fair | status 0 means the command was done; an edit replaces what was shown; a search finds every match; what a copy lacks is known; the index lists the values and is read back as written; every command ends, with or without a server, and the server comes back, unless the other end is gone without a word |

Deadlock checking is off where the system may stop: a user need not do anything,
and the bounds end the calls, sends and imports; and client and keys server may both
wait for ever, each for the other. The PIN, the amount, the encoder and
the keys database are checked for deadlock as well.

**Bounds and why they are enough.** The hazards of the bridge need two pages and two ids
(a replaced page, and two navigations that replace each other), and two loads so that a
failed one can follow a page or be followed by one. Two commands interrupt a flush: one
that is queued, and one its callback adds. A torn or mixed record needs an old and a new
save, two passwords and one crash. Two askers cover and uncover each other; a third
would repeat it. The pending table needs two sends. The amounts include one that rounds
up, one that rounds down and one that is exact; `MaxNumber` only keeps repeated rounding
finite. Two wallets distinguish *mine* from *another*, and two accounts asked for give a
second request while the first is under way. A third address gives the Receive screen
one that is neither the clicked nor the newest one, and two registrations are what makes
a notification come twice.

A text of four runs gives every block that is joined two neighbours on one side and one
on the other, which is as far as the joining looks; the lengths 1, 5, 6 and 12 are on
both sides of the lengths at which joining saves bits. The walks are of the versions
with no, one and several alignment patterns, with and without version data. Two entries
that share a value and have one of their own are what updating an index tells apart; two
changes of key make entries of three generations. One fault in a session is enough to
cut it anywhere, and two pings to lose one and be answered the other; what several
faults do to the files is `keys_db`, which does not bound them.

**Fairness.** The bridge: `UIWebView` delivers a navigation and finishes, or fails, a
load; nothing is assumed of handlers, pages or people. `PinProtocol`: pages of the app's
own bundle load, and a get is answered or ends with its timeout (20 s in
`wallet_pre.html`, 30 s in `wallet.html`), after which an error is reported; of saves
nothing is assumed. `Payment`: calls are delivered, a page that is being loaded comes,
and a transaction that is being signed ends or throws. `Pairing`: pages load, their
requests have a timeout (60 s), calls are delivered. `ReceiveAddresses`: the page saves
and fetches wallets and the history in requests that end (`Page`), with success or
without: a refetch may always fail. A reload that has no such reason need not come. Of
the user of the app nothing is assumed. `KeysSession`: client and server go on with what
they have (a client that waits for a pong has a timeout), the server is started again
when it goes down, and the user answers or refuses each prompt. The last is needed,
because the server has no timeout and serves nobody else while one client waits at a
prompt. A read from a peer that is gone without a word is not assumed to end.

## Proofs

`JSBridgeProofs` proves for every value of the constants:

* `TypeCorrect`: `Spec => []TypeOK`.
* `HandedOverOnceCorrect`: `Spec => []HandedOverOnce`. No object is handed to the
  delegate twice. The invariant is not inductive alone: that an id is read twice
  is prevented by `objArray`, from which reading removes the object, and not by
  `usedIDs`, which is cleared while ids are pending. The strengthening says that
  every logged object of the current document is no longer in `objArray`, that
  logged pages are not newer than the document, and that ids are below the count.
* `CommandsRunOnTheirPageCorrect`: `Spec => []CommandsRunOnTheirPage`, whichever way
  pages are loaded. Commands run in the order they were issued in; and on the page they
  were for, unless that page or the one they met was requested with `loadRequest:`,
  which empties no queue. The strengthening `QueueInv`
  says, as long as nothing raised, that queued commands are increasing and
  newer than those that ran, that they are for the last load requested unless one of the
  two was requested with `loadRequest:`, and that the queue is empty while the page is
  marked as loaded. What raises ends the app, in the middle of the queue.
* `CallbackReturnsOnceCorrect`: `Spec => []CallbackReturnsOnce`. That an object which was
  read again is answered again and its callback still returns once rests on
  `pendingObjIDs` of the page; `FiredInv` says that what returned on the current document is
  no longer in it. What threw still is.
* `AnswerComesFromAHandlerCorrect`: `Spec => []AnswerComesFromAHandler`. The danger is
  the second reading of an object, which the bridge acknowledges itself. `ReadIsUsed`
  says why that never finds a page of `loadHTMLString:` loaded: from the commit of a
  document to its end every object read is in `usedIDs` too. While `loadRequest:`
  replaces a page it may: that clears `usedIDs` and leaves the old document loaded, and
  the statement says that no other answer is made up.
* `BridgeIsAChannel`: `Spec => Channel!Safety`, the refinement of `CallChannel` without
  its fairness, with any kind of load. What has been handled is the number of logged
  objects of the page; the mapped steps add one to it because of `LogInv`. `NoPage`
  says that nothing is called, read or answered before the first page commits, and
  `FirstPage` that on the first page objects are read in ascending order and answered
  after they were logged, which is what the channel promises to that page only.

The only assumption is `JSBridgeAssumption`.

`SendReceiveProofs` holds the proofs about the two screens on which money is sent and
received; it extends `SendAmount` and `MCReceive`, of which `ReceiveAddresses` is the
instance `Receive`. It proves for every set of addresses and every bound on clicks:

* `ActsOnTheShownAddressCorrect`: `ReceiveSpec => []ActsOnTheShownAddress`,
* `LabelNotMisplacedCorrect`: `ReceiveSpec => []LabelNotMisplaced`, and
* `ListIsCurrentCorrect`: `ReceiveSpec => []ListIsCurrent`.

The first two follow from `ScreenCorrect`, the invariant `ScreenInv`. The first is not
inductive alone, because the options are replaced by the label view and that by prompts,
any of which may run an `onDismiss` that belongs to another modal. `ScreenInv` adds what
the label view remembers: the address it shows, or nothing. Lemmas state it of `Shown`,
of one prompt and of a notification that comes twice, and the actions follow from them.
`ListInv` is the last one: in the states of the page in which nothing is under way, and
unless the last refetch failed, both lists are those computed of the wallet as it is. Of
that computation (`Active`) the proof uses nothing. None of these proofs uses an
assumption on the constants.

`KeysDbProofs` proves for every set of entries, values, contents and passwords, and
any number of changes of key:

* `ListedOpensCorrect`: `Spec => []ListedOpens`,
* `FoundUnderItsValuesCorrect`: `Spec => []FoundUnderItsValues`, and
* `ExportIsCompleteCorrect`: `Spec => []ExportIsComplete`.

All three follow from `InvCorrect`, the invariant `DbInv`. What the properties lack to
be inductive is the state between two steps of an update: while a connection is open the
index in memory is the one in the file; `index.work` is what `NewIndex` makes of it; the
work file holds the entry under way with the right key; a change of key has written
every entry that is neither left in `todo` nor in `skipped`, so that once `todo` is
empty what is listed opens with the new key or is known to be left behind; what an
export has sent is no more than what is listed, and all of it, or none under a lock that
was held, when it is done; and the key drawn last is no smaller than any in use, which
makes the new one new. Lemmas say what `Listing` does to the pairs of an index. The
assumptions are `ContentsAssumption` and `KeysAssumption`.

It also proves, from the same assumptions,

* `ImplementsStoreCorrect`: `Spec => ImplementsStore`, that the files implement
  `CredentialStore` under the mapping at the end of `KeysDb`.

Beside `DbInv` it needs `EditHides`: an entry that an edit left without a value to be
found by is not in the index when the edit is done. There is a lemma for each kind of
step: what loads files at most and what writes work files is not seen; taking the lock
is `Ask`; the rename of an edited entry, the unlink of a deleted one and the rename of
the index for an addition, a password or a key are `Apply`; the rename of the index for
an edit is `Hide` or not seen; a failure or a stop in any phase is `Fail`, or `Lose` in
the middle of a change of key; and the release of the lock is `Succeed`. A key that
becomes that of the database may lose what could not be loaded, and the store allows
that; that it changes nothing else rests on `RekeyIsThorough`, that `index.work` of a
rekey becomes readable without hiding or showing anything on `KeysAreOld`.

`PinProtocolProofs` proves from `PinProtocolAssumption` (passwords and PINs are not nil, and
no password is what a wrong key decrypts to)

* `PinInvCorrect`: `Spec => []PinInv`, and from it
* `StoredPairMatchesCorrect`: `Spec => []StoredPairMatches`, and
* `PinOpensThisWalletCorrect`: `Spec => []PinOpensThisWallet`.

Neither property is inductive. That a save stores a pair for the wallet that is open
needs `SaveIsOfOpenWallet` (a page that asks to save is open, and the request dies with
it; the migrated PIN is queued without a page and never answered), that the password it
encrypts is the one of that wallet needs `PageHasPassword`, and that a wallet opened
later is compared with what is stored needs `RecordIsWhole`: the hash is missing or is
the one of the encrypted password, torn or not, and no record outlives its account.
Saves may overlap: `KeysFresh` says that each has a key of its own, which is not that of
the record, so that a record cut off between two of them opens with neither answer, and
every other one opens. `GetIsOfAccount` says that no key is never the right key, so that
no answer unlocks an app that has forgotten its account.

It also proves

* `NeverStrandedCorrect`: `Spec => []NeverStranded`, with `StandInv` on top of `PinInv`.

What shows something is rarely what changes: a PIN screen goes because an answer came,
an alert because it was read, and each time something else must be under it. `StandInv`
says what: a wallet that is open or on its way, a modal, or the alert that the wallet
could not be loaded (`SomethingShown`); that a change screen with a cancel button lies
over one of these (`ChangeIsOver`); and that the unlock screen is there as long as its
answer, or the question what to do without one, is (`UnlockIsShown`).

`PaymentProofs` proves from `PaymentAssumption`, for any sends and imports and any
number of flows, first of `Modals` and then of `Payment`:

* `ModalsAnswerOnce`: `M!Spec => [](ModalsInv /\ QuestionsAnsweredOnce)`, where `M` is
  `Modals` with the sends and imports as askers. The invariant says that the open
  questions are exactly those on the screen or in the chain, each there once; that what
  is in the chain has no close button of its own; and that the shared field has text for
  a second password only while that question is on top.
* `PaymentAnswersOnce`: `Spec => []QuestionsAnsweredOnce`, from the first: what
  `Payment` does with modals are operations of `Modals`, so that nothing about modals is
  proved again for payments.
* `OneTransaction`: `Spec => []OneAtATime`, and
* `QuestionsKept`: `Spec => []QuestionNotLost`, from `PayInv`: the table of pending
  transactions holds what is being signed and that is one, a page that is being replaced
  signs nothing, and a flow that waits for a password has its question on the screen, in
  the chain, or on its way. Sends and imports may be infinite sets; that those begun are
  finite, which a count of them needs, is part of the invariant.

`SendReceiveProofs` proves of `SendAmount`, from `SendAmountAssumption` (positive
numbers, rates and ticks), for any numbers and any rates:

* `FieldsHold`: `Spec => []Fields`, the types, for which every conversion has to give a
  natural number,
* `LabelIsTheAmount`: `Spec => []LabelIsInputAmount`,
* `FormShowsTheAmount`: `Spec => []FormAgrees`, and
* `ConfirmedThenSent`: `Spec => []ConfirmedIsSent`, both under `~BeforeRates`,
* `AmountOutlivesItsDisplay`: `Spec => []BtcAmountKept`, under `~BeforeRates` and
  `~Hurried`.

The two hypotheses leave out the two situations of *Known divergences*, in which the
code breaks these properties; the run makes them as well. `FormInv` relates what the
form shows to the session: number and symbol are in the unit the user chose, a
confirmation shows what the form would send, for an amount with an original in BTC
whatever reloads it, and for a local amount in whole cents as long as the rate is that
of the confirmation (printing what was read gives the same text, `WholeKept`); and the
amount of a link waits only until the first rates. `AmountInv` adds where an amount in
BTC is while the form shows it rounded: in `originalBtcAmount`, which is valid as long
as the text was not edited. Rounding itself is only used through what it returns:
naturals, zero for zero.

`PairingProofs` proves from `PairingAssumption` (names of wallets are not nil, nor those of
the two other pages), for any wallets and any number of accounts:

* `PairInvHolds`: `Spec => []PairInv`, and from it
* `AccountsOnRequest`: `Spec => []AccountsOnlyOnRequest`,
* `PasswordReachesItsWallet`: `Spec => []PasswordForItsWallet`, and
* `ResultsHeard`: `Spec => []ResultsAreHeard`.

`PairInv` says that the page works for the delegate there is and every event on its way
is one this delegate implements (`PageFits`); that a queued command is for the page
there is, unless that is the login page, which takes none (`QueueFits`); that passwords
are of the page that has or gets them (`PasswordsFit`); and that while the view of a new
account is the delegate, the user is at screens without a wallet, from which only its
button loads a page that asks for an account (`CreateFits`).

`KeysIndexProofs` has the lemmas about the operators of `KeysIndex`, and about
sequences, sums and `FlattenSeq`, that have no state in them; `KeysSessionProofs`
extends it.

`KeysSessionProofs` proves from `KeysSessionAssumption` (a zero byte is none of the
other numbers; an entry is a sequence of fields whose values are texts, of characters
and without the bytes that end a value or a key, as `parse_entry` makes them; what is
searched for are characters; an export file holds entries; limits are numbers), for any
entries, values, passwords, files, number of faults and number of pings

* `OkIsTrueCorrect`: `Spec => []OkIsTrue`, from the invariant `SessionInv`;
* `CopyIsCompleteCorrect`: `Spec => []CopyIsComplete`, from `SessionInv` and `CopyInv`;
* `IndexListsTheValuesCorrect`: `Spec => []IndexListsTheValues`, from `SessionInv` and
  `IndexInv`;
* `FindsEveryMatchCorrect`: `Spec => []FindsEveryMatch`, from `FoundInv`, which is these and
  `Started`, `Unharmed`, `SearchInv` and `ShownInv`;
* `EditsWhatWasShownCorrect`: `Spec => []EditsWhatWasShown`, from `FoundInv` as well.

That a status of 0 says that the server did *this* command with *these* values is a
statement about what both streams hold at any moment, also when a message was cut or a
reader is in the middle of one. `Rest` says that what is on the way to the server is a
part of one request, each record by its place in it, and `Understood` that the server is
at that place, of the request of the job or of a search sent before; a key that is
missing makes the server lose its place only towards an end of the connection
(`RestNothing`, `RestAfterKey`). `Whole` counts the records of an import, of which the
size of an entry may never be taken for a message. `Heard` says the same of the other
direction: replies to a search and the records of an export come in pairs, and a client
that waits for an answer has either nothing or the one answer there is (`Told`).
`DoneRight` is what was done: searches, and at most one command after them, which is the
job, with its entry or password, after which the server waits for the next client.
Lemmas say what a reader takes of a stream, whole and in part, and what the pairs of
`FlattenSeq` are, which the replies and exports are built with; each action has a lemma
of its own (`...Keeps`).

That a copy is complete is a statement about an end that neither side counts towards: an
export is over with an end mark and a status, an import with the end of what the client
sends. `ExportInv` says that what is left of an export on its way is the rest of the
listed entries, in their order, and that its status is OK only if all of them were sent.
`ImportInv` counts the records of an import, those read and those on their way: every
size but the last is that of an entry, so that a status OK, which the server gives only
at the end mark, comes after as many entries as were sent; that those are the first of
the file, up to one that cannot be read or a fault, is `SentFirst`. In the file of an
export a short write leaves `Torn` in the place of its entry; a write that fails
otherwise, or a file that could not be made, keeps the client from the status or is told
apart (`Unmade`). `HalfClosed` says that a connection of which only the server's end is
closed is not served. `FlattenLays`, `LaysGrow` and `LaysCover` say where `FlattenSeq`
puts which record; each action again has a lemma (`...Copies`).

That the index lists exactly the values there are is a statement about a computation
over the whole index, at every update: `IndexInv` says that terms are apart (`Apart`: no
two of the same value, no entry twice in one, none empty) and that an entry which no
update failed for is in the term of each value it has and in no other (`Lists`).
`UpdateApart` and `UpdateLists` carry both over an update, good or bad: `UpdateTerms`
says which terms there are afterwards, each an old one with the entry put in, taken out
or left (`WriteTerm`), or a new one. The size that is computed before the new index is
written is compared with the sum of what is written, term by term and by well-founded
induction (`TermsSize`, `TotalSteps`, `UpdateFits`): a term counted as if the entry were
added to it is never shorter than what is written. That what is written is read back as
it is (`IsPart`, `PartsFound`, `ReadsAs`) says where each part starts, by its place and
the lengths of those before it, and that a reader which adds up lengths comes to the
same place. Sums, joins and places are functions on the numbers up to a length, so that
`AllFromFirst`, an induction with a set instead of a predicate, reaches what they
compute.

That a search shows every match relates what the client holds to files that the server
reads one after the other while it answers. `Unharmed` says that without a fault no
entry is damaged and the connection is whole until somebody closes it; `SearchInv` that
the server answers the search of the job, from the hits it had when it began (`Hits`),
and that no file changes before the client has read the end. `ShownInv` is what that
comes to: what is shown is a beginning of `ToShow`, the files of the hits
(`ShownFirst`); the replies on their way are the pairs of the rest of it and one end
(`MatchesLeft`, `LeftOf`), all of it if nothing failed (`FindShown`); and what an edit
replaces is the first of it (`EditShown`). An end of the replies and a connection that
was cut look alike to the client, so that the invariant counts faults where the property
does. That the hits are the entries that contain the text takes `IndexInv`
(`AllHitsAre`: an entry is found once, however many of its values match); that the
replies are read as the pairs they are sent as is `RepliesShow`.

That an edit replaces what was shown is `EditShown`; that the editor has an entry that
can be loaded (`EntriesShown`), so that its text is that of an entry, follows from
`ShownFirst`, as no command has been served before the editor is closed. That the text
is read back as it was printed (`TextReadBack`) is about two recursive computations that
meet nowhere: `LinesPrinted` says that the column of the keys is a number, whatever the
widths, and each field a line (`LineAt`: spaces, key, colon, space, value, end of line);
`ParseReads` that reading goes on one character after the other (`ReadOne`). A word that
begins and ends with no white space and has no colon in it is read whole (`ReadsWord`),
so that a line is one field more (`ReadsLine`), from a reader that has nothing begun to
one that has nothing begun. What has been read at the end is counted against `Slots`, so
that the statement is what the code does for texts of many short fields too.

Each invariance proof has one step per action of `Next`.

Only model-checked: liveness (`QueueIsFlushed`, `NoDeadScreen`, `SendIsReported`,
`BusyEnds`, `NewAddressIsPrompted`, `SessionEnds`) and the fairness `CallChannel` has,
which need `ENABLED`; and the QR encoder, which is recursive operators over data, so
that its statements would need induction over texts and symbols.

## Known divergences

Two have a run (`pin_migrate`, `pay_modal`). The others can be reproduced with a
cfg of a few lines:

* `AnswerIsForThisPage` (`JSBridge`, two loads, one call): a handler that answers after
  its page was replaced answers the call of the same number of the new page,
  because the closure captured only the id (`JSBridgeWebView.m:345`).
* A callback of the page that throws stays in `JSBridge_pendingObjIDs`
  (`bridge.js:193`), and an answer to the same number runs it again; the callbacks of
  `wallet.html:89-94` may throw. `CallbackReturnsOnce` without its `returned` shows it.
* The callback of a queued command that calls `executeJS` changes the array
  `webViewDidFinishLoad:` enumerates (`JSBridgeWebView.m:402`), which raises.
* `NeverRaised` (`JSBridge`, same instance): an error answered while a page loads, or
  a `did_decrypt` delivered then, raises in `executeJSSynchronous`.
* A record whose writes the end of the process cut off is not noticed: `isPINSet` holds
  of it, the user is asked for a PIN, and none opens it until the record is cleared or a
  PIN is saved again (`torn`).
* While a PIN is being saved the user can enter and save another one
  (`PEPinEntryController.m:108-163`); which of the two is stored depends on the order of
  the answers.
* `ChangeNeverUnlocks` (`PinProtocol`): the answer to a PIN typed on the change screen
  is applied to the unlock screen that replaced it in the background.
* `VerifyOnlyIfPinExists` (`PinProtocol`): clearing the PIN under the unlock screen
  leaves an unlock screen without a PIN.
* `TextHasItsUnit` with `BeforeRates = TRUE` (`SendAmount`): an amount typed before the
  first response is read in another currency when the response comes.
* A local amount that was typed to less than a cent is rounded by the reload that
  follows a backup or new rates, also while the confirmation is up
  (`AppDelegate.m:807`): what is sent is then not what was confirmed, which is why
  `ConfirmedIsSent` asks for `exact`.
* `BtcAmountKept` with `Hurried = TRUE` (`SendAmount`): toggling within 0.1 s of an edit
  uses the amount of before the edit.
* With `RunsUntilCommit = TRUE` (`JSBridge`, `ImplementsChannel`): an id read from an old
  document after `usedIDs` was cleared stays in it, and the new page's call of that
  number is taken for one already read.
* `PromptIsForTheNewest` (`ReceiveAddresses`): the comment "newest address is the last
  object in activeKeys" (`ReceiveCoinsViewController.mm:228`) holds only if no reload
  comes before the new key or after a refused second password; such a reload prompts
  for an old address, or for nil when all addresses are archived.
* When a backup and the request for the history after it both fail, the lists show the
  addresses of before and a new address is not prompted for until something else reloads
  (`wallet.html:619-626`; `failed`).
* `EveryAddressHasARow` (`ReceiveAddresses`): with every address archived the only
  section is that of the active ones (`ReceiveCoinsViewController.mm:600`), so that
  none can be taken out of the archive until a new address is generated.
* In `Pairing`, a busy view can stay for ever when the alert of a failed load is up
  over the scanner and the user forgets the wallet while a code is parsed
  (`BusyEnds` says *unless*).
* The private-key question has no close button (`AppDelegate.m:600`). When another
  question takes over the shared view while it is covered, it comes back without its
  view (`holder` of `Modals`): it can neither be answered nor closed until the app closes
  all modals.
* `crypto_scrypt` runs on a global queue and answers the page that asked, whatever page
  is there by then (`Wallet.m:969`); not modelled yet.

The QR encoder:

* The comment on the last part of the penalty speaks of the share of dark modules, the
  code counts light ones (`QR_Encode.cpp:1939-1953`). The penalty is symmetric about one
  half, so that only the rounding differs; `CountPenalty` follows the code.

The keys server. The models follow the code in each of these:

* A search takes an entry once for every value of its that matches (`db.c:170`). An entry
  that matches twice cannot be deleted, because the client takes it for two; `find` shows
  it twice and `edit` says there are more (`keys.c:278`).
* An edit replaces the first match, also when the client was shown a later one because
  the first could not be loaded (`Edit` of `KeysDb` has `i` and `shown`;
  `EditsWhatWasShown` excludes an entry that cannot be loaded).
* `mmfile` opens with `O_CREAT`: to load an entry whose file is gone leaves an empty file
  (`Touched`).
* An entry all of whose fields are named `pass...` is in no term and cannot be found,
  edited, deleted or exported (the content `secret` of `MCKeysDb`).
* A crash leaves `.lock` behind and every later update is refused until someone removes it.
* A change of key that fails or is cut loses the entries already written with the new
  key (`Lose` of `CredentialStore`).
* An export that meets a held lock answers with a status of 0 and no entries, because
  what it returns is decided before it asks for the lock (`export.c:73`). The client takes
  that reply for a size and an entry, and returns 1.
* A change of key passes over every entry it cannot load, for whatever reason, and then
  returns success (`db.c:510`): an entry that could not be mapped just then is lost.
* The export file is truncated before the first entry has come. A short write of the last
  entry counts as written (`export.c:158`), and a file that cannot be made is not noticed
  under a held lock, where the status is all that comes: the client returns 0.
* Neither end has a timeout (`server.c:54`, `server.c:77`, `client.c:109`): a peer that
  is gone without a word blocks it for ever, and a server that is blocked serves nobody
  else.
* `parse_entry` makes room for a field in every eight characters (`db.c:391`): five
  fields of a one-character name and value overrun it.
* `find` returns 0 with a wrong password or a broken connection, having found nothing.
* An export file that is damaged is imported up to the damage, which is reported as a
  success.
* An edit whose connection is lost between the entry and the value searched for may take
  the server down (`Restart`).
* A value with a colon is refused, and an empty value makes the next key the value
  (`db.c:411-414`, `ParseEntry`).
* The option `--timeout` is declared with the letter `T` and looked for as `t`
  (`keys.c:84`, `keys.c:118`), and `client_socket` hands `setsockopt` the address and size
  of the pointer to the timeout (`client.c:109`), which is too short for one: reads have no
  timeout.

## Not modelled

* Web socket, scrypt worker: planned, below.
* Keys certificates (`init.c`, `pki.c`, `crypto.c`): files made once, calls of OpenSSL. The
  models take a connection as private, a signature as made by its key only and a box as
  opened by its key only.
* Of the Receive screen: sharing, request amounts, the layout of rows. Of the keys
  client: the editor and the prompts, whose outcome is an input.
* Address book, merchant map, navigation, transaction list, layout, localisation,
  animations (which are taken as immediate), formatting of dates and strings: no
  protocol of their own.
* `wallet.js`, the wallet, PIN and pairing servers: not in the repository. What the
  page does is modelled by the callbacks `wallet.html` makes.
* Vendored code that only computes or draws: scrypt, NaCl, base64 and SHA-256, the sliding
  menu, reachability, the scanner.

## Plan

In this order, the most important behaviour first:

1. `JSBridge` with `CallChannel`; `PinProtocol`; `Modals` and `Payment`; `SendAmount`;
   `Pairing`; `ReceiveAddresses`; the QR encoder; the keys database and its protocol
   (done).
2. Proofs: the safety invariants of all of these but the encoder, of the protocol of the
   keys server the first, and the safety of three refinements (done).
3. An abstract specification of the PIN (a record that is either absent or opens
   the wallet) that `PinProtocol` implements.
4. The scrypt worker, which answers a page from a queue of its own
   (`Wallet.m:969`); the web socket around requests (`wallet.html:396-450`) with the
   refreshes it causes; the background task of the app.
