--------------------------- MODULE PinProtocolProofs ---------------------------
(***************************************************************************)
(* Proofs about PinProtocol, for any passwords and PINs and any number of  *)
(* saves, password changes and restarts: a PIN that is set opens, and what *)
(* it opens is the wallet that is open.                                    *)
(***************************************************************************)
EXTENDS PinProtocol, TLAPS

\* The records have their fields.
Pages == [html : {"none", "pre", "wallet"}, guid : BOOLEAN,
          stage : {"none", "loading", "loaded", "set", "open", "failed"},
          pw : AnyPassword \cup {None}]
Requests == [key : Nat, pin : PINs \cup {None},
             screen : {"none", "verify", "change"},
             phase : {"none", "queued", "sent", "answered"},
             ans : {"none", "ok", "deleted", "odd", "incorrect", "noSuccess", "noCode"}]
Saves == [key : Nat \ {0}, pin : PINs, phase : {"queued", "sent", "answered"},
          ans : {"none", "ok", "refused"}]
Wallets == [guid : BOOLEAN, password : AnyPassword \cup {None}]
Screens == [shown : BOOLEAN, verifyOnly : BOOLEAN, stage : {"verify", "enter1", "enter2"},
            entry1 : PINs \cup {None}, last : PINs \cup {None}, root : BOOLEAN, busy : BOOLEAN]
Fields ==
    /\ page \in Pages /\ req \in Requests /\ wallet \in Wallets /\ pin \in Screens
    /\ saves \subseteq Saves
    /\ enc \in [pw : AnyPassword \cup {None}, put : Nat]
    /\ pinKey \in Nat /\ puts \in Nat
    /\ actual \in Passwords

\* A process that does not run has no page and no request.
OffIsEmpty == app = "off" => page = NoPage /\ req = NoReq /\ saves = {}

\* A record is of an account, has an encrypted password if it has a key, and
\* its hash is missing or the one of that password.
RecordIsWhole ==
    /\ pinKey # 0 => enc # NoEnc
    /\ enc # NoEnc => enc.pw \in Passwords /\ account /\ partHash \in {None, enc.pw}

\* A wallet that was downloaded has the password Wallet has.
PageHasPassword ==
    page.stage \in {"set", "open"} => page.html = "wallet" /\ page.pw = wallet.password

\* A wallet is opened with its password, and a record of another is gone then.
OpenIsRecorded ==
    page.stage = "open" =>
      /\ page.pw \in Passwords /\ account
      /\ partHash \in {None, page.pw}
      /\ enc # NoEnc => enc.pw = page.pw

\* A save that was sent is of an open wallet; one that is queued has no page.
SaveIsOfOpenWallet ==
    \A save \in saves : page.stage = IF save.phase = "queued" THEN "none" ELSE "open"

\* Each save has a key of its own, which is not the one of the record.
KeysFresh ==
    /\ pinKey <= puts
    /\ \A save \in saves : save.key <= puts /\ save.key # pinKey
    /\ \A save, other \in saves : save.key = other.key => save = other

\* A PIN is asked for under the key of an account; no key is never right.
GetIsOfAccount ==
    /\ req.key # 0 => account
    /\ req.ans \in {"ok", "noSuccess"} => req.key # 0

\* The inductive invariant.
PinInv ==
    /\ Fields
    /\ OffIsEmpty
    /\ RecordIsWhole
    /\ PageHasPassword
    /\ OpenIsRecorded
    /\ SaveIsOfOpenWallet
    /\ GetIsOfAccount
    /\ KeysFresh
    /\ StoredPairMatches

-----------------------------------------------------------------------------
\* Passwords are no nil and no garbage.
LEMMA PasswordsDiffer == None \notin Passwords /\ Garbage \notin Passwords
BY PinProtocolAssumption

\* The records that steps put in the place of others.
LEMMA Records ==
    /\ NoPage \in Pages /\ NoReq \in Requests /\ NoWallet \in Wallets
    /\ NoPage.stage = "none" /\ NoReq.key = 0 /\ NoReq.ans = "none" /\ NoReq.phase = "none"
    /\ \A kind : Screen(kind) \in Screens
    /\ \A key \in Nat \ {0}, p \in PINs, phase \in {"queued", "sent"} :
         /\ PutRequest(key, p, phase) \in Saves
         /\ PutRequest(key, p, phase).key = key /\ PutRequest(key, p, phase).phase = phase
    /\ \A pw \in AnyPassword : [guid |-> TRUE, password |-> pw] \in Wallets
    /\ \A pw \in AnyPassword, w \in Wallets : [w EXCEPT !.password = pw] \in Wallets
BY DEF Pages, Requests, Saves, Wallets, Screens, NoPage, NoReq, NoWallet, Screen, PutRequest

\* What is loaded is a page, and no request is left.
LEMMA LoadPageLoads ==
    ASSUME NEW html \in {"pre", "wallet"}, NEW guid \in BOOLEAN, LoadPage(html, guid)
    PROVE  page' \in Pages /\ page'.stage = "loading" /\ req' = NoReq /\ saves' = {}
BY DEF LoadPage, Pages

\* logout loads the page of no wallet.
LEMMA LogoutLoads ==
    ASSUME logout
    PROVE  /\ page' \in Pages /\ page'.stage = "loading" /\ req' = NoReq /\ saves' = {}
           /\ req' \in Requests /\ wallet' \in Wallets
BY LoadPageLoads, Records DEF logout

\* A wallet is loaded with the password that was entered or decrypted.
LEMMA LoadWalletLoads ==
    ASSUME NEW pw \in AnyPassword, LoadWallet(pw)
    PROVE  /\ page' \in Pages /\ page'.stage = "loading" /\ req' = NoReq /\ saves' = {}
           /\ req' \in Requests /\ wallet' \in Wallets
BY LoadPageLoads, Records DEF LoadWallet

\* A screen that is shown or closed, gets busy or free, or goes on.
LEMMA ScreensChange ==
    ASSUME NEW w \in Screens
    PROVE  /\ \A b \in BOOLEAN : [w EXCEPT !.busy = b] \in Screens
           /\ \A b \in BOOLEAN, c \in BOOLEAN : [w EXCEPT !.shown = b, !.busy = c] \in Screens
           /\ \A p \in PINs \cup {None} : [w EXCEPT !.busy = TRUE, !.last = p] \in Screens
           /\ [w EXCEPT !.stage = "enter1"] \in Screens
           /\ [w EXCEPT !.stage = "enter1", !.root = FALSE] \in Screens
           /\ \A p \in PINs :
                [w EXCEPT !.entry1 = p, !.stage = "enter2", !.root = FALSE] \in Screens
BY DEF Screens

\* The fields of the records.
LEMMA FieldsOf ==
    ASSUME Fields
    PROVE  /\ page.html \in {"none", "pre", "wallet"} /\ page.guid \in BOOLEAN
           /\ wallet.guid \in BOOLEAN /\ wallet.password \in AnyPassword \cup {None}
           /\ pin.last \in PINs \cup {None} /\ pin.verifyOnly \in BOOLEAN /\ pin.shown \in BOOLEAN
BY DEF Fields, Pages, Wallets, Screens

\* A save has the next key, and what was under way stays.
LEMMA SaveIsFresh ==
    ASSUME Fields, KeysFresh, NEW p \in PINs, NEW phase \in {"queued", "sent"},
           savePIN(p, phase), pinKey' = pinKey
    PROVE  /\ saves' \subseteq Saves /\ puts' \in Nat /\ KeysFresh'
           /\ \A save \in saves' : save \in saves \/ save.phase = phase
<1> DEFINE next == puts + 1
           new == PutRequest(next, p, phase)
<1>1. /\ puts \in Nat /\ pinKey \in Nat /\ saves \subseteq Saves
      /\ \A save \in saves : save.key \in Nat
  BY DEF Fields, Saves
<1>2. new \in Saves /\ new.key = puts + 1 /\ new.phase = phase
  <2>1. next \in Nat \ {0} /\ next = puts + 1
    BY <1>1
  <2> HIDE DEF next
  <2>2. new \in Saves /\ new.key = next /\ new.phase = phase
    BY <2>1, Records
  <2> HIDE DEF new
  <2> QED
    BY <2>1, <2>2
<1>3. saves' = saves \cup {new} /\ puts' = puts + 1
  BY DEF savePIN
<1> HIDE DEF new
<1>4. saves' \subseteq Saves /\ puts' \in Nat
  BY <1>1, <1>2, <1>3
<1>5. \A save \in saves' : save \in saves \/ save.phase = phase
  BY <1>2, <1>3
<1>6. KeysFresh'
  <2>1. pinKey' <= puts'
    BY <1>1, <1>3 DEF KeysFresh
  <2>2. ASSUME NEW save \in saves' PROVE save.key <= puts' /\ save.key # pinKey'
    BY <1>1, <1>2, <1>3 DEF KeysFresh
  <2>3. ASSUME NEW save \in saves', NEW other \in saves', save.key = other.key
        PROVE  save = other
    BY <1>1, <1>2, <1>3, <2>3 DEF KeysFresh
  <2> QED
    BY <2>1, <2>2, <2>3 DEF KeysFresh
<1> QED
  BY <1>4, <1>5, <1>6

\* Saves that end leave the others their keys.
LEMMA FewerAreFresh ==
    ASSUME KeysFresh, saves' \subseteq saves, puts' = puts, pinKey' = pinKey \/ pinKey' = 0,
           Fields
    PROVE  saves' \subseteq Saves /\ KeysFresh'
BY DEF KeysFresh, Fields, Saves

\* A first launch, with or without an account of an old version: no record and no page.
LEMMA InitInv == Init => PinInv
<1> SUFFICES ASSUME Init PROVE PinInv
  OBVIOUS
<1>1. Fields
  BY Records, PinProtocolAssumption DEF Init, Fields, NoEnc
<1> QED
  BY <1>1 DEF Init, PinInv, OffIsEmpty, RecordIsWhole, PageHasPassword, OpenIsRecorded,
              SaveIsOfOpenWallet, GetIsOfAccount, KeysFresh, StoredPairMatches, isPINSet,
              NoPage, NoReq, NoEnc
-----------------------------------------------------------------------------
\* A step leaves the record and the account as they are.
RecordKept == UNCHANGED <<account, pinKey, enc, partHash, torn>>

\* A step that leaves page, wallet and record, and answers a request at most.
LEMMA QuietKeeps ==
    ASSUME PinInv, RecordKept, UNCHANGED <<page, wallet, actual, puts>>, app' # "off", app # "off",
           pin' \in Screens, req' \in {req, NoReq}, saves' \subseteq saves
    PROVE  PinInv'
<1>0. saves' \subseteq Saves /\ KeysFresh'
  BY FewerAreFresh DEF PinInv, RecordKept
<1>1. Fields'
  BY <1>0, Records DEF PinInv, Fields, RecordKept
<1> QED
  BY <1>0, <1>1, Records
  DEF PinInv, OffIsEmpty, RecordIsWhole, PageHasPassword, OpenIsRecorded, SaveIsOfOpenWallet,
      GetIsOfAccount, StoredPairMatches, isPINSet, RecordKept

\* A step that loads a page, whose record stays or goes with the account or alone.
LEMMA LoadKeeps ==
    ASSUME PinInv, page' \in Pages, page'.stage = "loading", app' # "off",
           req' \in Requests, saves' = {}, wallet' \in Wallets, pin' \in Screens,
           UNCHANGED <<actual, puts>>,
           \/ RecordKept
           \/ clearPin /\ req' = NoReq,
           \/ req' = NoReq
           \/ req'.key = pinKey /\ req'.ans = "none"
    PROVE  PinInv'
<1>0. saves' \subseteq Saves /\ KeysFresh'
  BY FewerAreFresh DEF PinInv, RecordKept, clearPin
<1>1. Fields'
  BY <1>0 DEF PinInv, Fields, RecordKept, clearPin, NoEnc
<1> QED
  BY <1>0, <1>1, Records
  DEF PinInv, OffIsEmpty, RecordIsWhole, PageHasPassword, OpenIsRecorded, SaveIsOfOpenWallet,
      GetIsOfAccount, StoredPairMatches, isPINSet, RecordKept, clearPin

-----------------------------------------------------------------------------
\* The app goes to the background: the wallet is logged out, if it is open.
LEMMA BackgroundKeeps ==
    ASSUME PinInv, EnterBackground, app = "active"
    PROVE  PinInv'
<1>1. pin' \in Screens
  <2>1. CASE isPINSet
    <3>1. pin \in Screens
      BY DEF PinInv, Fields
    <3>2. pin' = [pin EXCEPT !.busy = FALSE] \/ pin' = Screen("verify")
      BY <2>1 DEF EnterBackground, Present
    <3>3. [pin EXCEPT !.busy = FALSE] \in Screens
      BY <3>1, ScreensChange
    <3>4. Screen("verify") \in Screens
      BY Records
    <3> QED
      BY <3>2, <3>3, <3>4
  <2>2. CASE ~ isPINSet
    <3> DEFINE shown == pin.shown /\ pin.verifyOnly
    <3>1. shown \in BOOLEAN /\ (shown /\ pin.busy) \in BOOLEAN
      OBVIOUS
    <3>2. pin' = [pin EXCEPT !.shown = shown, !.busy = shown /\ pin.busy]
      BY <2>2 DEF EnterBackground
    <3> HIDE DEF shown
    <3> QED
      BY <3>1, <3>2, ScreensChange DEF PinInv, Fields
  <2> QED
    BY <2>1, <2>2
<1>2. RecordKept /\ app' = "background" /\ UNCHANGED <<actual, puts>>
  BY DEF EnterBackground, saved, record, world, RecordKept
<1>3. CASE isInitialized
  <2>1. logout
    BY <1>3 DEF EnterBackground
  <2> QED
    BY <1>1, <1>2, <2>1, LogoutLoads, LoadKeeps
<1>4. CASE ~ isInitialized
  <2>1. UNCHANGED <<page, wallet, req, saves>>
    BY <1>4 DEF EnterBackground, requests
  <2> QED
    BY <1>1, <1>2, <2>1, QuietKeeps
<1> QED
  BY <1>3, <1>4

\* The process.
LEMMA ProcessKeeps ==
    ASSUME PinInv, Process
    PROVE  PinInv'
<1>1. CASE Launch
  <2>1. page = NoPage /\ req = NoReq /\ saves = {} /\ page' = page /\ req' = req /\ pinKey' = pinKey
    BY <1>1 DEF Launch, record, PinInv, OffIsEmpty
  <2>2. /\ saves' \subseteq Saves /\ puts' \in Nat /\ KeysFresh'
        /\ \A save \in saves' : save.phase = "queued"
    <3>1. CASE \E p \in PINs : savePIN(p, "queued")
      BY <2>1, <3>1, SaveIsFresh DEF PinInv
    <3>2. CASE UNCHANGED <<saves, puts>>
      BY <2>1, <3>2, FewerAreFresh DEF PinInv, Fields
    <3> QED
      BY <1>1, <3>1, <3>2 DEF Launch
  <2>3. Fields'
    <3>1. pin' \in Screens
      BY <1>1, Records DEF Launch, Present, PinInv, Fields
    <3>2. wallet' \in Wallets
      BY <1>1, Records DEF Launch, PinInv, Fields, AnyPassword
    <3> QED
      BY <1>1, <2>1, <2>2, <3>1, <3>2 DEF Launch, record, world, PinInv, Fields
  <2> QED
    BY <1>1, <2>1, <2>2, <2>3
    DEF Launch, record, PinInv, OffIsEmpty, RecordIsWhole, PageHasPassword, OpenIsRecorded,
        SaveIsOfOpenWallet, GetIsOfAccount, StoredPairMatches, isPINSet, NoReq, NoPage
<1>2. CASE Kill
  <2>0. saves' \subseteq Saves /\ KeysFresh'
    BY <1>2, FewerAreFresh DEF Kill, Forgotten, saved, record, PinInv
  <2>1. Fields'
    BY <1>2, <2>0, Records DEF Kill, Forgotten, saved, world, record, PinInv, Fields
  <2> QED
    BY <1>2, <2>0, <2>1
    DEF Kill, Forgotten, saved, world, record, NoPage, NoReq, PinInv, OffIsEmpty, RecordIsWhole,
        PageHasPassword, OpenIsRecorded, SaveIsOfOpenWallet, GetIsOfAccount, StoredPairMatches, isPINSet
<1>3. CASE DieWhileStoring
  <2>1. PICK save \in saves :
          /\ save.phase = "answered"
          /\ enc' = [pw |-> wallet.password, put |-> save.key]
    BY <1>3 DEF DieWhileStoring
  <2>2. page.stage = "open" /\ wallet.password = page.pw
    BY <2>1 DEF PinInv, SaveIsOfOpenWallet, PageHasPassword
  <2>3. save.key \in Nat /\ save.key # pinKey
    BY DEF PinInv, Fields, KeysFresh, Saves
  <2>4. /\ pinKey' = pinKey /\ torn' = TRUE /\ UNCHANGED <<account, puts, actual>> /\ app' = "off"
        /\ saves' = {} /\ partHash' \in {partHash, wallet.password} /\ Forgotten
    BY <1>3 DEF DieWhileStoring, Forgotten, world
  <2>5. saves' \subseteq Saves /\ KeysFresh'
    BY <2>4, FewerAreFresh DEF PinInv
  <2>6. Fields'
    BY <2>1, <2>3, <2>4, <2>5, Records, FieldsOf DEF Forgotten, PinInv, Fields
  <2>7. /\ enc'.pw = page.pw /\ enc'.put = save.key /\ enc' # NoEnc
        /\ partHash' \in {None, page.pw} /\ page.pw \in Passwords /\ account
    BY <2>1, <2>2, <2>4, PasswordsDiffer DEF PinInv, OpenIsRecorded, NoEnc
  <2> QED
    BY <2>3, <2>4, <2>5, <2>6, <2>7
    DEF Forgotten, NoPage, NoReq, PinInv, OffIsEmpty, RecordIsWhole, PageHasPassword,
        OpenIsRecorded, SaveIsOfOpenWallet, GetIsOfAccount, StoredPairMatches, isPINSet
<1>4. CASE Background
  BY <1>4, BackgroundKeeps DEF Background
<1>5. CASE Foreground
  BY <1>5, QuietKeeps DEF Foreground, saved, world, record, requests, RecordKept, PinInv, Fields
<1> QED
  BY <1>1, <1>2, <1>3, <1>4, <1>5 DEF Process
-----------------------------------------------------------------------------
\* The page loads, gets its wallet and its password, or fails to.
LEMMA LoadingKeeps ==
    ASSUME PinInv, PageLoads \/ DidSetGuid \/ DidFailSetGuid \/ DidFailToDecrypt
    PROVE  PinInv'
<1>1. page \in Pages /\ req \in Requests /\ wallet.password \in AnyPassword \cup {None}
  BY FieldsOf DEF PinInv, Fields
<1>2. RecordKept /\ UNCHANGED <<wallet, actual, puts, pin, saves>> /\ app # "off" /\ app' = app
  BY DEF PageLoads, DidSetGuid, DidFailSetGuid, DidFailToDecrypt, PageRuns, saved, world, record,
         requests, RecordKept
<1>3. /\ page' \in Pages
      /\ page'.stage \in {"loaded", "set", "failed"}
      /\ page'.stage = "set" => page'.html = "wallet" /\ page'.pw = wallet.password
  <2>1. \/ page' = [page EXCEPT !.stage = "loaded"]
        \/ page' = [page EXCEPT !.stage = "failed"]
        \/ page.html = "wallet" /\ page' = [page EXCEPT !.stage = "set", !.pw = wallet.password]
    <3>1. CASE PageLoads
      BY <3>1 DEF PageLoads
    <3>2. CASE DidSetGuid
      BY <3>2 DEF DidSetGuid
    <3>3. CASE DidFailSetGuid
      BY <3>3 DEF DidFailSetGuid
    <3>4. CASE DidFailToDecrypt
      BY <3>4 DEF DidFailToDecrypt
    <3> QED
      BY <3>1, <3>2, <3>3, <3>4
  <2>2. CASE page' = [page EXCEPT !.stage = "loaded"] \/ page' = [page EXCEPT !.stage = "failed"]
    BY <1>1, <2>2 DEF Pages
  <2>3. CASE page.html = "wallet" /\ page' = [page EXCEPT !.stage = "set", !.pw = wallet.password]
    BY <1>1, <2>3 DEF Pages
  <2> QED
    BY <2>1, <2>2, <2>3
<1>4. /\ req' \in Requests /\ req'.key = req.key /\ req'.ans = req.ans
      /\ saves = {}
  <2>1. page.stage \in {"loading", "loaded", "set"}
    BY DEF PageLoads, DidSetGuid, DidFailSetGuid, DidFailToDecrypt
  <2>2. saves = {}
    BY <2>1 DEF PinInv, SaveIsOfOpenWallet
  <2>3. req' = req \/ req' = [req EXCEPT !.phase = "sent"]
    BY DEF PageLoads, DidSetGuid, DidFailSetGuid, DidFailToDecrypt, requests
  <2> QED
    BY <1>1, <2>2, <2>3 DEF Requests
<1>5. Fields' /\ KeysFresh'
  BY <1>2, <1>3, <1>4 DEF PinInv, Fields, RecordKept, KeysFresh
<1> QED
  BY <1>2, <1>3, <1>4, <1>5
  DEF PinInv, OffIsEmpty, RecordIsWhole, PageHasPassword, OpenIsRecorded, SaveIsOfOpenWallet,
      GetIsOfAccount, StoredPairMatches, isPINSet, RecordKept

\* The wallet opens: a record of another password goes.
LEMMA DecryptKeeps ==
    ASSUME PinInv, DidDecrypt
    PROVE  PinInv'
<1>1. /\ page' = [page EXCEPT !.stage = "open"] /\ page.stage = "set" /\ page.pw = actual
      /\ account' /\ app # "off" /\ app' = app
      /\ (PasswordChanged /\ clearPin) \/ (~ PasswordChanged /\ UNCHANGED record)
      /\ UNCHANGED <<wallet, req, saves, actual, puts>>
  <2>1. page' = [page EXCEPT !.stage = "open"] /\ page.stage = "set" /\ page.pw = actual
    BY DEF DidDecrypt
  <2>2. account' /\ app # "off" /\ app' = app
    BY DEF DidDecrypt, PageRuns
  <2>3. (PasswordChanged /\ clearPin) \/ (~ PasswordChanged /\ UNCHANGED record)
    BY DEF DidDecrypt
  <2>4. UNCHANGED <<wallet, req, saves, actual, puts>>
    BY DEF DidDecrypt, requests, world
  <2> QED
    BY <2>1, <2>2, <2>3, <2>4
<1>2. page.html = "wallet" /\ page.pw = wallet.password /\ page.pw \in Passwords /\ page \in Pages
  BY <1>1 DEF PinInv, PageHasPassword, Fields
<1>3. page' \in Pages /\ page'.stage = "open" /\ page'.html = page.html /\ page'.pw = page.pw
  BY <1>1, <1>2 DEF Pages
<1>4. Fields'
  <2>1. pin' \in Screens
    <3>1. Present("create") \/ pin' = pin
      BY DEF DidDecrypt
    <3> QED
      BY <3>1, Records DEF Present, PinInv, Fields
  <2> QED
    BY <1>1, <1>3, <2>1 DEF PinInv, Fields, clearPin, record, NoEnc
<1>5. RecordIsWhole' /\ OpenIsRecorded' /\ StoredPairMatches'
  <2>1. CASE PasswordChanged /\ clearPin
    BY <1>1, <1>2, <1>3, <2>1
    DEF clearPin, RecordIsWhole, OpenIsRecorded, StoredPairMatches, isPINSet
  <2>2. CASE ~ PasswordChanged /\ UNCHANGED record
    <3>1. wallet.password # None /\ partHash = wallet.password
      BY <2>2 DEF PasswordChanged
    <3>2. enc # NoEnc => enc.pw = page.pw
      BY <1>2, <3>1 DEF PinInv, RecordIsWhole
    <3> QED
      BY <1>1, <1>2, <1>3, <2>2, <3>1, <3>2
      DEF record, PinInv, RecordIsWhole, OpenIsRecorded, StoredPairMatches, isPINSet
  <2> QED
    BY <1>1, <2>1, <2>2
<1>6. saves = {} /\ KeysFresh'
  <2>1. saves = {}
    BY <1>1 DEF PinInv, SaveIsOfOpenWallet
  <2>2. pinKey' = pinKey \/ pinKey' = 0
    BY <1>1 DEF clearPin, record
  <2> QED
    BY <1>1, <2>1, <2>2, FewerAreFresh DEF PinInv
<1> QED
  BY <1>1, <1>2, <1>3, <1>4, <1>5, <1>6
  DEF PinInv, OffIsEmpty, PageHasPassword, SaveIsOfOpenWallet, GetIsOfAccount

-----------------------------------------------------------------------------
\* The server and the owner.
LEMMA OtherKeeps ==
    ASSUME PinInv, Other
    PROVE  PinInv'
<1>1. ASSUME ServeGet PROVE PinInv'
  <2>1. /\ RecordKept /\ UNCHANGED <<page, wallet, pin, actual, puts, saves>> /\ app # "off"
        /\ app' = app /\ req.phase = "sent"
    BY <1>1 DEF ServeGet, PageRuns, saved, world, record, RecordKept
  <2>2. /\ req' \in Requests /\ req'.key = req.key
        /\ req'.ans \in GetAnswers(req.key, req.pin)
    BY <1>1 DEF ServeGet, GetAnswers, PinInv, Fields, Requests
  <2>3. req'.ans \in {"ok", "noSuccess"} => req.key # 0
    BY <2>2 DEF GetAnswers
  <2>4. Fields' /\ KeysFresh'
    BY <2>1, <2>2 DEF PinInv, Fields, RecordKept, KeysFresh
  <2> QED
    BY <2>1, <2>2, <2>3, <2>4
    DEF PinInv, OffIsEmpty, RecordIsWhole, PageHasPassword, OpenIsRecorded, SaveIsOfOpenWallet,
        GetIsOfAccount, StoredPairMatches, isPINSet, RecordKept
<1>3. ASSUME ServePut PROVE PinInv'
  <2>1. /\ RecordKept /\ UNCHANGED <<page, wallet, pin, actual, puts, req>> /\ app # "off"
        /\ app' = app
    BY <1>3 DEF ServePut, PageRuns, saved, world, record, RecordKept
  <2>2. PICK save \in saves, a \in {"ok", "refused"} :
          save.phase = "sent" /\ saves' = Answered(save, a)
    BY <1>3 DEF ServePut
  <2> DEFINE new == [save EXCEPT !.phase = "answered", !.ans = a]
  <2>3. saves' = (saves \ {save}) \cup {new} /\ saves \subseteq Saves /\ save \in Saves
    BY <2>2 DEF Answered, PinInv, Fields
  <2>4. new \in Saves /\ new.key = save.key /\ new.phase = "answered"
    BY <2>3 DEF Saves
  <2> HIDE DEF new
  <2>5. saves' \subseteq Saves
    BY <2>3, <2>4
  <2>6. KeysFresh'
    BY <2>1, <2>3, <2>4 DEF PinInv, KeysFresh, RecordKept
  <2>7. SaveIsOfOpenWallet'
    BY <2>1, <2>2, <2>3, <2>4 DEF PinInv, SaveIsOfOpenWallet
  <2>8. Fields'
    BY <2>1, <2>5 DEF PinInv, Fields, RecordKept
  <2> QED
    BY <2>1, <2>6, <2>7, <2>8
    DEF PinInv, OffIsEmpty, RecordIsWhole, PageHasPassword, OpenIsRecorded, GetIsOfAccount,
        StoredPairMatches, isPINSet, RecordKept
<1>2. ASSUME ServerForgets \/ ChangePasswordElsewhere PROVE PinInv'
  <2>1. /\ RecordKept /\ UNCHANGED <<page, wallet, pin, puts, app, req, saves>>
        /\ actual' \in Passwords
    BY <1>2 DEF ServerForgets, ChangePasswordElsewhere, saved, world, record, requests, RecordKept,
                PinInv, Fields
  <2>2. Fields' /\ KeysFresh'
    BY <2>1 DEF PinInv, Fields, RecordKept, KeysFresh
  <2> QED
    BY <2>1, <2>2
    DEF PinInv, OffIsEmpty, RecordIsWhole, PageHasPassword, OpenIsRecorded, SaveIsOfOpenWallet,
        GetIsOfAccount, StoredPairMatches, isPINSet, RecordKept
<1> QED
  BY <1>1, <1>2, <1>3 DEF Other
-----------------------------------------------------------------------------
\* The user, away from the PIN screens and at the alerts.
LEMMA AwayKeeps ==
    ASSUME PinInv,
           \/ LogOut \/ Forget \/ CloseApp \/ ChangePIN \/ CancelChange
           \/ DismissError \/ AskPassword
           \/ \E pw \in Passwords : EnterPassword(pw) \/ Pair(pw)
    PROVE  PinInv'
<1>1. pin \in Screens
  BY DEF PinInv, Fields
<1>2. CASE LogOut \/ Forget
  <2>1. clearPin /\ logout /\ pin' = pin /\ app' # "off" /\ UNCHANGED <<actual, puts>>
    BY <1>2 DEF LogOut, Forget, AtHome, world
  <2> QED
    BY <1>1, <2>1, LogoutLoads, LoadKeeps
<1>3. CASE CloseApp
  BY <1>3, BackgroundKeeps DEF CloseApp
<1>4. CASE ChangePIN
  BY <1>4, Records, QuietKeeps DEF ChangePIN, AtHome, Present, saved, world, record, requests, RecordKept
<1>5. CASE CancelChange \/ DismissError \/ AskPassword
  <2>1. /\ RecordKept /\ UNCHANGED <<page, wallet, actual, puts, req, saves>> /\ app = "active"
        /\ app' = app
        /\ closePINModal \/ pin' = [pin EXCEPT !.busy = FALSE]
    BY <1>5 DEF CancelChange, DismissError, AskPassword, saved, world, record, requests, RecordKept
  <2>2. pin' \in Screens
    BY <1>1, <2>1, ScreensChange DEF closePINModal
  <2> QED
    BY <2>1, <2>2, QuietKeeps
<1>6. ASSUME NEW pw \in Passwords, EnterPassword(pw) \/ Pair(pw) PROVE PinInv'
  <2>1. LoadWallet(pw) /\ RecordKept /\ UNCHANGED <<pin, actual, puts>> /\ app' # "off"
    BY <1>6 DEF EnterPassword, Pair, saved, world, record, RecordKept
  <2> QED
    BY <1>1, <2>1, LoadWalletLoads, LoadKeeps DEF AnyPassword
<1> QED
  BY <1>2, <1>3, <1>4, <1>5, <1>6

\* A PIN is sent to be verified: the page that asks is loaded.
LEMMA AskingKeeps ==
    ASSUME PinInv, NEW p \in PINs \cup {None}, NEW cb, shouldAcceptPin(p, cb), RecordKept,
           UNCHANGED <<wallet, actual, puts>>, app = "active", app' = app
    PROVE  PinInv'
<1>1. pin' \in Screens
  <2>1. pin' = [pin EXCEPT !.busy = TRUE, !.last = p]
    BY DEF shouldAcceptPin
  <2> QED
    BY <2>1, ScreensChange DEF PinInv, Fields
<1>2. CASE UNCHANGED <<page, requests>>
  BY <1>1, <1>2, QuietKeeps DEF requests
<1>3. CASE page' = PinPage(~pin.verifyOnly) /\ req' = GetRequest(p) /\ saves' = {}
  <2>1. page' \in Pages /\ page'.stage = "loading"
    BY <1>3, FieldsOf DEF PinPage, Pages, PinInv
  <2>2. req' \in Requests /\ req'.key = pinKey /\ req'.ans = "none"
    BY <1>3, FieldsOf DEF GetRequest, Requests, PinInv, Fields
  <2>3. wallet' \in Wallets /\ app' # "off"
    BY DEF PinInv, Fields
  <2> QED
    BY <1>1, <1>3, <2>1, <2>2, <2>3, LoadKeeps
<1> QED
  BY <1>2, <1>3 DEF shouldAcceptPin

\* The user at a PIN screen.
LEMMA TypingKeeps ==
    ASSUME PinInv,
           \/ AskRetry
           \/ \E p \in PINs : EnterVerify(p) \/ EnterFirst(p) \/ EnterSecond(p)
    PROVE  PinInv'
<1>1. pin \in Screens
  BY DEF PinInv, Fields
<1>2. CASE AskRetry
  <2>1. /\ shouldAcceptPin(pin.last, callback) /\ RecordKept /\ UNCHANGED <<wallet, actual, puts>>
        /\ app = "active" /\ app' = app
    BY <1>2 DEF AskRetry, saved, world, record, RecordKept
  <2> QED
    BY <2>1, FieldsOf, AskingKeeps DEF PinInv
<1>3. ASSUME NEW p \in PINs, EnterVerify(p) PROVE PinInv'
  <2>1. /\ shouldAcceptPin(p, "current") /\ RecordKept /\ UNCHANGED <<wallet, actual, puts>>
        /\ app = "active" /\ app' = app
    BY <1>3 DEF EnterVerify, CanType, saved, world, record, RecordKept
  <2> QED
    BY <2>1, AskingKeeps
<1>4. ASSUME NEW p \in PINs, EnterFirst(p) PROVE PinInv'
  <2>1. /\ RecordKept /\ UNCHANGED <<page, wallet, actual, puts, req, saves>> /\ app = "active"
        /\ app' = app
        /\ pin' = [pin EXCEPT !.entry1 = p, !.stage = "enter2", !.root = FALSE]
    BY <1>4 DEF EnterFirst, CanType, saved, world, record, requests, RecordKept
  <2>2. [pin EXCEPT !.entry1 = p, !.stage = "enter2", !.root = FALSE] \in Screens
    BY <1>1, ScreensChange
  <2>3. pin' \in Screens
    BY <2>1, <2>2
  <2> QED
    BY <2>1, <2>3, QuietKeeps
<1>5. ASSUME NEW p \in PINs, EnterSecond(p) PROVE PinInv'
  <2>1. RecordKept /\ UNCHANGED <<page, wallet, actual, req>> /\ app = "active" /\ app' = app
    BY <1>5 DEF EnterSecond, CanType, saved, world, record, RecordKept
  <2>2. CASE UNCHANGED <<saves, puts>> /\ (pin' = [pin EXCEPT !.stage = "enter1"] \/ didFailPutPin)
    <3>1. pin' = [pin EXCEPT !.stage = "enter1"] \/ pin' = Screen("create")
      BY <2>2 DEF didFailPutPin, Present
    <3>2. [pin EXCEPT !.stage = "enter1"] \in Screens /\ Screen("create") \in Screens
      BY <1>1, Records, ScreensChange
    <3>3. pin' \in Screens
      BY <3>1, <3>2
    <3> QED
      BY <2>1, <2>2, <3>3, QuietKeeps
  <2>3. CASE isInitialized /\ savePIN(p, "sent") /\ pin' = [pin EXCEPT !.busy = TRUE]
    <3>1. pin' \in Screens
      BY <1>1, <2>3, ScreensChange
    <3>2. /\ saves' \subseteq Saves /\ puts' \in Nat /\ KeysFresh'
          /\ \A save \in saves' : save \in saves \/ save.phase = "sent"
      BY <2>1, <2>3, SaveIsFresh DEF PinInv, RecordKept
    <3>3. page.stage = "open"
      BY <2>3 DEF isInitialized
    <3>4. Fields'
      BY <2>1, <3>1, <3>2 DEF RecordKept, PinInv, Fields
    <3>5. SaveIsOfOpenWallet'
      BY <2>1, <3>2, <3>3 DEF PinInv, SaveIsOfOpenWallet
    <3> QED
      BY <2>1, <3>2, <3>4, <3>5
      DEF PinInv, OffIsEmpty, RecordIsWhole, PageHasPassword, OpenIsRecorded,
          GetIsOfAccount, StoredPairMatches, isPINSet, RecordKept
  <2> QED
    BY <1>5, <2>2, <2>3 DEF EnterSecond
<1> QED
  BY <1>2, <1>3, <1>4, <1>5

-----------------------------------------------------------------------------
\* The screen is free again, or closed.
LEMMA IdleIsScreen ==
    ASSUME PinInv
    PROVE  /\ pin \in Screens /\ Idle \in Screens
           /\ [Idle EXCEPT !.stage = "enter1", !.root = FALSE] \in Screens
           /\ [Idle EXCEPT !.shown = FALSE] \in Screens
           /\ [pin EXCEPT !.shown = FALSE, !.busy = FALSE] \in Screens
<1>1. pin \in Screens
  BY DEF PinInv, Fields
<1>2. Idle \in Screens
  BY <1>1, ScreensChange DEF Idle
<1>3. [Idle EXCEPT !.stage = "enter1", !.root = FALSE] \in Screens
  BY <1>2, ScreensChange
<1>4. [Idle EXCEPT !.shown = FALSE] \in Screens
  BY <1>2 DEF Screens
<1>5. [pin EXCEPT !.shown = FALSE, !.busy = FALSE] \in Screens
  BY <1>1, ScreensChange
<1> QED
  BY <1>1, <1>2, <1>3, <1>4, <1>5

\* The right PIN: the wallet of the account is loaded, or the user is asked.
LEMMA UnlockKeeps ==
    ASSUME PinInv, Unlock, RecordKept, UNCHANGED <<actual, puts>>, app # "off", app' = app,
           req.ans \in {"ok", "noSuccess"}
    PROVE  PinInv'
<1>1. account
  BY DEF PinInv, GetIsOfAccount
<1>2. CASE pin' = Idle /\ req' = NoReq /\ UNCHANGED <<wallet, page, saves>>
  BY <1>2, IdleIsScreen, QuietKeeps
<1>3. ASSUME NEW pw \in Decrypted(req.key) \ {None}, LoadWallet(pw), closePINModal
      PROVE  PinInv'
  <2>1. pw \in AnyPassword
    BY <1>3 DEF Decrypted, AnyPassword, PinInv, RecordIsWhole
  <2>2. pin' \in Screens
    BY <1>3, IdleIsScreen DEF closePINModal
  <2> QED
    BY <1>3, <2>1, <2>2, LoadWalletLoads, LoadKeeps
<1> QED
  BY <1>1, <1>2, <1>3 DEF Unlock

\* The server answers a PIN: the wallet is unlocked, the PIN is wrong or it is deleted.
LEMMA GetAnswerKeeps ==
    ASSUME PinInv, DidGetPinSuccess
    PROVE  PinInv'
<1>1. app # "off" /\ app' = app /\ UNCHANGED <<actual, puts, account>>
  BY DEF DidGetPinSuccess, PageRuns, world
<1>2. CASE PinDeleted /\ req' = NoReq /\ UNCHANGED <<wallet, page, saves>>
  <2>1. clearPin /\ pin' \in Screens
    BY <1>2, IdleIsScreen DEF PinDeleted
  <2>0. saves' \subseteq Saves /\ KeysFresh'
    BY <1>1, <1>2, <2>1, FewerAreFresh DEF PinInv, clearPin
  <2>2. Fields'
    BY <1>1, <1>2, <2>0, <2>1, Records DEF PinInv, Fields, clearPin, NoEnc
  <2> QED
    BY <1>1, <1>2, <2>0, <2>1, <2>2, Records
    DEF PinInv, OffIsEmpty, RecordIsWhole, PageHasPassword, OpenIsRecorded, SaveIsOfOpenWallet,
        GetIsOfAccount, StoredPairMatches, isPINSet, clearPin
<1>3. CASE pin' = Idle /\ req' = NoReq /\ UNCHANGED <<wallet, page, saves, record>>
  BY <1>1, <1>3, IdleIsScreen, QuietKeeps DEF record, RecordKept
<1>4. CASE GoOn /\ UNCHANGED record
  <2>1. pin' \in Screens /\ req' = NoReq /\ UNCHANGED <<wallet, page, saves>>
    BY <1>4, IdleIsScreen DEF GoOn
  <2> QED
    BY <1>1, <1>4, <2>1, QuietKeeps DEF record, RecordKept
<1>5. CASE Unlock /\ UNCHANGED record /\ req.ans \in {"ok", "noSuccess"}
  BY <1>1, <1>5, UnlockKeeps DEF record, RecordKept
<1> QED
  BY <1>2, <1>3, <1>4, <1>5 DEF DidGetPinSuccess

\* A PIN was saved: the record is of the wallet that is open.
LEMMA PutAnswerKeeps ==
    ASSUME PinInv, DidPutPinSuccess
    PROVE  PinInv'
<1>1. PICK save \in saves :
        /\ save.phase = "answered"
        /\ saves' = saves \ {save}
        /\ \/ didFailPutPin /\ UNCHANGED record
           \/ StoreRecord(wallet.password, save.key) /\ closePINModal
  BY DEF DidPutPinSuccess
<1>2. /\ app # "off" /\ app' = app /\ UNCHANGED <<actual, puts, account, wallet, page, req>>
      /\ page.stage = "open" /\ page.pw = wallet.password /\ page.pw \in Passwords /\ account
  BY <1>1 DEF DidPutPinSuccess, PageRuns, world, PinInv, SaveIsOfOpenWallet, PageHasPassword,
              OpenIsRecorded
<1>3. CASE didFailPutPin /\ UNCHANGED record
  <2>1. pin' \in Screens
    BY <1>3, Records DEF didFailPutPin, Present
  <2> QED
    BY <1>1, <1>2, <1>3, <2>1, QuietKeeps DEF record, RecordKept
<1>4. CASE StoreRecord(wallet.password, save.key) /\ closePINModal
  <2>1. pin' \in Screens /\ save \in Saves /\ save.key \in Nat
    BY <1>4, IdleIsScreen DEF closePINModal, PinInv, Fields, Saves
  <2>2. /\ enc' = [pw |-> page.pw, put |-> save.key] /\ pinKey' = save.key /\ partHash' = page.pw
        /\ torn' = FALSE
    BY <1>2, <1>4 DEF StoreRecord
  <2>3. Fields'
    BY <1>1, <1>2, <2>1, <2>2, Records DEF PinInv, Fields, AnyPassword
  <2>4. RecordIsWhole' /\ OpenIsRecorded' /\ StoredPairMatches'
    BY <1>2, <2>2, PasswordsDiffer DEF RecordIsWhole, OpenIsRecorded, StoredPairMatches, isPINSet, NoEnc
  <2>5. KeysFresh'
    BY <1>1, <1>2, <2>1, <2>2 DEF PinInv, Fields, KeysFresh
  <2> QED
    BY <1>1, <1>2, <2>3, <2>4, <2>5
    DEF PinInv, OffIsEmpty, PageHasPassword, SaveIsOfOpenWallet, GetIsOfAccount
<1> QED
  BY <1>1, <1>3, <1>4

\* A request fails: record and page stay.
LEMMA FailureKeeps ==
    ASSUME PinInv, DidFailGetPin \/ DidFailPutPin
    PROVE  PinInv'
<1>1. /\ RecordKept /\ UNCHANGED <<page, wallet, actual, puts>> /\ app # "off" /\ app' = app
      /\ req' \in {req, NoReq} /\ saves' \subseteq saves
  BY DEF DidFailGetPin, DidFailPutPin, PageRuns, saved, world, record, RecordKept
<1>2. pin' \in {pin, Idle} \/ \E kind : pin' = Screen(kind)
  BY DEF DidFailGetPin, DidFailPutPin, FailsWithReason, FailsWithMessage, didFailPutPin, Present
<1> QED
  BY <1>1, <1>2, IdleIsScreen, Records, QuietKeeps

-----------------------------------------------------------------------------
\* Every step preserves the invariant.
LEMMA StepInv == PinInv /\ [Next]_vars => PinInv'
<1> SUFFICES ASSUME PinInv, [Next]_vars PROVE PinInv'
  OBVIOUS
<1>1. CASE UNCHANGED vars
  BY <1>1
  DEF vars, PinInv, Fields, OffIsEmpty, RecordIsWhole, PageHasPassword, OpenIsRecorded,
      SaveIsOfOpenWallet, GetIsOfAccount, KeysFresh, StoredPairMatches, isPINSet
<1>2. CASE Process
  BY <1>2, ProcessKeeps
<1>3. CASE Page
  BY <1>3, LoadingKeeps, DecryptKeeps DEF Page
<1>4. CASE GetAnswer \/ PutAnswer
  BY <1>4, GetAnswerKeeps, PutAnswerKeeps, FailureKeeps DEF GetAnswer, PutAnswer
<1>5. CASE Other
  BY <1>5, OtherKeeps
<1>6. CASE User
  BY <1>6, AwayKeeps, TypingKeeps DEF User
<1> QED
  BY <1>1, <1>2, <1>3, <1>4, <1>5, <1>6 DEF Next

\* For any passwords, PINs and numbers of saves, password changes and restarts,
\* every state of the app and its record satisfies the inductive invariant.
THEOREM PinInvCorrect == Spec => []PinInv
<1> QED
  BY InitInv, StepInv, PTL DEF Spec

(* Each save has a key and value of its own, and didPutPinSuccess stores the  *)
(* key with the password encrypted under its value, also when saves overlap   *)
(* and are answered in another order: a PIN that is set opens, unless the     *)
(* process died between the writes, and then it opens nothing.                *)
THEOREM StoredPairMatchesCorrect == Spec => []StoredPairMatches
<1>1. PinInv => StoredPairMatches
  BY DEF PinInv
<1> QED
  BY <1>1, PinInvCorrect, PTL

(* walletDidDecrypt clears a PIN of another password, only an open wallet's   *)
(* password is stored by didPutPinSuccess, and didGetPinSuccess changes it    *)
(* only by loading another page: what the PIN opens is the wallet that is     *)
(* open, of an account that is saved.                                         *)
THEOREM PinOpensThisWalletCorrect == Spec => []PinOpensThisWallet
<1>1. PinInv => PinOpensThisWallet
  BY PasswordsDiffer DEF PinInv, RecordIsWhole, OpenIsRecorded, PinOpensThisWallet, isPINSet, isInitialized
<1> QED
  BY <1>1, PinInvCorrect, PTL

-----------------------------------------------------------------------------
(***************************************************************************)
(* The active app always shows something to go on with.                    *)
(***************************************************************************)

\* The page has a guid only while Wallet has one, and a wallet is downloaded by it.
PageOfWallet ==
    /\ page.guid => wallet.guid
    /\ page.stage \in {"set", "open"} => page.guid

\* What there is under the PIN screens: a wallet that is open or comes, a modal, or
\* the alert that it did not load.
Comes == page.html = "wallet" /\ page.guid /\ page.stage \in {"loading", "loaded", "set", "open"}
Under == Comes \/ modal # "none" \/ "load" \in alerts

\* A change screen that can be cancelled is over one of these.
ChangeIsOver == pin.shown /\ Cancelable => Under

\* The unlock screen stays until its PIN is answered, and no PIN is saved on it; the
\* question what to do is asked when there is no request of a PIN.
UnlockIsShown ==
    /\ pin.verifyOnly => pin.stage = "verify"
    /\ "ask" \in alerts => req = NoReq
    /\ req # NoReq \/ "ask" \in alerts => (pin.verifyOnly => pin.shown)
    /\ \A save \in saves : save.phase # "queued" => ~pin.verifyOnly

\* There is a PIN screen, or what is under it; in the background, if there is a PIN:
\* otherwise the app shows a modal when it comes back.
SomethingShown ==
    app = "active" \/ (app = "background" /\ isPINSet) => pin.shown \/ Under

StandInv == PageOfWallet /\ ChangeIsOver /\ UnlockIsShown /\ SomethingShown

\* What PinInv says of the records a step looks at.
LEMMA PinFacts ==
    ASSUME PinInv
    PROVE  /\ page \in Pages /\ req \in Requests /\ wallet \in Wallets /\ pin \in Screens
           /\ page.stage \in {"set", "open"} => page.html = "wallet"
           /\ saves \subseteq Saves
           /\ \A save \in saves : page.stage = IF save.phase = "queued" THEN "none" ELSE "open"
           /\ enc # NoEnc => account
           /\ app = "off" => req = NoReq /\ page = NoPage /\ saves = {}
BY DEF PinInv, Fields, PageHasPassword, SaveIsOfOpenWallet, RecordIsWhole, OffIsEmpty

\* The screens that are presented.
LEMMA Presented ==
    /\ Screen("verify").shown /\ Screen("verify").verifyOnly /\ Screen("verify").stage = "verify"
    /\ Screen("change").shown /\ ~Screen("change").verifyOnly /\ Screen("change").stage = "verify"
    /\ Screen("create").shown /\ ~Screen("create").verifyOnly /\ Screen("create").stage = "enter1"
    /\ ~Screen("nil").shown /\ ~Screen("nil").verifyOnly
BY DEF Screen

\* Initially nothing runs.
LEMMA StandInit == Init => StandInv
BY Presented
DEF Init, StandInv, PageOfWallet, ChangeIsOver, UnlockIsShown, SomethingShown, Cancelable,
    NoPage, NoReq

\* What is sent in the end was sent or queued before.
NoNewSave ==
    \A save \in saves' : save.phase # "queued" => \E old \in saves : old.phase # "queued"

\* Steps that change no more than the record and the request, or end it.
LEMMA KeptStands ==
    ASSUME PinInv, StandInv, UNCHANGED <<page, wallet, pin, modal, alerts, app>>,
           req' = NoReq \/ req # NoReq, NoNewSave,
           isPINSet' => isPINSet \/ app = "active"
    PROVE  StandInv'
BY DEF StandInv, PageOfWallet, ChangeIsOver, UnlockIsShown, SomethingShown, Cancelable, Comes,
       Under, NoNewSave, isPINSet

\* The process starts, ends, goes to the background and comes back.
LEMMA BackgroundStands == ASSUME PinInv, StandInv, EnterBackground, alerts' = alerts \/ alerts' = alerts \ {"load"} PROVE StandInv'
<1>1. app' = "background" /\ isPINSet' = isPINSet
  BY DEF EnterBackground, saved, record, isPINSet
<1>2. pin \in Screens /\ req \in Requests /\ page \in Pages  BY PinFacts
<1>3. \/ req' = NoReq /\ saves' = {} /\ ~page'.guid /\ page'.stage = "loading"
      \/ UNCHANGED <<page, wallet, req, saves>> /\ ~isInitialized
  BY DEF EnterBackground, logout, LoadPage, requests
<1>4. /\ pin'.shown => pin'.verifyOnly
      /\ isPINSet => pin'.shown
      /\ pin'.verifyOnly => pin'.stage = "verify"
      /\ pin'.verifyOnly /\ ~pin'.shown => pin.verifyOnly /\ ~pin.shown
  <2>1. CASE isPINSet
    <3>1. CASE pin.shown /\ pin.verifyOnly
      <4>1. pin' = [pin EXCEPT !.busy = FALSE]  BY <2>1, <3>1 DEF EnterBackground
      <4> QED  BY <1>2, <3>1, <4>1 DEF Screens, StandInv, UnlockIsShown
    <3>2. CASE ~(pin.shown /\ pin.verifyOnly)
      BY <2>1, <3>2, Presented DEF EnterBackground, Present
    <3> QED  BY <3>1, <3>2
  <2>2. CASE ~isPINSet
    <3>1. pin' = [pin EXCEPT !.shown = pin.shown /\ pin.verifyOnly,
                             !.busy = (pin.shown /\ pin.verifyOnly) /\ pin.busy]
      BY <2>2 DEF EnterBackground
    <3>2. /\ pin'.shown = (pin.shown /\ pin.verifyOnly)
          /\ pin'.verifyOnly = pin.verifyOnly /\ pin'.stage = pin.stage
      BY <1>2, <3>1 DEF Screens
    <3> QED  BY <2>2, <3>2 DEF StandInv, UnlockIsShown
  <2> QED  BY <2>1, <2>2
<1>5. PageOfWallet'  BY <1>3 DEF StandInv, PageOfWallet
<1>6. \A save \in saves' : save.phase = "queued"
  <2> SUFFICES ASSUME NEW save \in saves', save.phase # "queued" PROVE FALSE
    OBVIOUS
  <2>1. saves' = saves /\ ~isInitialized  BY <1>3
  <2>2. page.stage = "open"  BY <2>1, PinFacts
  <2> QED  BY <2>1, <2>2, PinFacts DEF isInitialized
<1>7. UnlockIsShown'
  BY <1>3, <1>4, <1>6 DEF StandInv, UnlockIsShown
<1>8. ChangeIsOver' /\ SomethingShown'
  BY <1>1, <1>4 DEF ChangeIsOver, SomethingShown, Cancelable
<1> QED  BY <1>5, <1>7, <1>8 DEF StandInv

\* The life of the process.
LEMMA ProcessStands == ASSUME PinInv, StandInv, Process PROVE StandInv'
<1>1. CASE Launch
  <2>1. req = NoReq /\ page = NoPage /\ page' = page /\ app' = "active"
    BY <1>1, PinFacts DEF Launch
  <2>2. req' = NoReq /\ \A save \in saves' : save.phase = "queued"
    <3>1. saves = {}  BY <1>1, PinFacts DEF Launch
    <3>2. CASE \E p \in PINs : savePIN(p, "queued")
      BY <1>1, <2>1, <3>1, <3>2 DEF Launch, savePIN, PutRequest
    <3>3. CASE saves' = saves
      BY <1>1, <2>1, <3>1, <3>3 DEF Launch
    <3> QED  BY <1>1, <3>2, <3>3 DEF Launch
  <2>3. pin'.shown \/ modal' # "none"
    BY <1>1, Presented DEF Launch, Present
  <2>4. pin' = pin \/ pin' = Screen("verify")  BY <1>1 DEF Launch, Present
  <2>5. alerts' = alerts /\ (modal' = modal \/ modal' # "none")  BY <1>1 DEF Launch
  <2> QED
    BY <2>1, <2>2, <2>3, <2>4, <2>5, Presented
    DEF StandInv, PageOfWallet, ChangeIsOver, UnlockIsShown, SomethingShown, Cancelable, Comes,
        Under, NoPage
<1>2. CASE Kill \/ DieWhileStoring
  <2>1. Forgotten  BY <1>2 DEF Kill, DieWhileStoring
  <2> QED
    BY <2>1, Presented
    DEF Forgotten, StandInv, PageOfWallet, ChangeIsOver, UnlockIsShown, SomethingShown,
        Cancelable, NoPage, NoReq
<1>3. CASE Background  BY <1>3, BackgroundStands DEF Background
<1>4. CASE Foreground
  <2>1. isInitialized => Comes  BY PinFacts DEF isInitialized, Comes, StandInv, PageOfWallet
  <2>2. /\ UNCHANGED <<page, wallet, req, saves, pin, alerts>>
        /\ app = "background" /\ app' = "active"
        /\ \/ isPINSet /\ modal' = modal
           \/ isInitialized /\ modal' = modal
           \/ modal' # "none"
    BY <1>4 DEF Foreground, requests
  <2> QED
    BY <2>1, <2>2
    DEF StandInv, PageOfWallet, ChangeIsOver, UnlockIsShown, SomethingShown, Cancelable, Comes,
        Under
<1> QED  BY <1>1, <1>2, <1>3, <1>4 DEF Process

\* A page that loads, gets its wallet, or fails to.
LEMMA PageStands == ASSUME PinInv, StandInv, Page PROVE StandInv'
<1>a. page \in Pages /\ req \in Requests  BY PinFacts
<1>1. CASE PageLoads
  <2>1. /\ page' = [page EXCEPT !.stage = "loaded"] /\ page.stage = "loading"
        /\ UNCHANGED <<saved, app, wallet, saves, pin, modal, alerts>>
    BY <1>1 DEF PageLoads, ui
  <2>2. req' # NoReq => req # NoReq
    BY <1>1 DEF PageLoads, NoReq
  <2> QED
    BY <1>a, <2>1, <2>2
    DEF StandInv, PageOfWallet, ChangeIsOver, UnlockIsShown, SomethingShown, Cancelable, Comes,
        Under, Pages, saved, record, isPINSet
<1>2. CASE DidSetGuid
  <2>1. page'.stage = "set" /\ page'.html = page.html /\ page'.guid = page.guid /\ page.guid
        /\ page.stage = "loaded"
    BY <1>2, <1>a DEF DidSetGuid, Pages
  <2>2. UNCHANGED <<saved, app, wallet, req, saves, pin, modal, alerts>>
    BY <1>2 DEF DidSetGuid, ui, requests
  <2> QED
    BY <2>1, <2>2
    DEF StandInv, PageOfWallet, ChangeIsOver, UnlockIsShown, SomethingShown, Cancelable, Comes,
        Under, saved, record, isPINSet
<1>3. CASE DidFailSetGuid
  <2>1. page'.stage = "failed" /\ page'.guid = page.guid
    BY <1>3, <1>a DEF DidFailSetGuid, Pages
  <2>2. /\ UNCHANGED <<saved, app, wallet, req, saves, pin, modal>>
        /\ alerts' = alerts \cup {"load"} \/ (modal = "welcome" /\ alerts' = alerts)
    BY <1>3 DEF DidFailSetGuid, requests
  <2> QED
    BY <2>1, <2>2
    DEF StandInv, PageOfWallet, ChangeIsOver, UnlockIsShown, SomethingShown, Cancelable, Under
<1>4. CASE DidDecrypt
  <2>1. /\ page'.stage = "open" /\ page'.html = page.html /\ page'.guid = page.guid
        /\ page.stage = "set" /\ page.html = "wallet"
    BY <1>4, <1>a, PinFacts DEF DidDecrypt, Pages
  <2>2. /\ UNCHANGED <<app, wallet, req, saves, alerts>>
        /\ pin' = pin \/ pin' = Screen("create")
    BY <1>4 DEF DidDecrypt, Present, requests
  <2>3. Comes'  BY <2>1 DEF Comes, StandInv, PageOfWallet
  <2> QED
    BY <2>1, <2>2, <2>3, Presented
    DEF StandInv, PageOfWallet, ChangeIsOver, UnlockIsShown, SomethingShown, Cancelable, Under
<1>5. CASE DidFailToDecrypt
  <2>1. page'.stage = "failed" /\ page'.guid = page.guid
    BY <1>5, <1>a DEF DidFailToDecrypt, Pages
  <2>2. UNCHANGED <<wallet, req, saves, pin, alerts>> /\ modal' # "none"
    BY <1>5 DEF DidFailToDecrypt, requests
  <2> QED
    BY <2>1, <2>2
    DEF StandInv, PageOfWallet, ChangeIsOver, UnlockIsShown, SomethingShown, Cancelable, Under
<1> QED  BY <1>1, <1>2, <1>3, <1>4, <1>5 DEF Page

\* The server answers, deletes a key, or the password is changed elsewhere.
LEMMA OtherStands == ASSUME PinInv, StandInv, Other PROVE StandInv'
<1>1. UNCHANGED <<page, wallet, pin, modal, alerts, app, pinKey, enc>>
  BY DEF Other, ServeGet, ServePut, ServerForgets, ChangePasswordElsewhere, ui, saved, record
<1>2. /\ req' = NoReq \/ req # NoReq
      /\ NoNewSave
  <2>1. CASE ServeGet
    BY <2>1 DEF ServeGet, NoReq, NoNewSave
  <2>2. CASE ServePut
    <3>1. PICK save \in saves, a \in {"ok", "refused"} :
            save.phase = "sent" /\ saves' = Answered(save, a)
      BY <2>2 DEF ServePut
    <3>2. req' = req
      BY <2>2 DEF ServePut
    <3> QED  BY <3>1, <3>2 DEF Answered, NoNewSave
  <2>3. CASE ServerForgets \/ ChangePasswordElsewhere
    BY <2>3 DEF ServerForgets, ChangePasswordElsewhere, requests, NoNewSave
  <2> QED  BY <2>1, <2>2, <2>3 DEF Other
<1> QED  BY <1>1, <1>2, KeptStands DEF isPINSet

\* A screen that is shown or not as before, or closed for a modal, ends its request.
LEMMA AnsweredStands ==
    ASSUME PinInv, StandInv, UNCHANGED <<page, wallet, app, saves>>, req' = NoReq, req # NoReq,
           pin'.verifyOnly = pin.verifyOnly,
           pin'.stage = pin.stage \/ (pin'.stage = "enter1" /\ ~pin.verifyOnly),
           \/ pin'.shown = pin.shown /\ modal' = modal
           \/ modal' # "none" /\ ~pin'.shown /\ alerts' = alerts,
           alerts' \in {alerts, alerts \cup {"ask"}, alerts \cup {"error"}},
           isPINSet' => isPINSet
    PROVE  StandInv'
BY DEF StandInv, PageOfWallet, ChangeIsOver, UnlockIsShown, SomethingShown, Cancelable, Comes,
       Under

\* A wallet is loaded: it comes.
LEMMA LoadStands ==
    ASSUME StandInv, NEW pw, LoadWallet(pw), UNCHANGED <<modal, alerts>>,
           pin'.verifyOnly = pin.verifyOnly, pin'.stage = pin.stage,
           "ask" \in alerts => pin'.shown = pin.shown
    PROVE  StandInv'
<1>1. Comes' /\ wallet'.guid /\ req' = NoReq /\ saves' = {}  BY DEF LoadWallet, LoadPage, Comes
<1>2. PageOfWallet'  BY <1>1 DEF PageOfWallet, LoadWallet, LoadPage
<1>3. UnlockIsShown'  BY <1>1 DEF StandInv, UnlockIsShown
<1>4. ChangeIsOver' /\ SomethingShown'  BY <1>1 DEF ChangeIsOver, SomethingShown, Under
<1> QED  BY <1>2, <1>3, <1>4 DEF StandInv

\* The PIN server's answer to a PIN that was typed, and no answer.
LEMMA GetStands == ASSUME PinInv, StandInv, DidGetPinSuccess \/ DidFailGetPin PROVE StandInv'
<1>1. pin \in Screens /\ req # NoReq  BY PinFacts DEF DidGetPinSuccess, DidFailGetPin, NoReq
<1>2. /\ Idle.shown = pin.shown /\ Idle.verifyOnly = pin.verifyOnly /\ Idle.stage = pin.stage
      /\ ~[Idle EXCEPT !.shown = FALSE].shown
      /\ [Idle EXCEPT !.shown = FALSE].verifyOnly = pin.verifyOnly
      /\ [Idle EXCEPT !.shown = FALSE].stage = pin.stage
      /\ [Idle EXCEPT !.stage = "enter1", !.root = FALSE].shown = pin.shown
      /\ [Idle EXCEPT !.stage = "enter1", !.root = FALSE].verifyOnly = pin.verifyOnly
      /\ [Idle EXCEPT !.stage = "enter1", !.root = FALSE].stage = "enter1"
  BY <1>1 DEF Idle, Screens
<1>3. CASE DidFailGetPin
  <2>1. /\ UNCHANGED <<page, wallet, app, modal, pinKey, enc, saves>> /\ req' = NoReq
        /\ pin' \in {pin, Idle} /\ alerts' \in {alerts \cup {"ask"}, alerts \cup {"error"}}
    BY <1>3 DEF DidFailGetPin, FailsWithReason, FailsWithMessage, saved, record
  <2> QED  BY <1>1, <1>2, <2>1, AnsweredStands DEF isPINSet
<1>4. CASE DidGetPinSuccess
  <2>1. app' = app  BY <1>4 DEF DidGetPinSuccess
  <2>2. CASE /\ PinDeleted /\ req' = NoReq
             /\ UNCHANGED <<wallet, page, saves, alerts>>
    <3>1. /\ pin' = [Idle EXCEPT !.shown = FALSE] /\ modal' # "none" /\ ~isPINSet'
      BY <2>2 DEF PinDeleted, clearPin, isPINSet
    <3> QED  BY <1>1, <1>2, <2>1, <2>2, <3>1, AnsweredStands
  <2>3. CASE /\ alerts' = (IF req.ans = "odd" THEN alerts \cup {"ask"} ELSE alerts)
             /\ pin' = Idle /\ req' = NoReq
             /\ UNCHANGED <<wallet, page, saves, record, modal>>
    BY <1>1, <1>2, <2>1, <2>3, AnsweredStands DEF record, isPINSet
  <2>4. CASE ~pin.verifyOnly /\ GoOn /\ UNCHANGED <<record, modal>>
    <3>1. pin' \in {Idle, [Idle EXCEPT !.stage = "enter1", !.root = FALSE]}  BY <2>4 DEF GoOn
    <3>2. req' = NoReq /\ UNCHANGED <<wallet, page, saves, alerts, pinKey, enc, modal>>
      BY <2>4 DEF GoOn, record
    <3> QED  BY <1>1, <1>2, <2>1, <2>4, <3>1, <3>2, AnsweredStands DEF isPINSet
  <2>5. CASE pin.verifyOnly /\ Unlock /\ UNCHANGED <<record, modal>>
    <3>1. CASE /\ alerts' = alerts \cup {"ask"} /\ pin' = Idle /\ req' = NoReq
               /\ UNCHANGED <<wallet, page, saves>>
      BY <1>1, <1>2, <2>1, <2>5, <3>1, AnsweredStands DEF record, isPINSet
    <3>2. ASSUME NEW pw \in Decrypted(req.key) \ {None}, closePINModal, UNCHANGED alerts,
                 \/ account /\ LoadWallet(pw)
                 \/ ~account /\ wallet' = [wallet EXCEPT !.password = pw]
          PROVE  StandInv'
      <4>1. account  BY <3>2, PinFacts DEF Decrypted
      <4>2. pin'.verifyOnly = pin.verifyOnly /\ pin'.stage = pin.stage
        BY <1>1, <3>2 DEF closePINModal, Screens
      <4>3. "ask" \notin alerts  BY <1>1 DEF StandInv, UnlockIsShown
      <4> QED  BY <2>5, <3>2, <4>1, <4>2, <4>3, LoadStands
    <3> QED  BY <2>5, <3>1, <3>2 DEF Unlock
  <2> QED  BY <1>4, <2>2, <2>3, <2>4, <2>5 DEF DidGetPinSuccess
<1> QED  BY <1>3, <1>4

\* The answer to a PIN that was saved, and no answer: the wallet is open.
LEMMA PutStands == ASSUME PinInv, StandInv, DidPutPinSuccess \/ DidFailPutPin PROVE StandInv'
<1>1. /\ UNCHANGED <<page, wallet, app, modal, alerts, req>> /\ saves' \subseteq saves
      /\ pin' = Screen("create") \/ closePINModal
      /\ \E save \in saves : save.phase # "queued"
  BY DEF DidPutPinSuccess, DidFailPutPin, didFailPutPin, Present, ui
<1>2. Comes /\ ~pin.verifyOnly  BY <1>1, PinFacts DEF StandInv, PageOfWallet, UnlockIsShown, Comes
<1>3. ~pin'.verifyOnly
  BY <1>1, <1>2, Presented, PinFacts DEF closePINModal, Screens
<1> QED
  BY <1>1, <1>2, <1>3
  DEF StandInv, PageOfWallet, ChangeIsOver, UnlockIsShown, SomethingShown, Comes, Under

\* The user leaves the wallet, forgets it, loads or pairs one, or changes the PIN.
LEMMA AwayStands ==
    ASSUME PinInv, StandInv,
           \/ LogOut \/ Forget \/ CloseApp \/ ChangePIN
           \/ \E pw \in Passwords : EnterPassword(pw) \/ Pair(pw)
    PROVE  StandInv'
<1>1. CASE LogOut
  <2>1. logout /\ modal' # "none" /\ UNCHANGED <<pin, alerts>>  BY <1>1 DEF LogOut
  <2> QED
    BY <2>1
    DEF logout, LoadPage, StandInv, PageOfWallet, ChangeIsOver, UnlockIsShown,
        SomethingShown, Under
<1>2. CASE Forget
  <2>1. logout /\ modal' # "none" /\ pin' = pin /\ alerts' = alerts \ {"load"}
    BY <1>2 DEF Forget
  <2> QED
    BY <2>1
    DEF logout, LoadPage, StandInv, PageOfWallet, ChangeIsOver, UnlockIsShown,
        SomethingShown, Under
<1>3. CASE CloseApp  BY <1>3, BackgroundStands DEF CloseApp
<1>4. CASE ChangePIN
  <2>1. /\ UNCHANGED <<page, wallet, req, saves, modal, alerts, app>> /\ pin' = Screen("change")
        /\ ~pin.shown /\ app = "active"
    BY <1>4 DEF ChangePIN, Present, AtHome, ui, requests
  <2> QED
    BY <2>1, Presented
    DEF StandInv, PageOfWallet, ChangeIsOver, UnlockIsShown, SomethingShown, Comes, Under
<1>5. ASSUME NEW pw \in Passwords, EnterPassword(pw) \/ Pair(pw) PROVE StandInv'
  <2>1. LoadWallet(pw) /\ UNCHANGED <<modal, alerts, pin>>  BY <1>5 DEF EnterPassword, Pair, ui
  <2> QED  BY <2>1, LoadStands
<1> QED  BY <1>1, <1>2, <1>3, <1>4, <1>5

\* The PIN is asked for: by an alert without a network, or by a page that is loaded
\* for it, which is the wallet's for a change.
LEMMA AskingStands ==
    ASSUME PinInv, StandInv, NEW p, NEW cb, shouldAcceptPin(p, cb), UNCHANGED <<wallet, modal, app, saved>>,
           pin.verifyOnly => pin.shown, "ask" \in alerts \/ pin.shown
    PROVE  StandInv'
<1>1. pin \in Screens /\ pin.verifyOnly \in BOOLEAN  BY PinFacts DEF Screens
<1>2. pin'.shown = pin.shown /\ pin'.verifyOnly = pin.verifyOnly /\ pin'.stage = pin.stage
  BY <1>1 DEF shouldAcceptPin, Screens
<1>3. "ask" \notin alerts' /\ ("load" \in alerts' <=> "load" \in alerts)
  BY DEF shouldAcceptPin
<1>4. isPINSet' = isPINSet  BY DEF saved, record, isPINSet
<1>5. CASE UNCHANGED <<page, requests>>
  BY <1>2, <1>3, <1>4, <1>5
  DEF requests, StandInv, PageOfWallet, ChangeIsOver, UnlockIsShown, SomethingShown, Cancelable, Comes,
      Under
<1>6. CASE page' = PinPage(~pin.verifyOnly) /\ req' = GetRequest(p) /\ saves' = {}
  <2>1. page'.stage = "loading" /\ (page'.guid => wallet.guid)
    BY <1>6 DEF PinPage
  <2>2. ~pin.verifyOnly /\ Under => Under'
    <3>1. SUFFICES ASSUME ~pin.verifyOnly, Comes PROVE Comes'
      BY <1>3 DEF Under
    <3>2. page'.html = "wallet" /\ page'.guid = wallet.guid /\ page'.stage = "loading"
      BY <1>6, <3>1, PinFacts DEF PinPage, Wallets
    <3> QED  BY <3>1, <3>2 DEF Comes, StandInv, PageOfWallet
  <2>3. PageOfWallet'  BY <2>1 DEF PageOfWallet
  <2>4. UnlockIsShown'  BY <1>2, <1>3, <1>6 DEF StandInv, UnlockIsShown
  <2>5. ChangeIsOver' /\ SomethingShown'
    BY <1>2, <1>4, <2>2 DEF StandInv, ChangeIsOver, SomethingShown, Cancelable
  <2> QED  BY <2>3, <2>4, <2>5 DEF StandInv
<1> QED  BY <1>5, <1>6 DEF shouldAcceptPin

\* The user at the PIN screens and their alerts.
LEMMA TypingStands ==
    ASSUME PinInv, StandInv,
           \/ CancelChange \/ DismissError \/ AskPassword \/ AskRetry
           \/ \E p \in PINs : EnterVerify(p) \/ EnterFirst(p) \/ EnterSecond(p)
    PROVE  StandInv'
<1>a. pin \in Screens  BY PinFacts
<1>1. CASE CancelChange
  <2>1. /\ UNCHANGED <<page, wallet, req, saves, modal, alerts, app>> /\ pin.shown /\ Cancelable
        /\ alerts = {} /\ ~pin'.shown /\ ~pin'.verifyOnly
    BY <1>1, <1>a DEF CancelChange, closePINModal, Screens, ui, Cancelable, requests
  <2> QED
    BY <2>1
    DEF StandInv, PageOfWallet, ChangeIsOver, UnlockIsShown, SomethingShown, Cancelable, Comes,
        Under
<1>2. CASE DismissError
  <2>1. /\ UNCHANGED <<page, wallet, req, saves, modal, app, saved>> /\ alerts' = alerts \ {"error"}
        /\ pin'.shown = pin.shown /\ pin'.verifyOnly = pin.verifyOnly /\ pin'.stage = pin.stage
    BY <1>2, <1>a DEF DismissError, Screens, requests
  <2> QED
    BY <2>1
    DEF StandInv, PageOfWallet, ChangeIsOver, UnlockIsShown, SomethingShown, Cancelable, Comes,
        Under, saved, record, isPINSet
<1>3. CASE AskPassword
  <2>1. /\ UNCHANGED <<page, wallet, req, saves>> /\ alerts' = alerts \ {"ask"} /\ modal' # "none"
        /\ pin'.verifyOnly = pin.verifyOnly /\ pin'.stage = pin.stage /\ ~pin'.shown
        /\ "ask" \in alerts
    BY <1>3, <1>a DEF AskPassword, closePINModal, Screens, requests
  <2> QED
    BY <2>1
    DEF StandInv, PageOfWallet, ChangeIsOver, UnlockIsShown, SomethingShown, Under
<1>4. CASE AskRetry
  <2>1. /\ shouldAcceptPin(pin.last, callback) /\ UNCHANGED <<wallet, modal, app, saved>>
        /\ "ask" \in alerts
    BY <1>4 DEF AskRetry
  <2>2. pin.verifyOnly => pin.shown  BY <2>1 DEF StandInv, UnlockIsShown
  <2> QED  BY <2>1, <2>2, AskingStands
<1>5. ASSUME NEW p \in PINs, EnterVerify(p) PROVE StandInv'
  <2>1. shouldAcceptPin(p, "current") /\ UNCHANGED <<wallet, modal, app, saved>> /\ pin.shown
    BY <1>5 DEF EnterVerify, CanType
  <2> QED  BY <2>1, AskingStands
<1>6. ASSUME NEW p \in PINs, EnterFirst(p) \/ EnterSecond(p) PROVE StandInv'
  <2>1. UNCHANGED <<page, wallet, modal, alerts, app, saved, req>> /\ pin.shown /\ alerts = {}
    BY <1>6 DEF EnterFirst, EnterSecond, CanType, ui, requests
  <2>2. ~pin.verifyOnly
    BY <1>6 DEF EnterFirst, EnterSecond, StandInv, UnlockIsShown
  <2>3. pin'.shown /\ ~pin'.verifyOnly /\ pin'.stage # "verify"
    <3>1. CASE EnterFirst(p)
      BY <1>a, <2>1, <2>2, <3>1 DEF EnterFirst, Screens
    <3>2. CASE EnterSecond(p)
      <4>1. pin.stage = "enter2"  BY <3>2 DEF EnterSecond
      <4>2. \/ pin' = [pin EXCEPT !.stage = "enter1"] \/ pin' = [pin EXCEPT !.busy = TRUE]
            \/ pin' = Screen("create")
        BY <3>2 DEF EnterSecond, didFailPutPin, Present
      <4> QED  BY <1>a, <2>1, <2>2, <4>1, <4>2, Presented DEF Screens
    <3> QED  BY <1>6, <3>1, <3>2
  <2> QED
    BY <2>1, <2>3
    DEF StandInv, PageOfWallet, ChangeIsOver, UnlockIsShown, SomethingShown, Cancelable
<1> QED  BY <1>1, <1>2, <1>3, <1>4, <1>5, <1>6

\* Every step keeps something to go on with.
LEMMA StandStep == PinInv /\ StandInv /\ [Next]_vars => StandInv'
<1> SUFFICES ASSUME PinInv, StandInv, [Next]_vars PROVE StandInv'  OBVIOUS
<1>1. CASE UNCHANGED vars
  BY <1>1
  DEF vars, StandInv, PageOfWallet, ChangeIsOver, UnlockIsShown, SomethingShown, Cancelable,
      Comes, Under, isPINSet
<1>2. CASE GetAnswer \/ PutAnswer  BY <1>2, GetStands, PutStands DEF GetAnswer, PutAnswer
<1>3. CASE User  BY <1>3, AwayStands, TypingStands DEF User
<1> QED  BY <1>1, <1>2, <1>3, ProcessStands, PageStands, OtherStands DEF Next

(* However requests, pages and decryptions fail, in the background too, the   *)
(* active app shows an open wallet or one that comes, a PIN screen, a modal   *)
(* or an alert (applicationWillEnterForeground, didGetPinSuccess,             *)
(* walletFailedToLoad, walletFailedToDecrypt, alertView callbacks).           *)
THEOREM NeverStrandedCorrect == Spec => []NeverStranded
<1>1. Spec => [](PinInv /\ StandInv)  BY InitInv, StepInv, StandInit, StandStep, PTL DEF Spec
<1>2. PinInv /\ StandInv => NeverStranded
  <2> SUFFICES ASSUME PinInv, StandInv, app = "active" PROVE NeverStranded  BY DEF NeverStranded
  <2>1. Comes => isInitialized \/ UnderWay
    BY DEF Comes, isInitialized, UnderWay
  <2> QED  BY <2>1 DEF StandInv, SomethingShown, Under, NeverStranded
<1> QED  BY <1>1, <1>2, PTL
=============================================================================
