------------------------------ MODULE SendAmount ------------------------------
(***************************************************************************)
(* The amount on the Send screen: typed, scanned or taken from a bitcoin:  *)
(* link, shown in BTC or in the local currency, converted when the symbol  *)
(* is toggled or new rates come, confirmed in an alert and sent.           *)
(*                                                                         *)
(* A number is counted in ticks, of which BTC has one for each satoshi.    *)
(* The local currency is printed to whole LocalTicks; its rate is the      *)
(* satoshi one LocalTick is worth.                                         *)
(***************************************************************************)
EXTENDS Naturals

CONSTANTS
    Numbers,    \* numbers that are typed, scanned or in a link
    Rates,      \* symbol_local.conversion of a response
    LocalTick,
    MaxNumber,  \* bound on the number in the field when the symbol is toggled
    None,       \* nil, an empty field
    BeforeRates,\* is the amount used before the first response of the session?
    Hurried     \* is the symbol toggled within 0.1 s of typing?

ASSUME SendAmountAssumption ==
    /\ Numbers \subseteq Nat \ {0} /\ Rates \subseteq Nat \ {0}
    /\ LocalTick \in Nat \ {0} /\ MaxNumber \in Nat /\ None \notin Nat
    /\ BeforeRates \in BOOLEAN /\ Hurried \in BOOLEAN

VARIABLES
    form,       \* text, displayingLocalSymbol (local), originalBtcAmount,
                \* didChangeDollarAmount (changed), convertedAmountLabel
    symbolLocal,
    rate,       \* of latestResponse, or None if that is nil
    session,    \* "loading", "locked" (page loaded), "open"
    pending,    \* is doCurrencyConversion to be called after the delay?
    initialToAmount,
    alert,      \* the amount shown by the confirmation; history: the rate then, and
                \* was the text whole, to the last digit a local amount is printed to?
    sent,       \* the payment under way: what was confirmed, the amount; history: is
                \* that amount exact, or converted from a local text that the rate
                \* or the printing changed since?
    unit,       \* history: the unit the text was typed in, or converted to
    typed       \* history: the satoshi entered last, or None if entered in local

vars == <<form, symbolLocal, rate, session, pending, initialToAmount, alert, sent, unit, typed>>
history == <<unit, typed>>

Form == [text : Nat \cup {None}, local : BOOLEAN, original : Nat, changed : BOOLEAN, label : Nat]

Init ==
    /\ form = [text |-> None, local |-> FALSE, original |-> 0, changed |-> FALSE, label |-> 0]
    /\ symbolLocal \in BOOLEAN
    /\ rate = None /\ session = "loading"
    /\ pending = FALSE /\ initialToAmount = 0
    /\ alert = None /\ sent = None
    /\ unit = "btc" /\ typed = None
-----------------------------------------------------------------------------
\* Reading and printing numbers; n / d is rounded half to even.
Num(t) == IF t = None THEN 0 ELSE t
Rounded(n, d) ==
    LET q == n \div d  r == 2 * (n % d)
    IN IF r > d \/ (r = d /\ q % 2 = 1) THEN q + 1 ELSE q

FromLocal(t, r) == IF r = None THEN 0 ELSE (r * Num(t)) \div LocalTick
ToLocal(a, r)   == Rounded(a, r) * LocalTick

\* parseBitcoinValue: asks the page.
ParseBitcoinValue(t, s) == IF s = "loading" THEN 0 ELSE Num(t)

\* A number as it is printed in the local currency: to whole cents.
Whole(t) == Num(t) % LocalTick = 0

HasOriginal(f) == ~f.changed /\ f.original # 0

\* getInputAmountInSatoshi, with rate r and session s.
InputAmount(f, r, s) ==
    IF ~f.local THEN ParseBitcoinValue(f.text, s)
    ELSE IF HasOriginal(f) THEN f.original ELSE FromLocal(f.text, r)

\* doCurrencyConversion
Converted(f, r, s) ==
    LET a == IF f.text = None THEN 0 ELSE InputAmount(f, r, s)
    IN [f EXCEPT !.label = IF f.local /\ HasOriginal(f) THEN f.original ELSE a,
                 !.original = IF f.local THEN @ ELSE a]

\* Mutant of AmountOf: the text is converted back, whatever the original was.
AmountOfText(f, switched, r, s) ==
    IF switched = f.local THEN ParseBitcoinValue(f.text, s) ELSE FromLocal(f.text, r)

\* The amount in the field, which still is in the other currency if it switched.
AmountOf(f, switched, r, s) ==
    IF switched /\ ~f.local /\ HasOriginal(f) THEN f.original
    ELSE IF switched = f.local THEN ParseBitcoinValue(f.text, s)
    ELSE FromLocal(f.text, r)

\* Without rates the division throws and the text stays.
Rewritten(f, switched, r, s) ==
    LET a == AmountOf(f, switched, r, s)
    IN IF f.text = None \/ r = None THEN f
       ELSE [f EXCEPT !.text = IF f.local THEN ToLocal(a, r) ELSE a]

\* "Populate amount field from URL handler": the original is in whole BTC, of
\* which there are none here, until the conversion below sets it.
Populated(f, a) == [f EXCEPT !.text = a, !.original = 0, !.changed = FALSE]

Displayed(f, r, sl) == IF r = None THEN f ELSE [f EXCEPT !.local = sl]

\* reloadWithCurrencyChange: of form f, whose text is in unit u.
Reload(f, u, switched, sl, r, s, initial) ==
    LET takes == initial > 0 /\ r # None
        g == Displayed(IF takes THEN Populated(f, initial) ELSE f, r, sl)
    IN /\ form' = Converted(Rewritten(g, switched, r, s), r, s)
       /\ initialToAmount' = IF takes THEN 0 ELSE initial
       /\ typed' = IF takes THEN initial ELSE typed
       /\ unit' = IF takes THEN "btc"
                  ELSE IF switched /\ r # None THEN (IF sl THEN "local" ELSE "btc") ELSE u

\* Mutant of toggleSymbol: the form is reloaded as if nothing changed.
ToggleAsReload == symbolLocal' = ~symbolLocal
    /\ Reload(form, unit, FALSE, ~symbolLocal, rate, session, initialToAmount)

\* toggleSymbol
toggleSymbol == symbolLocal' = ~symbolLocal
    /\ Reload(form, unit, TRUE, ~symbolLocal, rate, session, initialToAmount)
-----------------------------------------------------------------------------
\* The user is at the form.
AtForm == session = "open" /\ alert = None /\ (BeforeRates \/ rate # None)
Calm == (Hurried \/ ~pending) /\ Num(form.text) <= MaxNumber

\* textField:shouldChangeCharactersInRange:replacementString:
Type(t) ==
    /\ AtForm
    /\ form' = [form EXCEPT !.text = t, !.changed = form.local]
    /\ pending' = TRUE
    /\ unit' = IF form.local THEN "local" ELSE "btc"
    /\ typed' = IF form.local THEN None ELSE Num(t)
    /\ UNCHANGED <<symbolLocal, rate, session, initialToAmount, alert, sent>>

\* doCurrencyConversion after the delay, or when editing begins.
DoCurrencyConversion ==
    /\ pending' = FALSE
    /\ form' = Converted(form, rate, session)
    /\ UNCHANGED <<symbolLocal, rate, session, initialToAmount, alert, sent, history>>

\* btcCodeClicked: and the other buttons that toggle the symbol.
BtcCodeClicked ==
    /\ AtForm /\ Calm
    /\ toggleSymbol
    /\ UNCHANGED <<rate, session, pending, alert, sent>>

\* captureOutput:..: the form shows BTC while it takes the amount of the code
\* (0: the code has none).
Scan(a) ==
    /\ AtForm
    /\ LET f == Displayed(form, rate, FALSE)
           g == [f EXCEPT !.text = IF a = 0 THEN None ELSE a, !.original = a, !.changed = FALSE]
       IN \/ /\ symbolLocal
             /\ form' = Converted(Rewritten(Displayed(g, rate, TRUE), TRUE, rate, session), rate, session)
             /\ unit' = IF rate = None THEN "btc" ELSE "local"
          \/ /\ ~symbolLocal
             /\ form' = Converted(g, rate, session) /\ unit' = "btc"
    /\ typed' = a
    /\ initialToAmount' = IF rate = None \/ ~symbolLocal THEN initialToAmount ELSE 0
    /\ UNCHANGED <<symbolLocal, rate, session, pending, alert, sent>>

\* did_multiaddr: new rates.  A confirmation that is up keeps its text.
DidGetMultiAddressResponse(r) ==
    /\ session = "open"
    /\ rate' = r
    /\ Reload(form, unit, FALSE, symbolLocal, r, session, initialToAmount)
    /\ UNCHANGED <<symbolLocal, session, pending, alert, sent>>

\* didBackupWallet: the form is reloaded with the rates it has.
DidBackupWallet ==
    /\ session = "open"
    /\ Reload(form, unit, FALSE, symbolLocal, rate, session, initialToAmount)
    /\ UNCHANGED <<symbolLocal, rate, session, pending, alert, sent>>

\* application:handleOpenURL: and setAmountFromUrlHandler:.. (0: no amount):
\* toggles to BTC, keeps the amount for the reload, and reloads.
HandleOpenURL(a) ==
    /\ alert = None /\ Calm
    /\ BeforeRates \/ rate # None \/ ~symbolLocal \/ form.text = None
    /\ symbolLocal' = FALSE
    /\ LET f == IF symbolLocal
                  THEN Converted(Rewritten(Displayed(form, rate, FALSE), TRUE, rate, session), rate, session)
                  ELSE form
           u == IF symbolLocal /\ rate # None THEN "btc" ELSE unit
       IN Reload(f, u, FALSE, FALSE, rate, session, a)
    /\ UNCHANGED <<rate, session, pending, alert, sent>>

\* Mutant of SendPaymentClicked: the label is confirmed.
ConfirmLabel ==
    /\ AtForm /\ sent = None
    /\ InputAmount(form, rate, session) > 0 /\ form.label > 0
    /\ alert' = [amount |-> form.label, rate |-> rate, whole |-> Whole(form.text)]
    /\ UNCHANGED <<form, symbolLocal, rate, session, pending, initialToAmount, sent, history>>

\* sendPaymentClicked: and confirmPayment; the button is off during a payment.
SendPaymentClicked ==
    /\ AtForm /\ sent = None
    /\ InputAmount(form, rate, session) > 0
    /\ alert' = [amount |-> InputAmount(form, rate, session),
                  rate |-> rate, whole |-> Whole(form.text)]
    /\ UNCHANGED <<form, symbolLocal, rate, session, pending, initialToAmount, sent, history>>

\* "No", or "Yes": reallyDoPayment reads the form again.
Confirmed ==
    /\ alert # None /\ alert' = None
    /\ \/ UNCHANGED sent
       \/ /\ sent = None
          /\ sent' = [asked |-> alert.amount, amount |-> InputAmount(form, rate, session),
                      exact |-> \/ ~form.local \/ HasOriginal(form)
                                \/ alert.rate = rate /\ alert.whole]
    /\ UNCHANGED <<form, symbolLocal, rate, session, pending, initialToAmount, history>>

\* listener.on_success resets the form, listener.on_error does not.
SendEnds ==
    /\ sent # None /\ session = "open" /\ sent' = None
    /\ \/ UNCHANGED <<form, history>>
       \/ /\ form' = Converted([form EXCEPT !.text = None, !.original = 0, !.changed = FALSE],
                               rate, session)
          /\ typed' = None /\ UNCHANGED unit
    /\ UNCHANGED <<symbolLocal, rate, session, pending, initialToAmount, alert>>

\* logout, by the user or in the background, where the alert is cancelled; the
\* reload at its end finds no rates and a page that is loading.
logout ==
    /\ session = "open" /\ session' = "loading"
    /\ rate' = None /\ alert' = None /\ sent' = None
    /\ Reload(form, unit, FALSE, symbolLocal, None, "loading", initialToAmount)
    /\ UNCHANGED <<symbolLocal, pending>>

PageLoads ==
    /\ session = "loading" /\ session' = "locked"
    /\ UNCHANGED <<form, symbolLocal, rate, pending, initialToAmount, alert, sent, history>>

\* walletDidDecrypt
WalletDidDecrypt ==
    /\ session = "locked" /\ session' = "open"
    /\ Reload(form, unit, FALSE, symbolLocal, rate, session, initialToAmount)
    /\ UNCHANGED <<symbolLocal, rate, pending, alert, sent>>
-----------------------------------------------------------------------------
Next ==
    \/ \E t \in Numbers \cup {None} : Type(t)
    \/ DoCurrencyConversion \/ BtcCodeClicked
    \/ \E a \in Numbers \cup {0} : Scan(a) \/ HandleOpenURL(a)
    \/ \E r \in Rates : DidGetMultiAddressResponse(r)
    \/ DidBackupWallet
    \/ SendPaymentClicked \/ Confirmed \/ SendEnds
    \/ logout \/ PageLoads \/ WalletDidDecrypt

Spec == Init /\ [][Next]_vars
-----------------------------------------------------------------------------
(***************************************************************************)
(* Properties.                                                             *)
(***************************************************************************)

\* What is sent is what was confirmed, though it is read from the form again and
\* the form may have been reloaded, by new rates or a backup, while the alert was
\* up: for every amount with an original in BTC, and for one typed in the local
\* currency to whole cents unless it is another rate when it is sent.
ConfirmedIsSent ==
    sent # None => (sent.exact => sent.asked = sent.amount)

\* An amount entered in BTC is never changed by what happens to its display:
\* toggling, new rates, a logout and the next login, a confirmation that is
\* declined, an error of a send.
BtcAmountKept ==
    typed # None /\ session # "loading" => InputAmount(form, rate, session) = typed

\* What the form shows agrees.  The number in the field is in the currency that
\* is displayed beside it: whatever changes the symbol has converted the number.
\* The label under the field says what would be sent, once the delayed
\* conversion is done.
TextHasItsUnit ==
    form.text # None /\ rate # None => form.local = (unit = "local")
LabelIsInputAmount ==
    ~pending /\ session = "open" /\ rate # None
        => form.label = InputAmount(form, rate, session)
FormAgrees == TextHasItsUnit /\ LabelIsInputAmount
=============================================================================
