--------------------------- MODULE SendReceiveProofs ---------------------------
(***************************************************************************)
(* Proofs about the two screens on which money is sent and received.       *)
(*                                                                         *)
(* SendAmount, for any numbers, rates and tick of the local currency: what *)
(* is sent was confirmed, an amount entered in BTC outlives its display,   *)
(* and number, symbol and label of the form agree.                         *)
(*                                                                         *)
(* ReceiveAddresses, for every set of addresses and any number of clicks:  *)
(* whatever is prompted, dismissed or reloaded, an action on the Receive   *)
(* screen is about the address the user sees, or about none.               *)
(***************************************************************************)
EXTENDS SendAmount, MCReceive, TLAPS

\* The records have their fields.
MaybeRate == Rates \cup {None}
Sessions == {"loading", "locked", "open"}
Fields ==
    /\ form \in Form /\ symbolLocal \in BOOLEAN /\ rate \in MaybeRate
    /\ session \in Sessions /\ pending \in BOOLEAN /\ initialToAmount \in Nat
    /\ alert \in [amount : Nat, rate : MaybeRate, whole : BOOLEAN] \cup {None}
    /\ sent \in [asked : Nat, amount : Nat, exact : BOOLEAN] \cup {None}
    /\ unit \in {"btc", "local"} /\ typed \in Nat \cup {None}

\* Rates, confirmations and payments are of a session; an amount of a link is
\* taken with the first rates, and shown in BTC.
OfSession ==
    /\ session # "open" => rate = None /\ alert = None /\ sent = None
    /\ sent # None => rate # None
    /\ rate # None => initialToAmount = 0
    /\ initialToAmount # 0 => ~symbolLocal

\* A form whose amount is converted from its text in the local currency.
ByText(f) == f.local /\ ~HasOriginal(f)

\* What a confirmation shows is what the form holds; and what is converted from
\* a local text is that at the rate there was, if the text was whole.
AlertIsInput ==
    alert # None =>
      /\ rate # None /\ sent = None
      /\ ~ByText(form) => alert.amount = InputAmount(form, rate, session)
      /\ ByText(form) /\ alert.whole =>
           Whole(form.text) /\ alert.amount = FromLocal(form.text, alert.rate)

\* The symbol the form shows is the one that is set, but for an empty form
\* before the first rates; and a number is in the unit of that symbol.
SymbolAgrees ==
    /\ form.local = symbolLocal \/ (rate = None /\ form.text = None)
    /\ symbolLocal /\ ~form.local => typed = None
    /\ form.text # None => symbolLocal = (unit = "local")

\* Form f holds the amount t entered in BTC, in its text or as the original.
Holds(f, t) ==
    t # None =>
      /\ ~f.changed /\ (f.text = None => t = 0)
      /\ IF f.local THEN f.original = t /\ (t = 0 => Num(f.text) = 0) ELSE Num(f.text) = t

\* The original is the amount, too, once the delayed conversion is done.
OriginalIsThere ==
    typed # None /\ session = "open" /\ ~pending => form.original = typed

\* The inductive invariants: of the form, and of an amount entered in BTC, which
\* also needs that nobody toggles before the delayed conversion.
FormInv == Fields /\ OfSession /\ AlertIsInput /\ SymbolAgrees
AmountInv == FormInv /\ Holds(form, typed) /\ OriginalIsThere

-----------------------------------------------------------------------------
\* The display of a form in the symbol sl: what a reload, a toggle and a scan
\* have in common.
Reshown(f, switched, sl, r, s) ==
    Converted(Rewritten(Displayed(f, r, sl), switched, r, s), r, s)

\* Division rounds to a natural number, and nothing is worth nothing in either
\* currency.
LEMMA DivNat ==
    ASSUME NEW n \in Nat, NEW d \in Nat \ {0}
    PROVE  n \div d \in Nat /\ n % d \in Nat /\ 0 \div d = 0 /\ 0 % d = 0
  OBVIOUS

\* ToLocal prints a natural number, 0 as 0.
LEMMA ToLocalNat ==
    ASSUME NEW a \in Nat, NEW r \in Rates
    PROVE  ToLocal(a, r) \in Nat /\ ToLocal(0, r) = 0
<1>1. r \in Nat \ {0} /\ LocalTick \in Nat \ {0}
  BY SendAmountAssumption
<1>2. a \div r \in Nat /\ a % r \in Nat /\ 0 \div r = 0 /\ 0 % r = 0
  BY <1>1, DivNat
<1>3. Rounded(a, r) \in Nat
  BY <1>2 DEF Rounded
<1>4. Rounded(0, r) = 0
  <2>1. ~(2 * (0 % r) > r) /\ ~(2 * (0 % r) = r)
    BY <1>1, <1>2
  <2> QED
    BY <2>1, <1>2 DEF Rounded
<1>5. \A x \in Nat : x * LocalTick \in Nat /\ 0 * LocalTick = 0
  BY <1>1
<1> QED
  BY <1>3, <1>4, <1>5 DEF ToLocal

\* A multiple divided by its factor.
LEMMA Times ==
    ASSUME NEW n \in Nat, NEW d \in Nat \ {0}
    PROVE  /\ (n * d) \div d = n /\ (n * d) % d = 0
<1> DEFINE m == n * d
<1>1. m \in Nat /\ m = d * n
  OBVIOUS
<1> HIDE DEF m
<1>2. m = d * (m \div d) + (m % d) /\ m % d \in 0..(d - 1) /\ m \div d \in Nat
  BY <1>1
<1> DEFINE q == m \div d  r == m % d
<1>3. q \in Nat /\ r \in 0..(d-1) /\ d * n = d * q + r
  BY <1>1, <1>2
<1> HIDE DEF q, r
<1>4. q = n /\ r = 0
  <2>1. CASE q < n
    <3>1. PICK k \in Nat : n = q + 1 + k
      <4>1. n - q - 1 \in Nat /\ n = q + 1 + (n - q - 1)
        BY <1>3, <2>1
      <4> QED BY <4>1
    <3>2. d * n = d * q + d + d * k /\ d * k \in Nat /\ d * q \in Nat
      BY <1>3, <3>1
    <3> QED BY <1>3, <3>2
  <2>2. CASE q > n
    <3>1. PICK k \in Nat : q = n + 1 + k
      <4>1. q - n - 1 \in Nat /\ q = n + 1 + (q - n - 1)
        BY <1>3, <2>2
      <4> QED BY <4>1
    <3>2. d * q = d * n + d + d * k /\ d * k \in Nat /\ d * n \in Nat
      BY <1>3, <3>1
    <3> QED BY <1>3, <3>2
  <2>3. CASE q = n
    BY <1>3, <2>3
  <2> QED BY <1>3, <2>1, <2>2, <2>3
<1> QED
  BY <1>4 DEF q, r, m

\* A number in whole cents is read and printed at one rate as it is.
LEMMA WholeKept ==
    ASSUME NEW t \in Nat, Whole(t), NEW r \in Rates
    PROVE  ToLocal(FromLocal(t, r), r) = t
<1> DEFINE k == t \div LocalTick
<1>1. r \in Nat \ {0} /\ LocalTick \in Nat \ {0} /\ r # None /\ t # None
  BY SendAmountAssumption
<1>2. k \in Nat /\ t = k * LocalTick
  BY <1>1 DEF Whole, Num
<1> HIDE DEF k
<1>3. FromLocal(t, r) = (r * t) \div LocalTick
  BY <1>1 DEF FromLocal, Num
<1>4. r * t = (k * r) * LocalTick /\ k * r \in Nat
  BY <1>1, <1>2
<1>5. FromLocal(t, r) = k * r
  BY <1>1, <1>3, <1>4, Times
<1>6. (k * r) \div r = k /\ (k * r) % r = 0
  BY <1>1, <1>2, Times
<1>7. Rounded(k * r, r) = k
  BY <1>1, <1>6 DEF Rounded
<1> QED
  BY <1>2, <1>5, <1>7 DEF ToLocal

\* FromLocal reads a natural number, an empty field and 0 as 0.
LEMMA FromLocalNat ==
    ASSUME NEW t \in Nat \cup {None}, NEW r \in MaybeRate
    PROVE  /\ Num(t) \in Nat /\ FromLocal(t, r) \in Nat
           /\ Num(t) = 0 => FromLocal(t, r) = 0
<1>1. Num(t) \in Nat
  BY DEF Num
<1>2. CASE r = None
  BY <1>1, <1>2 DEF FromLocal
<1>3. CASE r # None
  <2>1. r \in Nat \ {0} /\ LocalTick \in Nat \ {0}
    BY <1>3, SendAmountAssumption DEF MaybeRate
  <2>2. r * Num(t) \in Nat
    BY <2>1, <1>1
  <2>3. (r * Num(t)) \div LocalTick \in Nat /\ 0 \div LocalTick = 0
    BY <2>1, <2>2, DivNat
  <2>4. Num(t) = 0 => r * Num(t) = 0
    BY <2>1
  <2> QED
    BY <1>1, <1>3, <2>3, <2>4 DEF FromLocal
<1> QED
  BY <1>2, <1>3

\* The amounts that are read from a form are natural numbers.
LEMMA AmountNat ==
    ASSUME NEW f \in Form, NEW switched \in BOOLEAN, NEW r \in MaybeRate, NEW s \in Sessions
    PROVE  InputAmount(f, r, s) \in Nat /\ AmountOf(f, switched, r, s) \in Nat
<1>1. f.text \in Nat \cup {None} /\ f.original \in Nat
  BY DEF Form
<1>2. Num(f.text) \in Nat /\ FromLocal(f.text, r) \in Nat
  BY <1>1, FromLocalNat
<1> QED
  BY <1>1, <1>2 DEF InputAmount, AmountOf, ParseBitcoinValue

\* doCurrencyConversion changes the label, which then is the amount, and the
\* original of a form in BTC, which then is its number.
LEMMA ConvertedForm ==
    ASSUME NEW f \in Form, NEW r \in MaybeRate, NEW s \in Sessions,
           NEW g, g = Converted(f, r, s)
    PROVE  /\ g \in Form
           /\ g.text = f.text /\ g.local = f.local /\ g.changed = f.changed
           /\ g.original = IF f.local THEN f.original ELSE ParseBitcoinValue(f.text, s)
           /\ InputAmount(g, r, s) = InputAmount(f, r, s)
           /\ g.label = InputAmount(g, r, s)
<1> DEFINE a == IF f.text = None THEN 0 ELSE InputAmount(f, r, s)
<1>1. InputAmount(f, r, s) \in Nat /\ f.local \in BOOLEAN /\ f.original \in Nat
  BY AmountNat DEF Form
<1>2. g = [f EXCEPT !.label = IF f.local /\ HasOriginal(f) THEN f.original ELSE a,
                    !.original = IF f.local THEN @ ELSE a]
  BY DEF Converted
<1>3. a \in Nat
  BY <1>1
<1> HIDE DEF a
<1>4. /\ g \in Form
      /\ g.text = f.text /\ g.local = f.local /\ g.changed = f.changed
      /\ g.original = (IF f.local THEN f.original ELSE a)
      /\ g.label = (IF f.local /\ HasOriginal(f) THEN f.original ELSE a)
  BY <1>1, <1>2, <1>3 DEF Form
<1>5. f.text = None => Num(f.text) = 0 /\ FromLocal(f.text, r) = 0
  BY FromLocalNat DEF Num
<1>6. ~f.local => a = ParseBitcoinValue(f.text, s)
  BY <1>5 DEF a, InputAmount, ParseBitcoinValue
<1>7. InputAmount(g, r, s) = InputAmount(f, r, s)
  BY <1>4 DEF InputAmount, HasOriginal
<1>8. g.label = InputAmount(f, r, s)
  BY <1>4, <1>5, <1>6 DEF a, InputAmount
<1> QED
  BY <1>4, <1>6, <1>7, <1>8

\* Only the number of a field that is not empty is rewritten, with rates; when
\* nothing switched, a number in BTC is rewritten as it is.
LEMMA RewrittenForm ==
    ASSUME NEW f \in Form, NEW switched \in BOOLEAN, NEW r \in MaybeRate, NEW s \in Sessions,
           NEW g, g = Rewritten(f, switched, r, s)
    PROVE  /\ g \in Form
           /\ g.local = f.local /\ g.original = f.original
           /\ g.changed = f.changed /\ g.label = f.label
           /\ f.text = None \/ r = None => g.text = f.text
           /\ f.text # None /\ r # None =>
                g.text = IF f.local THEN ToLocal(AmountOf(f, switched, r, s), r)
                                    ELSE AmountOf(f, switched, r, s)
           /\ g.text = None <=> f.text = None
<1> DEFINE a == AmountOf(f, switched, r, s)
<1>1. a \in Nat
  BY AmountNat
<1>2. CASE f.text = None \/ r = None
  BY <1>2 DEF Rewritten
<1>3. CASE f.text # None /\ r # None
  <2>1. r \in Rates
    BY <1>3 DEF MaybeRate
  <2>2. ToLocal(a, r) \in Nat
    BY <1>1, <2>1, ToLocalNat
  <2>3. g = [f EXCEPT !.text = IF f.local THEN ToLocal(a, r) ELSE a]
    BY <1>3 DEF Rewritten
  <2> HIDE DEF a
  <2>4. g.text = (IF f.local THEN ToLocal(a, r) ELSE a) /\ g.text \in Nat
    BY <1>1, <2>2, <2>3 DEF Form
  <2>5. /\ g \in Form /\ g.local = f.local /\ g.original = f.original
        /\ g.changed = f.changed /\ g.label = f.label
    BY <2>3, <2>4 DEF Form
  <2>6. g.text # None
    BY <2>4, SendAmountAssumption
  <2> QED
    BY <1>3, <2>4, <2>5, <2>6 DEF a
<1> QED
  BY <1>2, <1>3

\* A form that is displayed anew is in the symbol sl if there are rates, is empty
\* only if it was, and its label is its amount.  With new rates alone, an amount
\* in BTC and one with an original stay what they are, and so does a local text
\* in whole cents.
ReshownAs(f, switched, sl, r, s, g) ==
    /\ g \in Form
    /\ g.local = IF r = None THEN f.local ELSE sl
    /\ g.text = None <=> f.text = None
    /\ g.label = InputAmount(g, r, s)
    /\ g.local => HasOriginal(g) = HasOriginal(f)
    /\ ~switched /\ sl = f.local /\ s # "loading" =>
         \A r0 : ~f.local \/ HasOriginal(f) =>
                InputAmount(g, r, s) = InputAmount(f, r0, s)
    /\ ~switched /\ sl = f.local /\ f.local /\ Whole(f.text) => g.text = f.text

\* Both Booleans are Booleans: for the lemmas that are used at TRUE and at FALSE.
LEMMA Booleans == TRUE \in BOOLEAN /\ FALSE \in BOOLEAN
  OBVIOUS

\* Every form is displayed anew like that.
LEMMA ReshownForm ==
    ASSUME NEW f \in Form, NEW switched \in BOOLEAN, NEW sl \in BOOLEAN,
           NEW r \in MaybeRate, NEW s \in Sessions
    PROVE  ReshownAs(f, switched, sl, r, s, Reshown(f, switched, sl, r, s))
<1> DEFINE d == Displayed(f, r, sl)
           w == Rewritten(d, switched, r, s)
           g == Reshown(f, switched, sl, r, s)
<1>1. /\ d \in Form /\ d.local = (IF r = None THEN f.local ELSE sl)
      /\ d.text = f.text /\ d.original = f.original /\ d.changed = f.changed
  BY DEF Displayed, Form
<1> HIDE DEF d
<1>2. /\ w \in Form /\ w.local = d.local
      /\ w.original = d.original /\ w.changed = d.changed
      /\ d.text = None \/ r = None => w.text = d.text
      /\ d.text # None /\ r # None =>
           w.text = IF d.local THEN ToLocal(AmountOf(d, switched, r, s), r)
                               ELSE AmountOf(d, switched, r, s)
      /\ w.text = None <=> d.text = None
  BY <1>1, RewrittenForm
<1> HIDE DEF w
<1>3. g = Converted(w, r, s)
  BY DEF Reshown, d, w
<1> HIDE DEF g
<1>4. /\ g \in Form
      /\ g.text = w.text /\ g.local = w.local /\ g.changed = w.changed
      /\ g.original = IF w.local THEN w.original ELSE ParseBitcoinValue(w.text, s)
      /\ g.label = InputAmount(g, r, s)
  BY <1>2, <1>3, ConvertedForm
<1>5. g.local => HasOriginal(g) = HasOriginal(f)
  BY <1>1, <1>2, <1>4 DEF HasOriginal
<1>6. ASSUME ~switched, sl = f.local, s # "loading", NEW r0, ~f.local \/ HasOriginal(f)
      PROVE  InputAmount(g, r, s) = InputAmount(f, r0, s)
  <2>1. d.local = f.local
    BY <1>1, <1>6
  <2>2. CASE f.local
    BY <1>1, <1>2, <1>4, <1>5, <1>6, <2>1, <2>2 DEF InputAmount, HasOriginal
  <2>3. CASE ~f.local
    <3>1. AmountOf(d, switched, r, s) = Num(d.text)
      BY <1>6, <2>1, <2>3, <1>1 DEF AmountOf, ParseBitcoinValue, Form
    <3>2. Num(w.text) = Num(f.text)
      <4>1. CASE f.text = None \/ r = None
        BY <4>1, <1>1, <1>2
      <4>2. CASE f.text # None /\ r # None
        <5>1. w.text = Num(f.text)
          BY <4>2, <1>1, <1>2, <2>1, <2>3, <3>1
        <5>2. Num(f.text) \in Nat
          BY FromLocalNat DEF Form
        <5> QED
          BY <5>1, <5>2, SendAmountAssumption DEF Num
      <4> QED
        BY <4>1, <4>2
    <3> QED
      BY <1>1, <1>2, <1>4, <1>6, <2>1, <2>3, <3>2 DEF InputAmount, ParseBitcoinValue
  <2> QED
    BY <2>2, <2>3 DEF Form
<1>7. ASSUME ~switched, sl = f.local, f.local, Whole(f.text)
      PROVE  g.text = f.text
  <2>1. CASE f.text = None \/ r = None
    BY <2>1, <1>1, <1>2, <1>4
  <2>2. CASE f.text # None /\ r # None
    <3>1. d.local /\ d.text = f.text
      BY <1>1, <1>7
    <3>2. AmountOf(d, switched, r, s) = FromLocal(f.text, r)
      BY <1>7, <3>1 DEF AmountOf
    <3>3. f.text \in Nat /\ r \in Rates
      BY <2>2 DEF Form, MaybeRate
    <3>4. ToLocal(FromLocal(f.text, r), r) = f.text
      BY <1>7, <3>3, WholeKept
    <3> QED
      BY <2>2, <1>2, <1>4, <3>1, <3>2, <3>4
  <2> QED
    BY <2>1, <2>2
<1>8. ReshownAs(f, switched, sl, r, s, g)
  BY <1>1, <1>2, <1>4, <1>5, <1>6, <1>7 DEF ReshownAs
<1> QED
  BY <1>8 DEF g

\* What a form holds is held after doCurrencyConversion, and then the original
\* is that amount unless the page is still loading.
LEMMA ConvertedHolds ==
    ASSUME NEW f \in Form, NEW r \in MaybeRate, NEW s \in Sessions,
           NEW t \in Nat \cup {None}, Holds(f, t),
           NEW g, g = Converted(f, r, s)
    PROVE  Holds(g, t) /\ (t # None /\ s # "loading" => g.original = t)
<1>1. /\ g.text = f.text /\ g.local = f.local /\ g.changed = f.changed
      /\ g.original = IF f.local THEN f.original ELSE ParseBitcoinValue(f.text, s)
  BY ConvertedForm
<1> QED
  BY <1>1 DEF Holds, ParseBitcoinValue

\* An empty field stands for 0, a number for itself.
LEMMA NumOf ==
    ASSUME NEW n \in Nat
    PROVE  Num(n) = n /\ n # None /\ Num(None) = 0
  BY SendAmountAssumption DEF Num

\* What a form holds is held when its number is rewritten and nothing switched.
LEMMA RewrittenHolds ==
    ASSUME NEW f \in Form, NEW switched \in BOOLEAN, ~switched,
           NEW r \in MaybeRate, NEW s \in Sessions, s # "loading",
           NEW t \in Nat \cup {None}, Holds(f, t),
           NEW g, g = Rewritten(f, switched, r, s)
    PROVE  Holds(g, t)
<1> DEFINE a == AmountOf(f, switched, r, s)
<1>1. /\ g.local = f.local /\ g.original = f.original /\ g.changed = f.changed
      /\ f.text = None \/ r = None => g.text = f.text
      /\ f.text # None /\ r # None =>
           g.text = IF f.local THEN ToLocal(a, r) ELSE a
      /\ g.text = None <=> f.text = None
  BY RewrittenForm
<1>2. a \in Nat
  BY AmountNat
<1>3. a = IF f.local THEN FromLocal(f.text, r) ELSE Num(f.text)
  BY DEF AmountOf, ParseBitcoinValue, Form
<1> HIDE DEF a
<1>4. CASE f.text = None \/ r = None \/ t = None
  BY <1>1, <1>4 DEF Holds
<1>5. CASE f.text # None /\ r # None /\ t # None
  <2>1. CASE f.local
    <3>1. t = 0 => a = 0
      BY <1>3, <1>5, <2>1, FromLocalNat DEF Holds, Form
    <3>2. ToLocal(0, r) = 0
      BY <1>5, ToLocalNat DEF MaybeRate
    <3>3. t = 0 => Num(g.text) = 0
      BY <1>1, <1>5, <2>1, <3>1, <3>2, NumOf
    <3> QED
      BY <1>1, <1>5, <2>1, <3>3 DEF Holds
  <2>2. CASE ~f.local
    <3>1. a = t
      BY <1>3, <1>5, <2>2 DEF Holds
    <3>2. Num(g.text) = t
      BY <1>1, <1>2, <1>5, <2>2, <3>1, NumOf
    <3> QED
      BY <1>1, <1>5, <2>2, <3>2 DEF Holds
  <2> QED
    BY <2>1, <2>2
<1> QED
  BY <1>4, <1>5

\* What a form h holds is held when it is displayed in the other currency and
\* its number is rewritten for that, if its original is the amount.
LEMMA SwitchedHolds ==
    ASSUME NEW h \in Form, NEW switched \in BOOLEAN, switched # FALSE, NEW r \in Rates, NEW s \in Sessions, s # "loading",
           NEW t \in Nat \cup {None}, Holds(h, t), t # None => h.original = t,
           NEW g, g = Rewritten(Displayed(h, r, ~h.local), switched, r, s)
    PROVE  Holds(g, t)
<1> DEFINE f == Displayed(h, r, ~h.local)
           a == AmountOf(f, switched, r, s)
<1>0. r # None /\ r \in MaybeRate
  BY SendAmountAssumption DEF MaybeRate
<1>1. /\ f \in Form /\ f.local = ~h.local /\ f.text = h.text
      /\ f.original = h.original /\ f.changed = h.changed
  BY <1>0 DEF Displayed, Form
<1>8. g = Rewritten(f, switched, r, s)
  OBVIOUS
<1> HIDE DEF f
<1>2. /\ g.local = f.local /\ g.original = f.original /\ g.changed = f.changed
      /\ f.text = None => g.text = f.text
      /\ f.text # None => g.text = IF f.local THEN ToLocal(a, r) ELSE a
      /\ g.text = None <=> f.text = None
  BY <1>0, <1>1, <1>8, RewrittenForm
<1>3. a \in Nat
  BY <1>0, <1>1, AmountNat
<1>4. a = IF ~f.local /\ HasOriginal(f) THEN f.original
         ELSE IF f.local THEN Num(f.text) ELSE FromLocal(f.text, r)
  BY <1>1 DEF AmountOf, ParseBitcoinValue, Form
<1> HIDE DEF a
<1>5. CASE t = None
  BY <1>5 DEF Holds
<1>6. CASE t # None /\ f.local
  <2>1. Num(f.text) = t /\ f.original = t
    BY <1>1, <1>6 DEF Holds
  <2>2. t = 0 => Num(g.text) = 0
    <3>1. ToLocal(0, r) = 0
      BY ToLocalNat
    <3>2. a = t
      BY <1>4, <1>6, <2>1
    <3> QED
      BY <1>2, <1>6, <2>1, <3>1, <3>2, NumOf
  <2> QED
    BY <1>1, <1>2, <1>6, <2>1, <2>2 DEF Holds
<1>7. CASE t # None /\ ~f.local
  <2>1. f.original = t /\ ~f.changed /\ (t = 0 => Num(f.text) = 0) /\ (f.text = None => t = 0)
    BY <1>1, <1>7 DEF Holds
  <2>2. a = t
    BY <1>1, <1>4, <1>7, <2>1, <1>0, FromLocalNat DEF HasOriginal, Form
  <2>3. Num(g.text) = t
    BY <1>2, <1>3, <1>7, <2>1, <2>2, NumOf
  <2> QED
    BY <1>1, <1>2, <1>7, <2>1, <2>3 DEF Holds
<1> QED
  BY <1>5, <1>6, <1>7

\* When is what a form holds held by the form displayed anew?  After new rates
\* if the display alone does not lose it, after a toggle if the original is it.
CanShow(f, t, switched, sl, r, s) ==
    /\ t \in Nat \cup {None} /\ (r = None \/ switched => Holds(f, t))
    /\ r # None => /\ s # "loading"
                   /\ IF switched THEN sl # f.local /\ (t # None => f.original = t)
                                  ELSE Holds(Displayed(f, r, sl), t)

\* Form g holds t, as its original too unless the page is loading.
HoldsAnew(g, t, s) == Holds(g, t) /\ (t # None /\ s # "loading" => g.original = t)

\* The form displayed anew holds it, when it can show it.
LEMMA ReshownHolds ==
    ASSUME NEW f \in Form, NEW t, NEW switched \in BOOLEAN, NEW sl \in BOOLEAN,
           NEW r \in MaybeRate, NEW s \in Sessions,
           CanShow(f, t, switched, sl, r, s)
    PROVE  HoldsAnew(Reshown(f, switched, sl, r, s), t, s)
<1>a. /\ r # None => s # "loading"
      /\ t \in Nat \cup {None} /\ (r = None \/ switched => Holds(f, t))
      /\ r # None /\ ~switched => Holds(Displayed(f, r, sl), t)
      /\ r # None /\ switched => sl # f.local /\ (t # None => f.original = t)
  BY DEF CanShow
<1> DEFINE d == Displayed(f, r, sl)
           w == Rewritten(d, switched, r, s)
           g == Reshown(f, switched, sl, r, s)
<1>1. d \in Form
  BY DEF Displayed, Form
<1>2. w \in Form
  BY <1>1, RewrittenForm
<1>3. Holds(w, t)
  <2>1. CASE r = None
    <3>1. d = f
      BY <2>1 DEF Displayed
    <3>2. w = d
      BY <2>1 DEF Rewritten
    <3> QED
      BY <1>a, <2>1, <3>1, <3>2
  <2>2. CASE r # None /\ ~switched
    <3>1. Holds(d, t)
      BY <1>a, <2>2
    <3> HIDE DEF d
    <3> QED
      BY <1>a, <2>2, <3>1, <1>1, RewrittenHolds
  <2>3. CASE r # None /\ switched
    <3>1. sl = ~f.local /\ r \in Rates
      BY <1>a, <2>3 DEF MaybeRate, Form
    <3>2. w = Rewritten(Displayed(f, r, ~f.local), switched, r, s)
      BY <3>1
    <3> HIDE DEF w
    <3> QED
      BY <1>a, <2>3, <3>1, <3>2, SwitchedHolds
  <2> QED
    BY <2>1, <2>2, <2>3
<1>4. g = Converted(w, r, s)
  BY DEF Reshown
<1> HIDE DEF w, g
<1>5. HoldsAnew(g, t, s)
  BY <1>a, <1>2, <1>3, <1>4, ConvertedHolds DEF HoldsAnew
<1> QED
  BY <1>5 DEF g
-----------------------------------------------------------------------------
\* A reload displays the form anew, with the amount of a link if it takes that.
Reloaded(f, u, switched, sl, r, s, initial) ==
    /\ IF initial > 0 /\ r # None
         THEN /\ Populated(f, initial) \in Form
              /\ form' = Reshown(Populated(f, initial), switched, sl, r, s)
              /\ initialToAmount' = 0 /\ typed' = initial /\ unit' = "btc"
         ELSE /\ form' = Reshown(f, switched, sl, r, s)
              /\ initialToAmount' = initial /\ typed' = typed
              /\ unit' = IF switched /\ r # None
                           THEN (IF sl THEN "local" ELSE "btc") ELSE u
    /\ form' \in Form /\ initialToAmount' \in Nat
    /\ form'.label = InputAmount(form', r, s)

\* Every reload is like that.
LEMMA ReloadShows ==
    ASSUME NEW f \in Form, NEW u, NEW switched \in BOOLEAN, NEW sl \in BOOLEAN,
           NEW r \in MaybeRate, NEW s \in Sessions, NEW initial \in Nat,
           Reload(f, u, switched, sl, r, s, initial)
    PROVE  Reloaded(f, u, switched, sl, r, s, initial)
<1>1. Populated(f, initial) \in Form
  BY DEF Populated, Form
<1>2. IF initial > 0 /\ r # None
        THEN /\ form' = Reshown(Populated(f, initial), switched, sl, r, s)
             /\ initialToAmount' = 0 /\ typed' = initial /\ unit' = "btc"
        ELSE /\ form' = Reshown(f, switched, sl, r, s)
             /\ initialToAmount' = initial /\ typed' = typed
             /\ unit' = IF switched /\ r # None
                          THEN (IF sl THEN "local" ELSE "btc") ELSE u
  BY DEF Reload, Reshown
<1>3. form' \in Form /\ form'.label = InputAmount(form', r, s)
  <2>1. \A h \in Form : /\ Reshown(h, switched, sl, r, s) \in Form
                        /\ Reshown(h, switched, sl, r, s).label =
                             InputAmount(Reshown(h, switched, sl, r, s), r, s)
    BY ReshownForm DEF ReshownAs
  <2> QED
    BY <1>1, <1>2, <2>1
<1> QED
  BY <1>1, <1>2, <1>3 DEF Reloaded

\* A scan with rates in the local currency displays its code's amount in that.
LEMMA ScanShows ==
    ASSUME Fields, NEW a \in Numbers \cup {0}, Scan(a)
    PROVE  \E g \in Form :
             /\ g.text = (IF a = 0 THEN None ELSE a) /\ g.original = a /\ ~g.changed
             /\ g.local = (IF rate = None THEN form.local ELSE FALSE)
             /\ IF symbolLocal
                  THEN /\ form' = Reshown(g, TRUE, TRUE, rate, session)
                       /\ unit' = IF rate = None THEN "btc" ELSE "local"
                  ELSE /\ form' = Converted(g, rate, session) /\ unit' = "btc"
<1> DEFINE f == Displayed(form, rate, FALSE)
           g == [f EXCEPT !.text = IF a = 0 THEN None ELSE a, !.original = a, !.changed = FALSE]
<1>1. a \in Nat
  BY SendAmountAssumption
<1>2. f \in Form /\ f.local = (IF rate = None THEN form.local ELSE FALSE)
  BY DEF Fields, Displayed, Form
<1> HIDE DEF f
<1>3. /\ g \in Form /\ g.text = (IF a = 0 THEN None ELSE a) /\ g.original = a
      /\ g.changed = FALSE /\ g.local = f.local
  BY <1>1, <1>2 DEF Form
<1>4. \/ /\ symbolLocal
         /\ form' = Reshown(g, TRUE, TRUE, rate, session)
         /\ unit' = IF rate = None THEN "btc" ELSE "local"
      \/ /\ ~symbolLocal
         /\ form' = Converted(g, rate, session) /\ unit' = "btc"
  BY DEF Scan, Reshown, f
<1> HIDE DEF g
<1> QED
  BY <1>2, <1>3, <1>4

\* Init puts every part in its place.
LEMMA FieldsInit == Init => Fields
<1> SUFFICES ASSUME Init PROVE Fields
  OBVIOUS
<1>1. form \in Form
  BY DEF Init, Form
<1> QED
  BY <1>1 DEF Init, Fields, MaybeRate, Sessions

\* No step takes a part out of its place.
LEMMA FieldsStep == Fields /\ [Next]_vars => Fields'
<1> SUFFICES ASSUME Fields, [Next]_vars
             PROVE  Fields'
  OBVIOUS
<1>0. /\ form \in Form /\ rate \in MaybeRate /\ session \in Sessions
      /\ initialToAmount \in Nat /\ symbolLocal \in BOOLEAN
      /\ InputAmount(form, rate, session) \in Nat
  BY AmountNat DEF Fields
<1>1. ASSUME NEW t \in Numbers \cup {None}, Type(t)
      PROVE  Fields'
  <2>1. t \in Nat \cup {None} /\ Num(t) \in Nat
    BY SendAmountAssumption DEF Num
  <2>2. form' \in Form
    BY <1>0, <1>1, <2>1 DEF Type, Form
  <2> QED
    BY <1>1, <2>1, <2>2 DEF Type, Fields
<1>2. CASE DoCurrencyConversion
  <2>1. form' \in Form
    BY <1>0, <1>2, ConvertedForm DEF DoCurrencyConversion
  <2> QED
    BY <1>2, <2>1 DEF DoCurrencyConversion, Fields, history
<1>a. ASSUME NEW f \in Form, NEW u \in {"btc", "local"}, NEW switched \in BOOLEAN,
             NEW sl \in BOOLEAN, NEW r \in MaybeRate, NEW initial \in Nat,
             Reload(f, u, switched, sl, r, session, initial)
      PROVE  /\ form' \in Form /\ initialToAmount' \in Nat
             /\ typed' \in Nat \cup {None} /\ unit' \in {"btc", "local"}
  BY <1>0, <1>a, ReloadShows DEF Reloaded, Fields
<1>3. CASE BtcCodeClicked
  <2>1. Reload(form, unit, TRUE, ~symbolLocal, rate, session, initialToAmount)
    BY <1>3 DEF BtcCodeClicked, toggleSymbol
  <2>2. (~symbolLocal) \in BOOLEAN /\ unit \in {"btc", "local"}
    <3>1. unit \in {"btc", "local"}
      BY DEF Fields
    <3>2. \A b \in BOOLEAN : (~b) \in BOOLEAN
      OBVIOUS
    <3> QED
      BY <1>0, <3>1, <3>2, Zenon
  <2>3. /\ form' \in Form /\ initialToAmount' \in Nat
        /\ typed' \in Nat \cup {None} /\ unit' \in {"btc", "local"}
    BY <1>0, <1>a, <2>1, <2>2, Booleans, Zenon
  <2> QED
    BY <1>3, <2>2, <2>3 DEF BtcCodeClicked, toggleSymbol, Fields
<1>4. ASSUME NEW a \in Numbers \cup {0}, Scan(a)
      PROVE  Fields'
  <2>1. PICK g \in Form :
             IF symbolLocal
               THEN /\ form' = Reshown(g, TRUE, TRUE, rate, session)
                    /\ unit' = IF rate = None THEN "btc" ELSE "local"
               ELSE /\ form' = Converted(g, rate, session) /\ unit' = "btc"
    BY <1>4, ScanShows
  <2>2. form' \in Form
    <3>1. CASE symbolLocal
      <4>1. form' = Reshown(g, TRUE, TRUE, rate, session)
        BY <2>1, <3>1
      <4>2. ReshownAs(g, TRUE, TRUE, rate, session, form')
        BY <1>0, <4>1, ReshownForm, Booleans, Zenon
      <4> QED
        BY <4>2 DEF ReshownAs
    <3>2. CASE ~symbolLocal
      BY <1>0, <2>1, <3>2, ConvertedForm
    <3> QED
      BY <3>1, <3>2
  <2>3. unit' \in {"btc", "local"}
    BY <2>1
  <2>4. typed' \in Nat /\ initialToAmount' \in Nat
    BY <1>0, <1>4, SendAmountAssumption DEF Scan
  <2> QED
    BY <1>4, <2>2, <2>3, <2>4 DEF Scan, Fields
<1>5. ASSUME NEW a \in Numbers \cup {0}, HandleOpenURL(a)
      PROVE  Fields'
  <2>1. PICK f \in Form, u \in {"btc", "local"} :
              Reload(f, u, FALSE, FALSE, rate, session, a)
    <3>1. ReshownAs(form, TRUE, FALSE, rate, session, Reshown(form, TRUE, FALSE, rate, session))
      BY <1>0, ReshownForm, Booleans, Zenon
    <3>2. Reshown(form, TRUE, FALSE, rate, session) \in Form
      BY <3>1 DEF ReshownAs
    <3> QED
      BY <1>0, <1>5, <3>2 DEF HandleOpenURL, Reshown, Fields
  <2>2. a \in Nat
    BY SendAmountAssumption
  <2>3. form' \in Form /\ initialToAmount' \in Nat
        /\ typed' \in Nat \cup {None} /\ unit' \in {"btc", "local"}
    BY <1>0, <1>a, <2>1, <2>2, Booleans, Zenon
  <2> QED
    BY <1>5, <2>3 DEF HandleOpenURL, Fields
<1>6. ASSUME NEW r \in Rates, DidGetMultiAddressResponse(r)
      PROVE  Fields'
  <2>1. r \in MaybeRate
    BY DEF MaybeRate
  <2>2. form' \in Form /\ initialToAmount' \in Nat
        /\ typed' \in Nat \cup {None} /\ unit' \in {"btc", "local"}
    <3>1. Reload(form, unit, FALSE, symbolLocal, r, session, initialToAmount)
      BY <1>6 DEF DidGetMultiAddressResponse
    <3>2. typed \in Nat \cup {None} /\ unit \in {"btc", "local"}
      BY DEF Fields
    <3> QED
      BY <1>0, <1>a, <2>1, <3>1, <3>2, Booleans, Zenon
  <2> QED
    BY <1>6, <2>1, <2>2 DEF DidGetMultiAddressResponse, Fields
<1>7. CASE SendPaymentClicked
  <2>1. Whole(form.text) \in BOOLEAN
    BY DEF Whole
  <2>2. alert' \in [amount : Nat, rate : MaybeRate, whole : BOOLEAN]
    BY <1>0, <1>7, <2>1 DEF SendPaymentClicked
  <2> QED
    BY <1>0, <1>7, <2>2 DEF SendPaymentClicked, Fields, history
<1>8. CASE Confirmed
  <2>1. sent' = sent \/ sent' \in [asked : Nat, amount : Nat, exact : BOOLEAN]
    <3>0. alert # None
      BY <1>8 DEF Confirmed
    <3>1. alert.amount \in Nat
      BY <3>0 DEF Fields
    <3> DEFINE b == ~form.local \/ HasOriginal(form) \/ (alert.rate = rate /\ alert.whole)
    <3>2. b \in BOOLEAN
      OBVIOUS
    <3>3. \/ sent' = sent
          \/ sent' = [asked |-> alert.amount, amount |-> InputAmount(form, rate, session), exact |-> b]
      BY <1>8 DEF Confirmed
    <3> HIDE DEF b
    <3> QED
      BY <1>0, <3>1, <3>2, <3>3
  <2> QED
    BY <1>8, <2>1 DEF Confirmed, Fields, history
<1>9. CASE SendEnds
  <2> DEFINE g == [form EXCEPT !.text = None, !.original = 0, !.changed = FALSE]
  <2>1. g \in Form
    BY <1>0 DEF Form
  <2>2. form' = form \/ form' = Converted(g, rate, session)
    BY <1>9 DEF SendEnds
  <2> HIDE DEF g
  <2>3. form' \in Form
    BY <1>0, <2>1, <2>2, ConvertedForm
  <2> QED
    BY <1>9, <2>3 DEF SendEnds, Fields, history
<1>10. CASE PageLoads
  BY <1>10 DEF PageLoads, Fields, MaybeRate, Sessions, history
<1>13. CASE logout
  <2>1. form' \in Form /\ initialToAmount' \in Nat
        /\ typed' \in Nat \cup {None} /\ unit' \in {"btc", "local"}
    <3>1. Reload(form, unit, FALSE, symbolLocal, None, "loading", initialToAmount)
      BY <1>13 DEF logout
    <3>2. /\ typed \in Nat \cup {None} /\ unit \in {"btc", "local"}
          /\ None \in MaybeRate /\ "loading" \in Sessions
      BY DEF Fields, MaybeRate, Sessions
    <3>3. Reloaded(form, unit, FALSE, symbolLocal, None, "loading", initialToAmount)
      BY <1>0, <3>1, <3>2, ReloadShows, Booleans, Zenon
    <3> QED
      BY <1>0, <3>2, <3>3 DEF Reloaded
  <2> QED
    BY <1>13, <2>1 DEF logout, Fields, MaybeRate, Sessions
<1>14. CASE DidBackupWallet
  <2>1. form' \in Form /\ initialToAmount' \in Nat
        /\ typed' \in Nat \cup {None} /\ unit' \in {"btc", "local"}
    <3>1. Reload(form, unit, FALSE, symbolLocal, rate, session, initialToAmount)
      BY <1>14 DEF DidBackupWallet
    <3>2. typed \in Nat \cup {None} /\ unit \in {"btc", "local"}
      BY DEF Fields
    <3> QED
      BY <1>0, <1>a, <3>1, <3>2, Booleans, Zenon
  <2> QED
    BY <1>14, <2>1 DEF DidBackupWallet, Fields
<1>11. CASE WalletDidDecrypt
  <2>1. form' \in Form /\ initialToAmount' \in Nat
        /\ typed' \in Nat \cup {None} /\ unit' \in {"btc", "local"}
    <3>1. Reload(form, unit, FALSE, symbolLocal, rate, session, initialToAmount)
      BY <1>11 DEF WalletDidDecrypt
    <3>2. typed \in Nat \cup {None} /\ unit \in {"btc", "local"}
      BY DEF Fields
    <3> QED
      BY <1>0, <1>a, <3>1, <3>2, Booleans, Zenon
  <2> QED
    BY <1>11, <2>1 DEF WalletDidDecrypt, Fields, Sessions
<1>12. CASE UNCHANGED vars
  BY <1>12 DEF vars, Fields
<1> QED
  BY <1>1, <1>2, <1>3, <1>4, <1>5, <1>6, <1>7, <1>8, <1>9, <1>10, <1>11, <1>12, <1>13, <1>14
     DEF Next

\* Every step but typing leaves the label to be the amount, or both alone.
LEMMA LabelStep == Fields /\ LabelIsInputAmount /\ [Next]_vars => LabelIsInputAmount'
<1> SUFFICES ASSUME Fields, LabelIsInputAmount, [Next]_vars
             PROVE  LabelIsInputAmount'
  OBVIOUS
<1>0. /\ form \in Form /\ rate \in MaybeRate /\ session \in Sessions
      /\ initialToAmount \in Nat /\ symbolLocal \in BOOLEAN
  BY DEF Fields
<1>a. ASSUME NEW f \in Form, NEW u, NEW switched \in BOOLEAN,
             NEW sl \in BOOLEAN, NEW r \in MaybeRate, NEW initial \in Nat,
             Reload(f, u, switched, sl, r, session, initial)
      PROVE  form'.label = InputAmount(form', r, session)
  BY <1>0, <1>a, ReloadShows DEF Reloaded
<1>b. ASSUME NEW f \in Form, form' = Converted(f, rate, session)
      PROVE  form'.label = InputAmount(form', rate, session)
  BY <1>0, <1>b, ConvertedForm
<1>1. ASSUME NEW t \in Numbers \cup {None}, Type(t)
      PROVE  LabelIsInputAmount'
  BY <1>1 DEF Type, LabelIsInputAmount
<1>2. CASE DoCurrencyConversion
  BY <1>0, <1>b, <1>2 DEF DoCurrencyConversion, LabelIsInputAmount
<1>3. CASE BtcCodeClicked
  <2>1. Reload(form, unit, TRUE, ~symbolLocal, rate, session, initialToAmount)
    BY <1>3 DEF BtcCodeClicked, toggleSymbol
  <2>2. (~symbolLocal) \in BOOLEAN
    <3>1. \A b \in BOOLEAN : (~b) \in BOOLEAN
      OBVIOUS
    <3> QED
      BY <1>0, <3>1, Zenon
  <2>3. form'.label = InputAmount(form', rate, session)
    BY <1>0, <1>a, <2>1, <2>2, Booleans, Zenon
  <2> QED
    BY <1>3, <2>3 DEF BtcCodeClicked, LabelIsInputAmount
<1>4. ASSUME NEW a \in Numbers \cup {0}, Scan(a)
      PROVE  LabelIsInputAmount'
  <2>1. PICK g \in Form :
             IF symbolLocal
               THEN form' = Reshown(g, TRUE, TRUE, rate, session)
               ELSE form' = Converted(g, rate, session)
    BY <1>4, ScanShows
  <2>2. form'.label = InputAmount(form', rate, session)
    <3>1. CASE symbolLocal
      <4>1. form' = Reshown(g, TRUE, TRUE, rate, session)
        BY <2>1, <3>1
      <4>2. ReshownAs(g, TRUE, TRUE, rate, session, form')
        BY <1>0, <4>1, ReshownForm, Booleans, Zenon
      <4> QED
        BY <4>2 DEF ReshownAs
    <3>2. CASE ~symbolLocal
      BY <1>b, <2>1, <3>2
    <3> QED
      BY <3>1, <3>2
  <2> QED
    BY <1>4, <2>2 DEF Scan, LabelIsInputAmount
<1>5. ASSUME NEW a \in Numbers \cup {0}, HandleOpenURL(a)
      PROVE  LabelIsInputAmount'
  <2>1. PICK f, u : f \in Form /\ Reload(f, u, FALSE, FALSE, rate, session, a)
    <3>1. ReshownAs(form, TRUE, FALSE, rate, session, Reshown(form, TRUE, FALSE, rate, session))
      BY <1>0, ReshownForm, Booleans, Zenon
    <3>2. Reshown(form, TRUE, FALSE, rate, session) \in Form
      BY <3>1 DEF ReshownAs
    <3> QED
      BY <1>0, <1>5, <3>2 DEF HandleOpenURL, Reshown
  <2>2. a \in Nat
    BY SendAmountAssumption
  <2>3. form'.label = InputAmount(form', rate, session)
    BY <1>0, <1>a, <2>1, <2>2, Booleans, Zenon
  <2> QED
    BY <1>5, <2>3 DEF HandleOpenURL, LabelIsInputAmount
<1>6. ASSUME NEW r \in Rates, DidGetMultiAddressResponse(r)
      PROVE  LabelIsInputAmount'
  <2>1. Reload(form, unit, FALSE, symbolLocal, r, session, initialToAmount)
    BY <1>6 DEF DidGetMultiAddressResponse
  <2>2. r \in MaybeRate
    BY DEF MaybeRate
  <2>3. form'.label = InputAmount(form', r, session)
    BY <1>0, <1>a, <2>1, <2>2, Booleans, Zenon
  <2> QED
    BY <1>6, <2>3 DEF DidGetMultiAddressResponse, LabelIsInputAmount
<1>7. CASE SendPaymentClicked \/ Confirmed
  BY <1>7 DEF SendPaymentClicked, Confirmed, LabelIsInputAmount
<1>8. CASE SendEnds
  <2> DEFINE g == [form EXCEPT !.text = None, !.original = 0, !.changed = FALSE]
  <2>1. g \in Form
    BY <1>0 DEF Form
  <2>2. form' = form \/ form' = Converted(g, rate, session)
    BY <1>8 DEF SendEnds
  <2> HIDE DEF g
  <2> QED
    BY <1>8, <1>b, <2>1, <2>2 DEF SendEnds, LabelIsInputAmount
<1>9. CASE logout \/ PageLoads
  BY <1>9 DEF logout, PageLoads, LabelIsInputAmount
<1>12. CASE DidBackupWallet
  <2>1. Reload(form, unit, FALSE, symbolLocal, rate, session, initialToAmount)
    BY <1>12 DEF DidBackupWallet
  <2>2. form'.label = InputAmount(form', rate, session)
    BY <1>0, <1>a, <2>1, Booleans, Zenon
  <2> QED
    BY <1>12, <2>2 DEF DidBackupWallet, LabelIsInputAmount
<1>10. CASE WalletDidDecrypt
  <2>1. Reload(form, unit, FALSE, symbolLocal, rate, session, initialToAmount)
    BY <1>10 DEF WalletDidDecrypt
  <2>2. form'.label = InputAmount(form', rate, session)
    BY <1>0, <1>a, <2>1, Booleans, Zenon
  <2> QED
    BY <1>10, <2>2 DEF WalletDidDecrypt, LabelIsInputAmount, InputAmount, ParseBitcoinValue
<1>11. CASE UNCHANGED vars
  BY <1>11 DEF vars, LabelIsInputAmount
<1> QED
  BY <1>1, <1>2, <1>3, <1>4, <1>5, <1>6, <1>7, <1>8, <1>9, <1>10, <1>11, <1>12 DEF Next

\* At the form, after the first response, the form shows the symbol that is set
\* and no amount of a link waits.
LEMMA FormThere ==
    ASSUME ~BeforeRates, FormInv, AtForm
    PROVE  /\ session = "open" /\ alert = None /\ rate # None /\ initialToAmount = 0
           /\ form.local = symbolLocal
  BY DEF FormInv, OfSession, SymbolAgrees, AtForm

\* A link is opened by a reload of the form, which was toggled to BTC before.
LEMMA OpenURLReloads ==
    ASSUME Fields, NEW a \in Numbers \cup {0}, HandleOpenURL(a)
    PROVE  \E f \in Form :
             /\ f = IF symbolLocal THEN Reshown(form, TRUE, FALSE, rate, session) ELSE form
             /\ Reloaded(f, IF symbolLocal /\ rate # None THEN "btc" ELSE unit,
                         FALSE, FALSE, rate, session, a)
<1> DEFINE u == IF symbolLocal /\ rate # None THEN "btc" ELSE unit
           f == IF symbolLocal THEN Reshown(form, TRUE, FALSE, rate, session) ELSE form
<1>0. /\ form \in Form /\ rate \in MaybeRate /\ session \in Sessions /\ a \in Nat
  BY SendAmountAssumption DEF Fields
<1>1. ReshownAs(form, TRUE, FALSE, rate, session, Reshown(form, TRUE, FALSE, rate, session))
  BY <1>0, ReshownForm, Booleans, Zenon
<1>2. f \in Form
  BY <1>0, <1>1 DEF ReshownAs
<1>3. Reload(f, u, FALSE, FALSE, rate, session, a)
  BY DEF HandleOpenURL, Reshown
<1> HIDE DEF f, u
<1>4. Reloaded(f, u, FALSE, FALSE, rate, session, a)
  BY <1>0, <1>2, <1>3, ReloadShows, Booleans, Zenon
<1> QED
  BY <1>2, <1>4 DEF f, u

\* The invariant of the form holds at first.
LEMMA FormInit == Init => FormInv
<1> SUFFICES ASSUME Init PROVE FormInv
  OBVIOUS
<1>1. Fields
  BY FieldsInit
<1> QED
  BY <1>1 DEF Init, FormInv, OfSession, AlertIsInput, SymbolAgrees

\* Every step keeps the invariant of the form, after the first response.
LEMMA FormStep == ~BeforeRates /\ FormInv /\ [Next]_vars => FormInv'
<1> SUFFICES ASSUME ~BeforeRates, FormInv, [Next]_vars
             PROVE  OfSession' /\ AlertIsInput' /\ SymbolAgrees'
  BY FieldsStep DEF FormInv
<1> USE DEF FormInv
<1>0. /\ form \in Form /\ rate \in MaybeRate /\ session \in Sessions
      /\ initialToAmount \in Nat /\ symbolLocal \in BOOLEAN /\ form.local \in BOOLEAN
      /\ unit \in {"btc", "local"}
  BY DEF Fields, Form
<1>1. ASSUME NEW t \in Numbers \cup {None}, Type(t)
      PROVE  OfSession' /\ AlertIsInput' /\ SymbolAgrees'
  <2>1. /\ session = "open" /\ alert = None /\ rate # None /\ initialToAmount = 0
        /\ form.local = symbolLocal
    BY <1>1, FormThere DEF Type
  <2>2. form'.local = form.local
    BY <1>0, <1>1 DEF Type, Form
  <2> QED
    BY <1>0, <1>1, <2>1, <2>2 DEF Type, OfSession, AlertIsInput, SymbolAgrees
<1>2. CASE DoCurrencyConversion
  <2>1. /\ form'.text = form.text /\ form'.local = form.local /\ form'.changed = form.changed
        /\ form'.local => form'.original = form.original
        /\ InputAmount(form', rate, session) = InputAmount(form, rate, session)
    BY <1>0, <1>2, ConvertedForm DEF DoCurrencyConversion
  <2>2. form'.local => HasOriginal(form') = HasOriginal(form)
    BY <2>1 DEF HasOriginal
  <2>3. ByText(form') <=> ByText(form)
    BY <2>1, <2>2 DEF ByText
  <2> QED
    BY <1>2, <2>1, <2>3 DEF DoCurrencyConversion, history, OfSession, AlertIsInput, SymbolAgrees
<1>3. CASE BtcCodeClicked
  <2>1. /\ session = "open" /\ alert = None /\ rate # None /\ initialToAmount = 0
        /\ form.local = symbolLocal
    BY <1>3, FormThere DEF BtcCodeClicked
  <2>2. Reload(form, unit, TRUE, ~symbolLocal, rate, session, initialToAmount)
    BY <1>3 DEF BtcCodeClicked, toggleSymbol
  <2>3. (~symbolLocal) \in BOOLEAN
    <3>1. \A b \in BOOLEAN : (~b) \in BOOLEAN
      OBVIOUS
    <3> QED
      BY <1>0, <3>1, Zenon
  <2>4. Reloaded(form, unit, TRUE, ~symbolLocal, rate, session, initialToAmount)
    BY <1>0, ReloadShows, <2>2, <2>3, Booleans, Zenon
  <2>5. /\ form' = Reshown(form, TRUE, ~symbolLocal, rate, session)
        /\ initialToAmount' = 0 /\ typed' = typed
        /\ unit' = (IF ~symbolLocal THEN "local" ELSE "btc")
    BY <2>1, <2>4 DEF Reloaded
  <2>6. ReshownAs(form, TRUE, ~symbolLocal, rate, session, form')
    BY <1>0, <2>3, <2>5, ReshownForm, Booleans, Zenon
  <2>7. form'.local = ~symbolLocal
    BY <2>1, <2>6 DEF ReshownAs
  <2> QED
    BY <1>0, <1>3, <2>1, <2>5, <2>7
       DEF BtcCodeClicked, toggleSymbol, OfSession, AlertIsInput, SymbolAgrees
<1>4. ASSUME NEW a \in Numbers \cup {0}, Scan(a)
      PROVE  OfSession' /\ AlertIsInput' /\ SymbolAgrees'
  <2>1. /\ session = "open" /\ alert = None /\ rate # None /\ initialToAmount = 0
        /\ form.local = symbolLocal
    BY <1>4, FormThere DEF Scan
  <2>2. PICK g \in Form :
             /\ ~g.local
             /\ IF symbolLocal
                  THEN form' = Reshown(g, TRUE, TRUE, rate, session) /\ unit' = "local"
                  ELSE form' = Converted(g, rate, session) /\ unit' = "btc"
    BY <1>4, <2>1, ScanShows
  <2>3. form'.local = symbolLocal /\ symbolLocal = (unit' = "local")
    <3>1. CASE symbolLocal
      <4>1. form' = Reshown(g, TRUE, TRUE, rate, session)
        BY <2>2, <3>1
      <4>2. ReshownAs(g, TRUE, TRUE, rate, session, form')
        BY <1>0, <4>1, ReshownForm, Booleans, Zenon
      <4> QED
        BY <1>0, <2>1, <2>2, <3>1, <4>2 DEF ReshownAs
    <3>2. CASE ~symbolLocal
      <4>1. form'.local = g.local
        BY <1>0, <2>2, <3>2, ConvertedForm
      <4> QED
        BY <1>0, <2>2, <3>2, <4>1 DEF Form
    <3> QED
      BY <3>1, <3>2
  <2>4. initialToAmount' = 0
    BY <1>4, <2>1 DEF Scan
  <2> QED
    BY <1>0, <1>4, <2>1, <2>3, <2>4 DEF Scan, OfSession, AlertIsInput, SymbolAgrees
<1>5. ASSUME NEW a \in Numbers \cup {0}, HandleOpenURL(a)
      PROVE  OfSession' /\ AlertIsInput' /\ SymbolAgrees'
  <2> DEFINE u == IF symbolLocal /\ rate # None THEN "btc" ELSE unit
  <2>1. PICK f \in Form :
             /\ f = IF symbolLocal THEN Reshown(form, TRUE, FALSE, rate, session) ELSE form
             /\ Reloaded(f, u, FALSE, FALSE, rate, session, a)
    BY <1>5, OpenURLReloads
  <2>2. /\ f.local = (IF rate = None THEN form.local ELSE FALSE)
        /\ f.text = None <=> form.text = None
    <3>1. CASE symbolLocal
      <4>1. f = Reshown(form, TRUE, FALSE, rate, session)
        BY <2>1, <3>1
      <4>2. ReshownAs(form, TRUE, FALSE, rate, session, f)
        BY <1>0, <4>1, ReshownForm, Booleans, Zenon
      <4> QED
        BY <4>2 DEF ReshownAs
    <3>2. CASE ~symbolLocal
      BY <1>0, <2>1, <3>2 DEF SymbolAgrees
    <3> QED
      BY <3>1, <3>2
  <2>3. /\ form'.local = (IF rate = None THEN form.local ELSE FALSE)
        /\ rate = None => (form'.text = None <=> form.text = None)
        /\ unit' = IF a > 0 /\ rate # None THEN "btc" ELSE u
        /\ rate # None => initialToAmount' = 0
        /\ alert = None /\ symbolLocal' = FALSE
        /\ (rate = None => typed' = typed) /\ (form'.text # None /\ ~(a > 0) => form.text # None)
    <3>0. a \in Nat /\ alert = None /\ symbolLocal' = FALSE
      BY <1>5, SendAmountAssumption DEF HandleOpenURL
    <3>1. CASE a > 0 /\ rate # None
      <4>1. /\ Populated(f, a) \in Form /\ initialToAmount' = 0 /\ unit' = "btc"
            /\ form' = Reshown(Populated(f, a), FALSE, FALSE, rate, session)
        BY <2>1, <3>1 DEF Reloaded
      <4>2. ReshownAs(Populated(f, a), FALSE, FALSE, rate, session, form')
        BY <1>0, <4>1, ReshownForm, Booleans, Zenon
      <4>3. form'.local = FALSE
        BY <3>1, <4>2 DEF ReshownAs
      <4> QED
        BY <3>0, <3>1, <4>1, <4>3
    <3>2. CASE ~(a > 0 /\ rate # None)
      <4>1. /\ form' = Reshown(f, FALSE, FALSE, rate, session)
            /\ initialToAmount' = a /\ typed' = typed /\ unit' = u
        BY <2>1, <3>2 DEF Reloaded
      <4>2. ReshownAs(f, FALSE, FALSE, rate, session, form')
        BY <1>0, <4>1, ReshownForm, Booleans, Zenon
      <4>3. /\ form'.local = (IF rate = None THEN f.local ELSE FALSE)
            /\ form'.text = None <=> f.text = None
        BY <4>2 DEF ReshownAs
      <4> QED
        <5>1. rate # None => ~(a > 0) /\ a = 0
          BY <3>0, <3>2
        <5>2. unit' = IF a > 0 /\ rate # None THEN "btc" ELSE u
          BY <3>2, <4>1
        <5> HIDE DEF u
        <5> QED
          BY <2>2, <3>0, <4>1, <4>3, <5>1, <5>2
    <3> QED
      BY <3>1, <3>2
  <2>4. UNCHANGED <<rate, session, alert, sent>>
    BY <1>5 DEF HandleOpenURL
  <2>5. rate # None \/ ~symbolLocal \/ form.text = None
    BY <1>5 DEF HandleOpenURL
  <2> QED
    BY <1>0, <2>3, <2>4, <2>5 DEF OfSession, AlertIsInput, SymbolAgrees
<1>b. ASSUME NEW r \in MaybeRate, r = None => rate = None, session = "open",
             Reload(form, unit, FALSE, symbolLocal, r, session, initialToAmount),
             rate' = r, UNCHANGED <<symbolLocal, session, alert, sent>>
      PROVE  OfSession' /\ AlertIsInput' /\ SymbolAgrees'
  <2>0. session = "open" /\ rate' = r /\ (r = None => rate = None)
    BY <1>b
  <2>1. Reload(form, unit, FALSE, symbolLocal, r, session, initialToAmount)
    BY <1>b
  <2>2. Reloaded(form, unit, FALSE, symbolLocal, r, session, initialToAmount)
    BY <1>0, <2>0, <2>1, ReloadShows, Booleans, Zenon
  <2>3. CASE initialToAmount > 0 /\ r # None
    <3>1. /\ Populated(form, initialToAmount) \in Form
          /\ initialToAmount' = 0 /\ unit' = "btc"
          /\ form' = Reshown(Populated(form, initialToAmount), FALSE, symbolLocal, r, session)
      BY <2>0, <2>2, <2>3 DEF Reloaded
    <3>2. ReshownAs(Populated(form, initialToAmount), FALSE, symbolLocal, r, session, form')
      BY <1>0, <2>0, <3>1, ReshownForm, Booleans, Zenon
    <3>3. form'.local = symbolLocal
      BY <2>3, <3>2 DEF ReshownAs
    <3>4. ~symbolLocal /\ rate = None /\ alert = None
      BY <1>0, <2>3 DEF OfSession, AlertIsInput
    <3> QED
      BY <1>0, <1>b, <2>0, <2>3, <3>1, <3>3, <3>4
         DEF OfSession, AlertIsInput, SymbolAgrees
  <2>4. CASE ~(initialToAmount > 0 /\ r # None)
    <3>1. /\ initialToAmount' = initialToAmount /\ unit' = unit
          /\ form' = Reshown(form, FALSE, symbolLocal, r, session)
      BY <2>0, <2>2, <2>4 DEF Reloaded
    <3>2. ReshownAs(form, FALSE, symbolLocal, r, session, form')
      BY <1>0, <2>0, <3>1, ReshownForm, Booleans, Zenon
    <3>3. /\ form'.local = (IF r = None THEN form.local ELSE symbolLocal)
          /\ (form'.text = None) <=> (form.text = None)
          /\ form'.local => (HasOriginal(form') = HasOriginal(form))
      <4>1. form'.local = (IF r = None THEN form.local ELSE symbolLocal)
        BY <3>2 DEF ReshownAs
      <4>2. (form'.text = None) <=> (form.text = None)
        BY <3>2 DEF ReshownAs
      <4>3. form'.local => (HasOriginal(form') = HasOriginal(form))
        BY <3>2 DEF ReshownAs
      <4> QED
        BY <4>1, <4>2, <4>3, Zenon
    <3>4. OfSession' /\ SymbolAgrees'
      <4>1. UNCHANGED <<symbolLocal, session, sent>> /\ (r # None => initialToAmount' = 0)
            /\ initialToAmount' = initialToAmount
        BY <1>0, <1>b, <2>4, <3>1
      <4>2. OfSession'
        BY <2>0, <4>1 DEF OfSession
      <4>3. typed' = typed \/ r # None
        BY <2>2, <2>4 DEF Reloaded
      <4>4. SymbolAgrees'
        BY <1>0, <2>0, <3>1, <3>3, <4>1, <4>3 DEF SymbolAgrees
      <4> QED
        BY <4>2, <4>4
    <3>5. AlertIsInput'
      <4>1. SUFFICES ASSUME alert' # None
                     PROVE  AlertIsInput'
        BY DEF AlertIsInput
      <4>2. /\ alert # None /\ alert' = alert /\ sent' = sent /\ session' = session
            /\ rate # None /\ r # None /\ sent = None /\ symbolLocal = form.local
        BY <1>b, <2>0, <4>1 DEF AlertIsInput, SymbolAgrees
      <4>3. form'.local = form.local /\ (ByText(form') <=> ByText(form))
        BY <3>3, <4>2 DEF ByText
      <4>4. CASE ByText(form)
        <5>1. alert.whole => /\ Whole(form.text)
                             /\ alert.amount = FromLocal(form.text, alert.rate)
          BY <4>2, <4>4 DEF AlertIsInput
        <5>2. Whole(form.text) => form'.text = form.text
          BY <3>2, <4>2, <4>4 DEF ReshownAs, ByText
        <5> QED
          BY <2>0, <4>2, <4>3, <4>4, <5>1, <5>2 DEF AlertIsInput
      <4>5. CASE ~ByText(form)
        <5>1. alert.amount = InputAmount(form, rate, session)
          BY <4>2, <4>5 DEF AlertIsInput
        <5>2. InputAmount(form', r, session) = InputAmount(form, rate, session)
          <6>1. session # "loading" /\ (~form.local \/ HasOriginal(form))
            BY <2>0, <4>5 DEF ByText
          <6> QED
            BY <3>2, <4>2, <6>1, Zenon DEF ReshownAs
        <5> QED
          BY <2>0, <4>2, <4>3, <4>5, <5>1, <5>2 DEF AlertIsInput
      <4> QED
        BY <4>4, <4>5
    <3> QED
      BY <3>4, <3>5
  <2> QED
    BY <2>3, <2>4
<1>6. ASSUME NEW r \in Rates, DidGetMultiAddressResponse(r)
      PROVE  OfSession' /\ AlertIsInput' /\ SymbolAgrees'
  <2>1. r \in MaybeRate /\ r # None
    BY SendAmountAssumption DEF MaybeRate
  <2> QED
    BY <1>6, <1>b, <2>1 DEF DidGetMultiAddressResponse
<1>14. CASE DidBackupWallet
  BY <1>0, <1>14, <1>b DEF DidBackupWallet
<1>7. CASE SendPaymentClicked
  <2>1. session = "open" /\ alert = None /\ rate # None
    BY <1>7, FormThere DEF SendPaymentClicked
  <2>2. /\ alert'.amount = InputAmount(form, rate, session) /\ alert'.rate = rate
        /\ alert'.whole = Whole(form.text)
    BY <1>7 DEF SendPaymentClicked
  <2>3. ByText(form) => InputAmount(form, rate, session) = FromLocal(form.text, rate)
    BY DEF ByText, InputAmount
  <2>4. /\ UNCHANGED <<form, rate, session, sent, symbolLocal, initialToAmount, unit, typed>>
        /\ sent = None
    BY <1>7 DEF SendPaymentClicked, history
  <2> QED
    BY <2>1, <2>2, <2>3, <2>4 DEF OfSession, AlertIsInput, SymbolAgrees
<1>8. CASE Confirmed
  BY <1>8 DEF Confirmed, history, OfSession, AlertIsInput, SymbolAgrees
<1>9. CASE SendEnds
  <2> DEFINE g == [form EXCEPT !.text = None, !.original = 0, !.changed = FALSE]
  <2>1. g \in Form /\ g.text = None /\ g.local = form.local
    BY <1>0 DEF Form
  <2>2. \/ form' = form /\ UNCHANGED history
        \/ form' = Converted(g, rate, session) /\ typed' = None /\ unit' = unit
    BY <1>9 DEF SendEnds
  <2> HIDE DEF g
  <2>3. \/ form' = form /\ UNCHANGED history
        \/ form'.text = None /\ form'.local = form.local /\ typed' = None /\ unit' = unit
    BY <1>0, <2>1, <2>2, ConvertedForm
  <2>4. alert = None /\ alert' = None
    BY <1>9 DEF SendEnds, AlertIsInput
  <2> QED
    BY <1>9, <2>3, <2>4 DEF SendEnds, history, OfSession, AlertIsInput, SymbolAgrees
<1>10. CASE logout
  <2>0. /\ rate' = None /\ alert' = None /\ sent' = None /\ symbolLocal' = symbolLocal
        /\ None \in MaybeRate /\ "loading" \in Sessions
    BY <1>10 DEF logout, MaybeRate, Sessions
  <2>1. Reload(form, unit, FALSE, symbolLocal, None, "loading", initialToAmount)
    BY <1>10 DEF logout
  <2>2. Reloaded(form, unit, FALSE, symbolLocal, None, "loading", initialToAmount)
    BY <1>0, <2>0, <2>1, ReloadShows, Booleans, Zenon
  <2>3. /\ initialToAmount' = initialToAmount /\ unit' = unit /\ typed' = typed
        /\ form' = Reshown(form, FALSE, symbolLocal, None, "loading")
    BY <2>2 DEF Reloaded
  <2>4. ReshownAs(form, FALSE, symbolLocal, None, "loading", form')
    BY <1>0, <2>0, <2>3, ReshownForm, Booleans, Zenon
  <2>5. form'.local = form.local /\ (form'.text = None <=> form.text = None)
    BY <2>4 DEF ReshownAs
  <2> QED
    BY <2>0, <2>3, <2>5 DEF OfSession, AlertIsInput, SymbolAgrees
<1>11. CASE PageLoads
  BY <1>11 DEF PageLoads, history, OfSession, AlertIsInput, SymbolAgrees
<1>12. CASE WalletDidDecrypt
  <2>0. rate = None /\ alert = None /\ sent = None
    BY <1>12 DEF WalletDidDecrypt, OfSession
  <2>1. Reload(form, unit, FALSE, symbolLocal, rate, session, initialToAmount)
    BY <1>12 DEF WalletDidDecrypt
  <2>2. Reloaded(form, unit, FALSE, symbolLocal, rate, session, initialToAmount)
    BY <1>0, <2>1, ReloadShows, Booleans, Zenon
  <2>3. /\ initialToAmount' = initialToAmount /\ unit' = unit /\ typed' = typed
        /\ form' = Reshown(form, FALSE, symbolLocal, rate, session)
    BY <2>0, <2>2 DEF Reloaded
  <2>4. ReshownAs(form, FALSE, symbolLocal, rate, session, form')
    BY <1>0, <2>3, ReshownForm, Booleans, Zenon
  <2>5. form'.local = form.local /\ (form'.text = None <=> form.text = None)
    BY <2>0, <2>4 DEF ReshownAs
  <2> QED
    BY <1>12, <2>0, <2>3, <2>5 DEF WalletDidDecrypt, OfSession, AlertIsInput, SymbolAgrees
<1>13. CASE UNCHANGED vars
  BY <1>13 DEF vars, OfSession, AlertIsInput, SymbolAgrees
<1> QED
  BY <1>1, <1>2, <1>3, <1>4, <1>5, <1>6, <1>7, <1>8, <1>9, <1>10, <1>11, <1>12, <1>13,
     <1>14 DEF Next

\* A form that shows the symbol sl already is displayed in it as it is.
LEMMA DisplayedSame ==
    ASSUME NEW f \in Form, NEW r, NEW sl \in BOOLEAN, f.local = sl
    PROVE  Displayed(f, r, sl) = f
  BY DEF Displayed, Form

\* A form in BTC that takes the amount of a link holds it.
LEMMA PopulatedHolds ==
    ASSUME NEW f \in Form, ~f.local, NEW a \in Nat
    PROVE  /\ Populated(f, a) \in Form /\ ~Populated(f, a).local
           /\ Holds(Populated(f, a), a)
<1> DEFINE g == Populated(f, a)
<1>1. /\ g \in Form /\ g.local = f.local /\ g.text = a /\ g.changed = FALSE
  BY DEF Populated, Form
<1> HIDE DEF g
<1>2. g.text # None /\ Num(g.text) = a
  BY <1>1, NumOf
<1>3. Holds(g, a)
  BY <1>1, <1>2 DEF Holds
<1> QED
  BY <1>1, <1>3 DEF g

\* The form of Init holds the amount entered in BTC.
LEMMA AmountInit == Init => AmountInv
<1> SUFFICES ASSUME Init PROVE AmountInv
  OBVIOUS
<1>1. FormInv
  BY FormInit
<1> QED
  BY <1>1 DEF Init, AmountInv, Holds, OriginalIsThere

\* Every step keeps it held, when nobody toggles before the delayed conversion.
LEMMA AmountStep == ~BeforeRates /\ ~Hurried /\ AmountInv /\ [Next]_vars => AmountInv'
<1> SUFFICES ASSUME ~BeforeRates, ~Hurried, AmountInv, [Next]_vars
             PROVE  Holds(form', typed') /\ OriginalIsThere'
  BY FormStep DEF AmountInv
<1> USE DEF AmountInv, FormInv
<1>0. /\ form \in Form /\ rate \in MaybeRate /\ session \in Sessions
      /\ initialToAmount \in Nat /\ symbolLocal \in BOOLEAN /\ form.local \in BOOLEAN
      /\ typed \in Nat \cup {None} /\ Holds(form, typed)
      /\ session # "open" => rate = None
  BY DEF Fields, Form, OfSession
<1>a. ASSUME NEW f \in Form, NEW t \in Nat \cup {None}, Holds(f, t), form' = Converted(f, rate, session)
      PROVE  Holds(form', t) /\ (t # None /\ session # "loading" => form'.original = t)
  BY <1>0, <1>a, ConvertedHolds
<1>1. ASSUME NEW t \in Numbers \cup {None}, Type(t)
      PROVE  Holds(form', typed') /\ OriginalIsThere'
  <2>1. form'.text = t /\ form'.local = form.local /\ form'.changed = form.local
    BY <1>0, <1>1 DEF Type, Form
  <2>2. pending' = TRUE /\ typed' = IF form.local THEN None ELSE Num(t)
    BY <1>1 DEF Type
  <2>3. t = None => Num(t) = 0
    BY DEF Num
  <2> QED
    BY <1>0, <2>1, <2>2, <2>3 DEF Holds, OriginalIsThere
<1>2. CASE DoCurrencyConversion
  BY <1>0, <1>2, <1>a DEF DoCurrencyConversion, OriginalIsThere, history
<1>3. CASE BtcCodeClicked
  <2>1. /\ session = "open" /\ alert = None /\ rate # None /\ initialToAmount = 0
        /\ form.local = symbolLocal /\ ~pending
    BY <1>3, FormThere DEF BtcCodeClicked, Calm
  <2>2. Reload(form, unit, TRUE, ~symbolLocal, rate, session, initialToAmount)
    BY <1>3 DEF BtcCodeClicked, toggleSymbol
  <2>3. (~symbolLocal) \in BOOLEAN
    <3>1. \A b \in BOOLEAN : (~b) \in BOOLEAN
      OBVIOUS
    <3> QED
      BY <1>0, <3>1, Zenon
  <2>4. Reloaded(form, unit, TRUE, ~symbolLocal, rate, session, initialToAmount)
    BY <1>0, ReloadShows, <2>2, <2>3, Booleans, Zenon
  <2>5. form' = Reshown(form, TRUE, ~symbolLocal, rate, session) /\ typed' = typed
    BY <2>1, <2>4 DEF Reloaded
  <2>6. (typed # None => form.original = typed) /\ session # "loading"
    BY <2>1 DEF OriginalIsThere
  <2>7. CanShow(form, typed, TRUE, ~symbolLocal, rate, session)
    BY <1>0, <2>1, <2>6 DEF CanShow
  <2>8. HoldsAnew(form', typed, session)
    BY <1>0, <2>3, <2>5, <2>7, ReshownHolds, Booleans, Zenon
  <2> QED
    BY <2>5, <2>6, <2>8 DEF HoldsAnew, OriginalIsThere
<1>4. ASSUME NEW a \in Numbers \cup {0}, Scan(a)
      PROVE  Holds(form', typed') /\ OriginalIsThere'
  <2>1. session = "open" /\ rate # None /\ a \in Nat /\ typed' = a /\ session # "loading"
    BY <1>4, FormThere, SendAmountAssumption DEF Scan
  <2>2. PICK g \in Form :
             /\ g.text = (IF a = 0 THEN None ELSE a) /\ g.original = a /\ ~g.changed
             /\ ~g.local
             /\ IF symbolLocal
                  THEN form' = Reshown(g, TRUE, TRUE, rate, session)
                  ELSE form' = Converted(g, rate, session)
    BY <1>4, <2>1, ScanShows
  <2>3. Holds(g, a) /\ a \in Nat \cup {None}
    BY <2>1, <2>2, NumOf DEF Holds
  <2>4. Holds(form', a) /\ (a # None /\ session # "loading" => form'.original = a)
    <3>1. CASE symbolLocal
      <4>1. form' = Reshown(g, TRUE, TRUE, rate, session)
        BY <2>2, <3>1
      <4>2. CanShow(g, a, TRUE, TRUE, rate, session)
        BY <2>1, <2>2, <2>3 DEF CanShow
      <4>3. HoldsAnew(form', a, session)
        BY <1>0, <4>1, <4>2, ReshownHolds, Booleans, Zenon
      <4> QED
        BY <4>3 DEF HoldsAnew
    <3>2. CASE ~symbolLocal
      BY <1>a, <2>2, <2>3, <3>2
    <3> QED
      BY <3>1, <3>2
  <2> QED
    BY <2>1, <2>4 DEF OriginalIsThere
<1>5. ASSUME NEW a \in Numbers \cup {0}, HandleOpenURL(a)
      PROVE  Holds(form', typed') /\ OriginalIsThere'
  <2> DEFINE u == IF symbolLocal /\ rate # None THEN "btc" ELSE unit
  <2>1. PICK f \in Form :
             /\ f = IF symbolLocal THEN Reshown(form, TRUE, FALSE, rate, session) ELSE form
             /\ Reloaded(f, u, FALSE, FALSE, rate, session, a)
    BY <1>5, OpenURLReloads
  <2>2. /\ a \in Nat /\ ~pending /\ UNCHANGED <<session, pending>>
        /\ rate # None => /\ session = "open" /\ session # "loading"
                          /\ form.local = symbolLocal
                          /\ typed # None => form.original = typed
    BY <1>0, <1>5, SendAmountAssumption DEF HandleOpenURL, Calm, OriginalIsThere, SymbolAgrees
  <2>3. Holds(f, typed) /\ (rate # None => ~f.local)
    <3>1. CASE symbolLocal
      <4>1. f = Reshown(form, TRUE, FALSE, rate, session)
        BY <2>1, <3>1
      <4>2. CanShow(form, typed, TRUE, FALSE, rate, session)
        BY <1>0, <2>2, <3>1 DEF CanShow
      <4>3. HoldsAnew(f, typed, session)
        BY <1>0, <4>1, <4>2, ReshownHolds, Booleans, Zenon
      <4>4. ReshownAs(form, TRUE, FALSE, rate, session, f)
        BY <1>0, <4>1, ReshownForm, Booleans, Zenon
      <4> QED
        BY <4>3, <4>4 DEF HoldsAnew, ReshownAs
    <3>2. CASE ~symbolLocal
      BY <1>0, <2>1, <2>2, <3>2
    <3> QED
      BY <3>1, <3>2
  <2>4. HoldsAnew(form', typed', session)
    <3>1. CASE a > 0 /\ rate # None
      <4>1. /\ typed' = a
            /\ form' = Reshown(Populated(f, a), FALSE, FALSE, rate, session)
        BY <2>1, <3>1 DEF Reloaded
      <4>2. Populated(f, a) \in Form /\ ~Populated(f, a).local /\ Holds(Populated(f, a), a)
        BY <2>2, <2>3, <3>1, PopulatedHolds
      <4>3. Displayed(Populated(f, a), rate, FALSE) = Populated(f, a)
        <5>1. Populated(f, a).local = FALSE
          BY <4>2 DEF Form
        <5> QED
          BY <4>2, <5>1, DisplayedSame, Booleans, Zenon
      <4>4. CanShow(Populated(f, a), a, FALSE, FALSE, rate, session)
        BY <2>2, <3>1, <4>2, <4>3 DEF CanShow
      <4> QED
        BY <1>0, <4>1, <4>2, <4>4, ReshownHolds, Booleans, Zenon
    <3>2. CASE ~(a > 0 /\ rate # None)
      <4>1. /\ typed' = typed
            /\ form' = Reshown(f, FALSE, FALSE, rate, session)
        BY <2>1, <3>2 DEF Reloaded
      <4>2. rate # None => Displayed(f, rate, FALSE) = f
        <5>1. rate # None => f.local = FALSE
          BY <2>3 DEF Form
        <5> QED
          BY <5>1, DisplayedSame, Booleans, Zenon
      <4>3. CanShow(f, typed, FALSE, FALSE, rate, session)
        BY <1>0, <2>2, <2>3, <4>2 DEF CanShow
      <4> QED
        BY <1>0, <4>1, <4>3, ReshownHolds, Booleans, Zenon
    <3> QED
      BY <3>1, <3>2
  <2> QED
    BY <2>2, <2>4 DEF HoldsAnew, OriginalIsThere
<1>b. ASSUME NEW r \in MaybeRate, r = None => rate = None, session = "open",
             Reload(form, unit, FALSE, symbolLocal, r, session, initialToAmount),
             UNCHANGED <<session, pending>>
      PROVE  Holds(form', typed') /\ OriginalIsThere'
  <2>0. session = "open" /\ session # "loading" /\ session' = session
    BY <1>b
  <2>1. Reload(form, unit, FALSE, symbolLocal, r, session, initialToAmount)
    BY <1>b
  <2>2. Reloaded(form, unit, FALSE, symbolLocal, r, session, initialToAmount)
    BY <1>0, <2>0, <2>1, ReloadShows, Booleans, Zenon
  <2>3. HoldsAnew(form', typed', session)
    <3>1. CASE initialToAmount > 0 /\ r # None
      <4> DEFINE p == Populated(form, initialToAmount)
      <4>1. /\ p \in Form /\ typed' = initialToAmount
            /\ form' = Reshown(p, FALSE, symbolLocal, r, session)
        BY <2>0, <2>2, <3>1 DEF Reloaded
      <4>2. symbolLocal = FALSE /\ (form.local => form.text = None)
        BY <1>0, <3>1 DEF OfSession, SymbolAgrees
      <4>3. Displayed(p, r, symbolLocal) \in Form /\ ~Displayed(p, r, symbolLocal).local
            /\ Displayed(p, r, symbolLocal).text = initialToAmount
            /\ Displayed(p, r, symbolLocal).changed = FALSE
        BY <1>0, <2>0, <3>1, <4>2 DEF Displayed, Populated, Form
      <4>4. Holds(Displayed(p, r, symbolLocal), initialToAmount)
        BY <1>0, <4>3, NumOf DEF Holds
      <4>5. CanShow(p, initialToAmount, FALSE, symbolLocal, r, session)
        BY <1>0, <2>0, <3>1, <4>4 DEF CanShow
      <4> HIDE DEF p
      <4> QED
        BY <1>0, <2>0, <4>1, <4>5, ReshownHolds, Booleans, Zenon
    <3>2. CASE ~(initialToAmount > 0 /\ r # None)
      <4>1. typed' = typed /\ form' = Reshown(form, FALSE, symbolLocal, r, session)
        BY <2>2, <3>2 DEF Reloaded
      <4>2. r # None => Holds(Displayed(form, r, symbolLocal), typed)
        <5>0. SUFFICES ASSUME r # None PROVE Holds(Displayed(form, r, symbolLocal), typed)
          OBVIOUS
        <5>1. CASE form.local = symbolLocal
          BY <1>0, <5>1, DisplayedSame
        <5>2. CASE form.local # symbolLocal
          <6> DEFINE d == Displayed(form, r, symbolLocal)
          <6>1. form.text = None /\ (symbolLocal => typed = None)
            BY <1>0, <5>2 DEF SymbolAgrees
          <6>2. d.local = symbolLocal /\ d.text = None /\ d.changed = form.changed
            BY <1>0, <5>0, <6>1 DEF Displayed, Form
          <6> HIDE DEF d
          <6>3. Num(d.text) = 0 /\ (typed # None => typed = 0 /\ ~form.changed)
            BY <1>0, <6>1, <6>2 DEF Num, Holds
          <6>4. Holds(d, typed)
            BY <6>1, <6>2, <6>3 DEF Holds
          <6> QED
            BY <6>4 DEF d
        <5> QED
          BY <5>1, <5>2
      <4>3. CanShow(form, typed, FALSE, symbolLocal, r, session)
        BY <1>0, <2>0, <4>2 DEF CanShow
      <4> QED
        BY <1>0, <2>0, <4>1, <4>3, ReshownHolds, Booleans, Zenon
    <3> QED
      BY <3>1, <3>2
  <2>4. pending' = pending
    BY <1>b
  <2> QED
    BY <2>0, <2>3, <2>4 DEF HoldsAnew, OriginalIsThere
<1>6. ASSUME NEW r \in Rates, DidGetMultiAddressResponse(r)
      PROVE  Holds(form', typed') /\ OriginalIsThere'
  <2>1. r \in MaybeRate /\ r # None
    BY SendAmountAssumption DEF MaybeRate
  <2> QED
    BY <1>6, <1>b, <2>1 DEF DidGetMultiAddressResponse
<1>12. CASE DidBackupWallet
  BY <1>0, <1>12, <1>b DEF DidBackupWallet
<1>7. CASE SendPaymentClicked \/ Confirmed
  BY <1>0, <1>7 DEF SendPaymentClicked, Confirmed, history, OriginalIsThere
<1>8. CASE SendEnds
  <2>1. \/ UNCHANGED <<form, history>>
        \/ typed' = None
    BY <1>8 DEF SendEnds
  <2> QED
    BY <1>0, <1>8, <2>1 DEF SendEnds, history, Holds, OriginalIsThere
<1>9. CASE PageLoads
  BY <1>0, <1>9 DEF PageLoads, history, OriginalIsThere
<1>13. CASE logout
  <2>0. session' = "loading" /\ None \in MaybeRate /\ "loading" \in Sessions
    BY <1>13 DEF logout, MaybeRate, Sessions
  <2>1. Reload(form, unit, FALSE, symbolLocal, None, "loading", initialToAmount)
    BY <1>13 DEF logout
  <2>2. Reloaded(form, unit, FALSE, symbolLocal, None, "loading", initialToAmount)
    BY <1>0, <2>0, <2>1, ReloadShows, Booleans, Zenon
  <2>3. typed' = typed /\ form' = Reshown(form, FALSE, symbolLocal, None, "loading")
    BY <2>2 DEF Reloaded
  <2>4. CanShow(form, typed, FALSE, symbolLocal, None, "loading")
    BY <1>0 DEF CanShow
  <2>5. HoldsAnew(form', typed, "loading")
    BY <1>0, <2>0, <2>3, <2>4, ReshownHolds, Booleans, Zenon
  <2> QED
    BY <2>0, <2>3, <2>5 DEF HoldsAnew, OriginalIsThere
<1>10. CASE WalletDidDecrypt
  <2>0. rate = None /\ session = "locked" /\ pending' = pending
    BY <1>0, <1>10 DEF WalletDidDecrypt
  <2>1. Reload(form, unit, FALSE, symbolLocal, rate, session, initialToAmount)
    BY <1>10 DEF WalletDidDecrypt
  <2>2. Reloaded(form, unit, FALSE, symbolLocal, rate, session, initialToAmount)
    BY <1>0, <2>1, ReloadShows, Booleans, Zenon
  <2>3. typed' = typed /\ form' = Reshown(form, FALSE, symbolLocal, rate, session)
    BY <2>0, <2>2 DEF Reloaded
  <2>4. CanShow(form, typed, FALSE, symbolLocal, rate, session)
    BY <1>0, <2>0 DEF CanShow
  <2>5. HoldsAnew(form', typed, session)
    BY <1>0, <2>3, <2>4, ReshownHolds, Booleans, Zenon
  <2> QED
    BY <2>0, <2>3, <2>5 DEF HoldsAnew, OriginalIsThere
<1>11. CASE UNCHANGED vars
  BY <1>0, <1>11 DEF vars, OriginalIsThere
<1> QED
  BY <1>1, <1>2, <1>3, <1>4, <1>5, <1>6, <1>7, <1>8, <1>9, <1>10, <1>11, <1>12,
     <1>13 DEF Next

\* A payment that starts is of a confirmation, which shows what the form holds.
LEMMA ConfirmedStep == AlertIsInput /\ ConfirmedIsSent /\ [Next]_vars => ConfirmedIsSent'
<1> SUFFICES ASSUME AlertIsInput, ConfirmedIsSent, [Next]_vars
             PROVE  ConfirmedIsSent'
  OBVIOUS
<1>1. CASE Confirmed
  <2>1. CASE UNCHANGED sent
    BY <2>1 DEF ConfirmedIsSent
  <2>2. CASE sent = None /\ sent' # sent
    <3> DEFINE b == ~form.local \/ HasOriginal(form) \/ (alert.rate = rate /\ alert.whole)
    <3>1. sent' = [asked |-> alert.amount, amount |-> InputAmount(form, rate, session), exact |-> b]
      BY <1>1, <2>2 DEF Confirmed
    <3>2. b => alert.amount = InputAmount(form, rate, session)
      <4>1. ByText(form) => InputAmount(form, rate, session) = FromLocal(form.text, rate)
        BY DEF ByText, InputAmount
      <4>2. CASE ByText(form)
        <5>1. alert.whole => alert.amount = FromLocal(form.text, alert.rate)
          BY <1>1, <4>2 DEF Confirmed, AlertIsInput
        <5> QED
          BY <4>1, <4>2, <5>1 DEF ByText
      <4>3. CASE ~ByText(form)
        BY <1>1, <4>3 DEF Confirmed, AlertIsInput
      <4> QED
        BY <4>2, <4>3
    <3> HIDE DEF b
    <3>3. /\ sent'.asked = alert.amount /\ sent'.amount = InputAmount(form, rate, session)
          /\ sent'.exact = b
      BY <3>1
    <3> QED
      BY <3>2, <3>3 DEF ConfirmedIsSent
  <2> QED
    BY <1>1, <2>1, <2>2 DEF Confirmed
<1>2. CASE SendEnds \/ logout
  BY <1>2 DEF SendEnds, logout, ConfirmedIsSent
<1>3. CASE ~Confirmed /\ ~SendEnds /\ ~logout
  <2>1. UNCHANGED sent
    BY <1>3 DEF Next, Type, DoCurrencyConversion, BtcCodeClicked, Scan, HandleOpenURL,
                DidGetMultiAddressResponse, DidBackupWallet, SendPaymentClicked, PageLoads, WalletDidDecrypt, vars
  <2> QED
    BY <2>1 DEF ConfirmedIsSent
<1> QED
  BY <1>1, <1>2, <1>3
-----------------------------------------------------------------------------
\* In every reachable state the fields of the form, the confirmation and the
\* payment are of their types: getInputAmountInSatoshi and every conversion give
\* amounts, whatever is typed, scanned, linked or toggled.
THEOREM FieldsHold == Spec => []Fields
<1> QED
  BY FieldsInit, FieldsStep, PTL DEF Spec

\* The label under the field says what would be sent, unless an edit waits for
\* its doCurrencyConversion: also for who toggles at once or has no rates yet.
THEOREM LabelIsTheAmount == Spec => []LabelIsInputAmount
<1>1. Init => LabelIsInputAmount
  BY DEF Init, LabelIsInputAmount
<1> QED
  BY <1>1, FieldsInit, FieldsStep, LabelStep, PTL DEF Spec

\* Once the first response of the session is there before the amount is used,
\* what the form shows agrees: reloadWithCurrencyChange: and everything that
\* changes the symbol converts the number, and then the label.
THEOREM FormShowsTheAmount ==
    ASSUME ~BeforeRates PROVE Spec => []FormAgrees
<1>1. FormInv => TextHasItsUnit
  BY DEF FormInv, SymbolAgrees, TextHasItsUnit
<1>2. FormInv /\ [Next]_vars => FormInv'
  BY FormStep
<1> QED
  BY <1>1, <1>2, FormInit, LabelIsTheAmount, PTL DEF Spec, FormAgrees

\* And what reallyDoPayment sends is what confirmPayment showed, though it reads
\* the form again and a backup or new rates may have reloaded the form under the
\* alert: always for an amount with an original in BTC, and for one typed in the
\* local currency to whole cents when the rate is what it was.
THEOREM ConfirmedThenSent ==
    ASSUME ~BeforeRates PROVE Spec => []ConfirmedIsSent
<1>1. Init => ConfirmedIsSent
  BY DEF Init, ConfirmedIsSent
<1>2. FormInv /\ [Next]_vars => FormInv'
  BY FormStep
<1>3. FormInv => AlertIsInput
  BY DEF FormInv
<1> QED
  BY <1>1, <1>2, <1>3, FormInit, ConfirmedStep, PTL DEF Spec

\* And if nobody toggles within 0.1 s of typing either, an amount entered in BTC
\* is the amount that would be sent after any toggles, rates, links and logins:
\* originalBtcAmount brings it back from a display that rounds.
THEOREM AmountOutlivesItsDisplay ==
    ASSUME ~BeforeRates, ~Hurried PROVE Spec => []BtcAmountKept
<1>1. AmountInv => BtcAmountKept
  <2> SUFFICES ASSUME AmountInv, typed # None, session # "loading"
               PROVE  InputAmount(form, rate, session) = typed
    BY DEF BtcAmountKept
  <2>1. form.text \in Nat \cup {None} /\ rate \in MaybeRate
    BY DEF AmountInv, FormInv, Fields, Form
  <2>2. Num(form.text) = 0 => FromLocal(form.text, rate) = 0
    BY <2>1, FromLocalNat
  <2> QED
    BY <2>2 DEF AmountInv, Holds, InputAmount, ParseBitcoinValue, HasOriginal
<1>2. AmountInv /\ [Next]_vars => AmountInv'
  BY AmountStep
<1> QED
  BY <1>1, <1>2, AmountInit, PTL DEF Spec

-----------------------------------------------------------------------------
(***************************************************************************)
(* The Receive screen, which MCReceive has as an instance.                 *)
(***************************************************************************)

\* What the fields of the screen hold is left open; that it has them is not.
Shape(u) == {"clicked", "modal"} \subseteq DOMAIN u

\* The views of an address remember it; the label view may have lost it.
Remembers(u) ==
    /\ u.modal.kind \in {"options", "request"} => u.clicked = u.modal.shows
    /\ u.modal.kind = "label" => u.clicked \in {u.modal.shows, NoAddress}

Good(u) == Shape(u) /\ Remembers(u)

\* The inductive invariant.
ScreenInv == Good(ui) /\ LabelNotMisplaced

-----------------------------------------------------------------------------
\* The fields of a screen on which another modal is shown.
LEMMA ShownFields ==
    ASSUME NEW u, Shape(u), NEW m
    PROVE  /\ Shape(Receive!Shown(u, m))
           /\ Receive!Shown(u, m).modal = m
           /\ Receive!Shown(u, m).clicked \in {u.clicked, NoAddress}
           /\ u.modal.kind \notin Receive!Forgetful => Receive!Shown(u, m).clicked = u.clicked
BY DEF Shape, Receive!Shown

\* Any modal that is not about an address may be shown at any time.
LEMMA ShownGood ==
    ASSUME NEW u, Shape(u), NEW m, m.kind \notin {"options", "request", "label"}
    PROVE  Good(Receive!Shown(u, m))
BY ShownFields DEF Good, Remembers

\* The label view shows the address it was opened for, and loses it if it
\* replaces a view that forgets.
LEMMA LabelAddressGood ==
    ASSUME NEW u, Shape(u), NEW prompt
    PROVE  Good(Receive!LabelAddress(u, prompt))
<1> DEFINE m == [kind |-> "label", shows |-> u.clicked, prompt |-> prompt]
<1>1. m.kind = "label" /\ m.shows = u.clicked
  OBVIOUS
<1>2. /\ Shape(Receive!Shown(u, m)) /\ Receive!Shown(u, m).modal = m
      /\ Receive!Shown(u, m).clicked \in {u.clicked, NoAddress}
  BY ShownFields
<1>3. QED
  BY <1>1, <1>2 DEF Receive!LabelAddress, Good, Remembers

\* Asking for the label of the new address.
LEMMA PromptedGood ==
    ASSUME NEW u, Shape(u), NEW keys
    PROVE  Good(Receive!Prompted(u, keys))
<1> DEFINE v == [u EXCEPT !.clicked = Receive!Newest(keys), !.observers = 0]
<1>1. Shape(v)
  BY DEF Shape
<1>2. Good(Receive!LabelAddress(v, TRUE))
  BY <1>1, LabelAddressGood
<1>3. QED
  BY <1>2 DEF Receive!Prompted

\* A reload leaves the screen good, however many observers it notifies.
LEMMA NotifiedGood ==
    ASSUME NEW u, Good(u), NEW keys, NEW v \in Receive!Notified(u, keys)
    PROVE  Good(v)
<1>1. Good(Receive!Prompted(u, keys))
  BY PromptedGood DEF Good
<1>2. Good(Receive!Prompted(Receive!Prompted(u, keys), keys))
  BY <1>1, PromptedGood DEF Good
<1>3. v \in {u, Receive!Prompted(u, keys), Receive!Prompted(Receive!Prompted(u, keys), keys)}
  BY DEF Receive!Notified
<1>4. QED
  BY <1>1, <1>2, <1>3

\* A reload of the screen.
LEMMA ReloadGood ==
    ASSUME Good(ui), NEW keys, NEW away, NEW p, Receive!Reload(ui, keys, away, p)
    PROVE  Good(ui')
BY NotifiedGood DEF Receive!Reload

\* No view is none of the views.
LEMMA NoModalKind == Receive!NoModal.kind \notin {"options", "request", "label"}
BY DEF Receive!NoModal

\* A reload that closes what is shown.
LEMMA ReloadAndCloseGood ==
    ASSUME Good(ui), NEW keys, NEW away, NEW p, Receive!ReloadAndClose(ui, keys, away, p)
    PROVE  Good(ui')
<1>1. PICK v \in Receive!Notified(ui, Receive!Active(keys, away)) : ui' = Receive!Shown(v, Receive!NoModal)
  BY DEF Receive!ReloadAndClose
<1>2. Good(v)
  BY <1>1, NotifiedGood
<1>3. QED
  BY <1>1, <1>2, ShownGood, NoModalKind DEF Good

-----------------------------------------------------------------------------
\* The screen at the start.
LEMMA ScreenInit == Receive!Init => ScreenInv
<1> SUFFICES ASSUME Receive!Init PROVE ScreenInv
  OBVIOUS
<1>1. ui = [clicked |-> NoAddress, observers |-> 0, modal |-> Receive!NoModal]
  BY DEF Receive!Init
<1>2. Good(ui)
  BY <1>1, NoModalKind DEF Good, Shape, Remembers
<1>3. QED
  BY <1>2 DEF Receive!Init, ScreenInv, LabelNotMisplaced, Receive!LabelNotMisplaced

\* Every step preserves the invariant of the screen.
LEMMA ScreenStep == ScreenInv /\ [Receive!Next]_(Receive!vars) => ScreenInv'
<1> SUFFICES ASSUME ScreenInv, [Receive!Next]_(Receive!vars) PROVE ScreenInv'
  OBVIOUS
<1> USE DEF ScreenInv
<1>1. ASSUME NEW a \in Addresses, Receive!SelectRow(a) PROVE ScreenInv'
  <2> DEFINE u == [ui EXCEPT !.clicked = a]
             m == Receive!Modal("options", a)
  <2>1. u.modal = ui.modal /\ u.clicked = a /\ Shape(u)
    BY DEF Good, Shape
  <2>2. u.modal.kind = "none"
    BY <1>1, <2>1 DEF Receive!SelectRow, Receive!At
  <2>3. m.kind = "options" /\ m.shows = a
    BY DEF Receive!Modal
  <2>4. ui' = Receive!Shown(u, m)
    BY <1>1 DEF Receive!SelectRow, Receive!Selected
  <2>5. Good(ui')
    <3>1. u.modal.kind \notin Receive!Forgetful
      BY <2>2 DEF Receive!Forgetful
    <3>2. Shape(ui') /\ ui'.modal = m /\ ui'.clicked = a
      BY <2>1, <2>4, <3>1, ShownFields
    <3>3. QED
      BY <2>3, <3>2 DEF Good, Remembers
  <2>6. QED
    BY <1>1, <2>5 DEF Receive!SelectRow, Receive!history, LabelNotMisplaced, Receive!LabelNotMisplaced
<1>2. CASE Receive!RequestPayment
  <2> DEFINE m == Receive!Modal("request", ui.clicked)
  <2>1. m.kind = "request" /\ m.shows = ui.clicked
    BY DEF Receive!Modal
  <2>2. ui' = Receive!Shown(ui, m) /\ ui.modal.kind \notin Receive!Forgetful
    BY <1>2 DEF Receive!RequestPayment, Receive!At, Receive!Forgetful
  <2>3. Good(ui')
    BY <2>1, <2>2, ShownFields DEF Good, Remembers
  <2>4. QED
    BY <1>2, <2>3 DEF Receive!RequestPayment, Receive!history, LabelNotMisplaced, Receive!LabelNotMisplaced
<1>3. CASE Receive!LabelAddressClicked
  <2>1. Good(ui')
    BY <1>3, LabelAddressGood DEF Receive!LabelAddressClicked, Good
  <2>2. QED
    BY <1>3, <2>1 DEF Receive!LabelAddressClicked, Receive!history, LabelNotMisplaced, Receive!LabelNotMisplaced
<1>4. CASE Receive!LabelSaveClicked
  <2>1. Good(ui')
    BY <1>4, ReloadAndCloseGood DEF Receive!LabelSaveClicked
  <2>2. ui.clicked \in {ui.modal.shows, NoAddress}
    BY <1>4 DEF Receive!LabelSaveClicked, Receive!At, Good, Remembers
  <2>3. labelled' = {<<ui.modal.shows, ui.clicked>>}
    BY <1>4 DEF Receive!LabelSaveClicked
  <2>4. LabelNotMisplaced'
    BY <2>2, <2>3 DEF LabelNotMisplaced, Receive!LabelNotMisplaced
  <2>5. QED
    BY <2>1, <2>4
<1>5. CASE Receive!ArchiveAddressClicked
  <2>1. Good(ui')
    BY <1>5, ReloadAndCloseGood DEF Receive!ArchiveAddressClicked
  <2>2. QED
    BY <1>5, <2>1 DEF Receive!ArchiveAddressClicked, Receive!history, LabelNotMisplaced, Receive!LabelNotMisplaced
<1>6. CASE Receive!CloseModalClicked
  <2>1. Good(ui')
    BY <1>6, ShownGood, NoModalKind DEF Receive!CloseModalClicked, Good
  <2>2. QED
    BY <1>6, <2>1 DEF Receive!CloseModalClicked, Receive!history, LabelNotMisplaced, Receive!LabelNotMisplaced
<1>7. CASE Receive!GenerateNewAddressClicked
  <2>1. Shape(ui') /\ ui'.clicked = ui.clicked /\ ui'.modal = ui.modal
    BY <1>7 DEF Receive!GenerateNewAddressClicked, Good, Shape
  <2>2. Good(ui')
    BY <2>1 DEF Good, Remembers
  <2>3. labelled' = labelled
    BY <1>7 DEF Receive!GenerateNewAddressClicked, Receive!MakeKey
  <2>4. QED
    BY <2>2, <2>3 DEF LabelNotMisplaced, Receive!LabelNotMisplaced
<1>8. CASE Receive!SecondPasswordAnswered
  <2>1. Good(ui')
    BY <1>8, ShownGood, NoModalKind DEF Receive!SecondPasswordAnswered, Good
  <2>2. labelled' = labelled
    BY <1>8 DEF Receive!SecondPasswordAnswered, Receive!MakeKey, Receive!history
  <2>3. QED
    BY <2>1, <2>2 DEF LabelNotMisplaced, Receive!LabelNotMisplaced
<1>9. CASE Receive!GetSecondPassword
  <2>1. Receive!Modal("second", NoAddress).kind \notin {"options", "request", "label"}
    BY DEF Receive!Modal
  <2>2. Good(ui')
    BY <1>9, <2>1, ShownGood DEF Receive!GetSecondPassword, Good
  <2>3. QED
    BY <1>9, <2>2 DEF Receive!GetSecondPassword, Receive!history, LabelNotMisplaced, Receive!LabelNotMisplaced
<1>10. CASE Receive!DidBackupWallet
  <2>1. Good(ui')
    BY <1>10, ReloadGood DEF Receive!DidBackupWallet
  <2>2. QED
    BY <1>10, <2>1 DEF Receive!DidBackupWallet, Receive!history, LabelNotMisplaced, Receive!LabelNotMisplaced
<1>11. CASE Receive!DidFailBackupWallet \/ Receive!WalletFetched \/ Receive!HistoryFails
  BY <1>11 DEF Receive!DidFailBackupWallet, Receive!WalletFetched, Receive!HistoryFails,
     Receive!history, LabelNotMisplaced, Receive!LabelNotMisplaced
<1>12. CASE Receive!DidGetMultiAddressResponse \/ Receive!HistoryFetched
  <2>1. Good(ui')
    BY <1>12, ReloadGood DEF Receive!DidGetMultiAddressResponse, Receive!HistoryFetched
  <2>2. QED
    BY <1>12, <2>1 DEF Receive!DidGetMultiAddressResponse, Receive!HistoryFetched,
       Receive!history, LabelNotMisplaced, Receive!LabelNotMisplaced
<1>13. CASE Receive!ResignActive
  <2>1. Shape(ui') /\ ui'.clicked = ui.clicked /\ ui'.modal = ui.modal
    BY <1>13 DEF Receive!ResignActive, Good, Shape
  <2>2. Good(ui')
    BY <2>1 DEF Good, Remembers
  <2>3. QED
    BY <1>13, <2>2 DEF Receive!ResignActive, Receive!history, LabelNotMisplaced, Receive!LabelNotMisplaced
<1>14. CASE Receive!logout
  <2>1. PICK v \in Receive!Notified(ui, <<>>) : ui' = Receive!Shown(v, Receive!Modal("password", NoAddress))
    BY <1>14 DEF Receive!logout
  <2>2. Good(v)
    BY <2>1, NotifiedGood
  <2>3. Receive!Modal("password", NoAddress).kind \notin {"options", "request", "label"}
    BY DEF Receive!Modal
  <2>4. Good(ui')
    BY <2>1, <2>2, <2>3, ShownGood DEF Good
  <2>5. QED
    BY <1>14, <2>4 DEF Receive!logout, Receive!history, LabelNotMisplaced, Receive!LabelNotMisplaced
<1>15. CASE Receive!WalletDidDecrypt
  <2>1. Good(Receive!Shown(ui, Receive!NoModal))
    BY ShownGood, NoModalKind DEF Good
  <2>2. ui' \in Receive!Notified(Receive!Shown(ui, Receive!NoModal), Receive!Active(all, archived))
    BY <1>15 DEF Receive!WalletDidDecrypt, Receive!Reload
  <2>3. Good(ui')
    BY <2>1, <2>2, NotifiedGood
  <2>4. QED
    BY <1>15, <2>3 DEF Receive!WalletDidDecrypt, Receive!history, LabelNotMisplaced, Receive!LabelNotMisplaced
<1>16. CASE UNCHANGED Receive!vars
  BY <1>16 DEF Receive!vars, Receive!history, LabelNotMisplaced, Receive!LabelNotMisplaced
<1>17. QED
  BY <1>1, <1>2, <1>3, <1>4, <1>5, <1>6, <1>7, <1>8, <1>9, <1>10, <1>11, <1>12,
     <1>13, <1>14, <1>15, <1>16 DEF Receive!Next, Receive!User, Receive!Page, Receive!System

\* The invariant of the screen holds in every behaviour.
THEOREM ScreenCorrect == ReceiveSpec => []ScreenInv
BY ScreenInit, ScreenStep, PTL DEF ReceiveSpec, Receive!Spec

\* What is requested for, labelled or archived from the options is the address
\* that is shown, in every behaviour and for any number of addresses.
THEOREM ActsOnTheShownAddressCorrect == ReceiveSpec => []ActsOnTheShownAddress
<1>1. ScreenInv => ActsOnTheShownAddress
  BY DEF ScreenInv, Good, Remembers, ActsOnTheShownAddress, Receive!ActsOnTheShownAddress
<1>2. QED
  BY <1>1, ScreenCorrect, PTL

\* A label is given to the address it was typed for or to none, although
\* prompts replace the view it is typed into.
THEOREM LabelNotMisplacedCorrect == ReceiveSpec => []LabelNotMisplaced
<1>1. ScreenInv => LabelNotMisplaced
  BY DEF ScreenInv
<1>2. QED
  BY <1>1, ScreenCorrect, PTL

-----------------------------------------------------------------------------
(***************************************************************************)
(* The lists.  They lag behind the wallet while a new or a restored wallet *)
(* is on its way to or from the server, never while a question is open,    *)
(* and after a refetch that failed.                                        *)
(***************************************************************************)
ListInv ==
    page \in {"idle", "asking", "asked"} /\ ~failed =>
        activeKeys = Receive!Active(all, archived) /\ archivedKeys = archived

\* A reload lists the addresses of the wallet it leaves.
LEMMA ReloadLists ==
    ASSUME NEW u, NEW p, Receive!Reload(u, all', archived', p) \/ Receive!ReloadAndClose(u, all', archived', p)
    PROVE  ListInv'
BY DEF Receive!Reload, Receive!ReloadAndClose, ListInv

\* Every step preserves that the list is current when nothing is under way.
LEMMA ListStep == ListInv /\ [Receive!Next]_(Receive!vars) => ListInv'
<1> SUFFICES ASSUME ListInv, [Receive!Next]_(Receive!vars) PROVE ListInv'
  OBVIOUS
<1>1. ASSUME page \in {"idle", "asking", "asked"},
             UNCHANGED <<all, archived, activeKeys, archivedKeys, failed>>
      PROVE  ListInv'
  BY <1>1 DEF ListInv
<1>2. ASSUME page' \notin {"idle", "asking", "asked"} PROVE ListInv'
  BY <1>2 DEF ListInv
<1>3. CASE \/ \E a \in Addresses : Receive!SelectRow(a)
           \/ Receive!RequestPayment \/ Receive!LabelAddressClicked \/ Receive!CloseModalClicked
  BY <1>1, <1>3 DEF Receive!SelectRow, Receive!RequestPayment, Receive!LabelAddressClicked, Receive!CloseModalClicked,
     Receive!At, Receive!wallet, Receive!list
<1>4. CASE Receive!LabelSaveClicked
  <2>1. all' = all /\ archived' = archived
    BY <1>4 DEF Receive!LabelSaveClicked, Receive!wallet
  <2>2. \E p : Receive!ReloadAndClose(ui, all', archived', p)
    BY <1>4, <2>1 DEF Receive!LabelSaveClicked
  <2>3. QED
    BY <2>2, ReloadLists
<1>5. CASE Receive!ArchiveAddressClicked
  <2>1. all' = all /\ archived' = Receive!Toggled(ui.clicked)
    BY <1>5 DEF Receive!ArchiveAddressClicked
  <2>2. \E p : Receive!ReloadAndClose(ui, all', archived', p)
    BY <1>5, <2>1 DEF Receive!ArchiveAddressClicked
  <2>3. QED
    BY <2>2, ReloadLists
<1>6. CASE Receive!GenerateNewAddressClicked
  BY <1>1, <1>2, <1>6 DEF Receive!GenerateNewAddressClicked, Receive!MakeKey, Receive!wallet, Receive!list
<1>7. CASE Receive!SecondPasswordAnswered
  BY <1>1, <1>2, <1>7 DEF Receive!SecondPasswordAnswered, Receive!MakeKey, Receive!At, Receive!wallet, Receive!list, Receive!list
<1>8. CASE Receive!GetSecondPassword
  BY <1>1, <1>8 DEF Receive!GetSecondPassword, Receive!wallet, Receive!list
<1>9. CASE Receive!DidBackupWallet
  <2>1. all' = all /\ archived' = archived
    BY <1>9 DEF Receive!DidBackupWallet
  <2>2. Receive!Reload(ui, all', archived', "idle")
    BY <1>9, <2>1 DEF Receive!DidBackupWallet
  <2>3. QED
    BY <2>2, ReloadLists
<1>10. CASE Receive!DidFailBackupWallet \/ Receive!WalletFetched \/ Receive!logout
  BY <1>2, <1>10 DEF Receive!DidFailBackupWallet, Receive!WalletFetched, Receive!logout
<1>16. CASE Receive!HistoryFetched
  <2>1. all' = all /\ archived' = archived
    BY <1>16 DEF Receive!HistoryFetched, Receive!wallet
  <2>2. Receive!Reload(ui, all', archived', "idle")
    BY <1>16, <2>1 DEF Receive!HistoryFetched
  <2>3. QED
    BY <2>2, ReloadLists
<1>17. CASE Receive!HistoryFails
  BY <1>17 DEF Receive!HistoryFails, ListInv
<1>11. CASE Receive!DidGetMultiAddressResponse
  <2>1. all' = all /\ archived' = archived
    BY <1>11 DEF Receive!DidGetMultiAddressResponse, Receive!wallet
  <2>2. Receive!Reload(ui, all', archived', page)
    BY <1>11, <2>1 DEF Receive!DidGetMultiAddressResponse
  <2>3. QED
    BY <2>2, ReloadLists
<1>12. CASE Receive!ResignActive
  BY <1>12 DEF Receive!ResignActive, Receive!wallet, Receive!list, ListInv
<1>13. CASE Receive!WalletDidDecrypt
  <2>1. all' = all /\ archived' = archived
    BY <1>13 DEF Receive!WalletDidDecrypt, Receive!wallet
  <2>2. Receive!Reload(Receive!Shown(ui, Receive!NoModal), all', archived', "idle")
    BY <1>13, <2>1 DEF Receive!WalletDidDecrypt
  <2>3. QED
    BY <2>2, ReloadLists
<1>14. CASE UNCHANGED Receive!vars
  BY <1>14 DEF Receive!vars, Receive!wallet, Receive!list, ListInv
<1>15. QED
  BY <1>3, <1>4, <1>5, <1>6, <1>7, <1>8, <1>9, <1>10, <1>11, <1>12, <1>13, <1>14, <1>16, <1>17
     DEF Receive!Next, Receive!User, Receive!Page, Receive!System

\* When nothing is under way the screen lists the active and the archived
\* addresses of the wallet, also after a failed backup may have taken an address
\* back, until a refetch fails: then the next reload brings the lists back.
THEOREM ListIsCurrentCorrect == ReceiveSpec => []ListIsCurrent
<1>1. Receive!Init => ListInv
  BY DEF Receive!Init, ListInv
<1>2. ListInv => ListIsCurrent
  BY DEF ListInv, ListIsCurrent, Receive!ListIsCurrent
<1>3. QED
  BY <1>1, <1>2, ListStep, PTL DEF ReceiveSpec, Receive!Spec
================================================================================
