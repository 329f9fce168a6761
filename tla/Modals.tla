-------------------------------- MODULE Modals --------------------------------
(***************************************************************************)
(* The modal views of the app: modalView, the modals kept under it in      *)
(* modalChain, and the two password questions of the page that are asked   *)
(* in them.  Both questions use one view, one text field and one flag, so  *)
(* a question may be covered, resumed or dismissed by another's modal.     *)
(*                                                                         *)
(* A modal with closeType None is kept in the chain when another is shown; *)
(* any other is dismissed then.  A question is answered by the onDismiss   *)
(* of its modal, whatever dismisses it.                                    *)
(***************************************************************************)
EXTENDS Naturals, Sequences

CONSTANTS
    Askers,     \* the parts of the page that ask for passwords
    None        \* nil

VARIABLES
    modalView,  \* the modal on top
    modalChain, \* the modals under it
    field,      \* secondPasswordTextField: text, and the question it was typed for
    validateSecondPassword,
    holder,     \* the question whose modal holds secondPasswordView
    answer      \* what each question got

modals == <<modalView, modalChain, field, validateSecondPassword, holder, answer>>

-----------------------------------------------------------------------------
\* getSecondPassword: (closeType Close) and getPrivateKeyPassword: (None).
Question  == [kind : {"second", "key"}, by : Askers]
Second(a) == [kind |-> "second", by |-> a]
Key(a)    == [kind |-> "key", by |-> a]
NoQuestion == [kind |-> "none", by |-> None]
Texts     == {"", "right", "wrong"}
EmptyField == [text |-> "", for |-> NoQuestion]

\* Modals that ask nothing: progress of a send, mainPasswordView and the welcome
\* screen cannot be closed; panels (address book, options, QR reader...) can.
Plain == [kind : {"fixed", "panel"}, by : {None}]
NoModal == NoQuestion
Modal == Question \cup Plain

Closable(m) == m.kind \in {"second", "panel"}

Init ==
    /\ modalView = NoModal /\ modalChain = <<>>
    /\ field = EmptyField
    /\ validateSecondPassword \in BOOLEAN
    /\ holder = NoQuestion
    /\ answer = [q \in Question |-> "unasked"]

-----------------------------------------------------------------------------
\* What the onDismiss of question q tells its asker: an empty field is an
\* error, and a second password is checked once more.  "leak" marks a second
\* password given out as the password of a private key.
Verdict(q) ==
    IF field.text = "" \/ (q.kind = "second" /\ field.text # "right") THEN "error"
    ELSE IF q.kind = "key" /\ field.for.kind = "second" THEN "leak"
    ELSE "success"

\* q is the first question of the modals in D.
ReadsField(q, D) ==
    \E i \in 1..Len(D) : D[i] = q /\ \A j \in 1..(i - 1) : D[j] \notin Question

\* onDismiss of the modals in D, in this order: the first question reads the
\* field and empties it, the others find it empty.
Told(D) ==
    answer' = [q \in Question |->
        IF \A i \in 1..Len(D) : D[i] # q THEN answer[q]
        ELSE IF answer[q] # "open" THEN "again"
        ELSE IF ReadsField(q, D) THEN Verdict(q) ELSE "error"]

Cleared(D) ==
    field' = IF \E i \in 1..Len(D) : D[i] \in Question THEN EmptyField ELSE field

Dismiss(D) == Told(D) /\ Cleared(D)

\* Mutant of Covered: every modal is closed when another is shown.
NeverCovered(m) == FALSE

\* showModalWithContent: keeps the modal there is in the chain, without telling it?
Covered(m) == m # NoModal /\ ~Closable(m)

\* The modal that is told it goes when another is shown.
Replaced == IF Closable(modalView) THEN <<modalView>> ELSE <<>>

\* showModalWithContent:closeType:onDismiss: but for the answer of question m.
Show(m) ==
    /\ modalView' = m
    /\ modalChain' = IF Covered(modalView) THEN Append(modalChain, modalView) ELSE modalChain
    /\ Cleared(Replaced)

ShowPlain(m) ==
    /\ Show(m) /\ Told(Replaced)
    /\ UNCHANGED <<validateSecondPassword, holder>>

\* getSecondPassword:error: and getPrivateKeyPassword:error:
Ask(q) ==
    /\ answer[q] = "unasked"
    /\ Show(q)
    /\ answer' = [p \in Question |->
         IF p = q THEN "open"
         ELSE IF p = modalView /\ Closable(p) THEN Verdict(p) ELSE answer[p]]
    /\ validateSecondPassword' = (q.kind = "second")
    /\ holder' = q

\* closeModalWithTransition: whatever is on top goes, the last of the chain comes.
closeModal ==
    /\ Dismiss(<<modalView>>)
    /\ \/ /\ modalChain = <<>>
          /\ modalView' = NoModal /\ UNCHANGED modalChain
       \/ /\ modalChain # <<>>
          /\ modalView' = modalChain[Len(modalChain)]
          /\ modalChain' = SubSeq(modalChain, 1, Len(modalChain) - 1)
    /\ UNCHANGED <<validateSecondPassword, holder>>

\* closeAllModals: the modal on top, then those of the chain.
closeAllModals ==
    /\ Dismiss(<<modalView>> \o modalChain)
    /\ modalView' = NoModal /\ modalChain' = <<>>
    /\ UNCHANGED <<validateSecondPassword, holder>>

-----------------------------------------------------------------------------
\* The user, at the modal on top.

\* The text field is there only if the view was not moved to another modal.
Type(t) ==
    /\ modalView \in Question /\ holder = modalView
    /\ field' = [text |-> t, for |-> modalView]
    /\ UNCHANGED <<modalView, modalChain, validateSecondPassword, holder, answer>>

\* secondPasswordClicked:
secondPasswordClicked ==
    /\ modalView \in Question /\ holder = modalView
    /\ \/ /\ ~validateSecondPassword \/ field.text = "right"
          /\ closeModal
       \/ /\ validateSecondPassword /\ field.text # "right"
          /\ field' = EmptyField
          /\ UNCHANGED <<modalView, modalChain, validateSecondPassword, holder, answer>>

\* closeModalClicked: of BCModalView.
closeModalClicked == Closable(modalView) /\ closeModal

\* The app closes a modal or all of them, or shows one that asks nothing.
AppCloses == closeModal \/ closeAllModals
AppShows == \E m \in Plain : ShowPlain(m)

Next ==
    \/ \E q \in Question : Ask(q)
    \/ \E t \in Texts : Type(t)
    \/ secondPasswordClicked \/ closeModalClicked
    \/ AppCloses \/ AppShows

Spec == Init /\ [][Next]_modals
-----------------------------------------------------------------------------
(***************************************************************************)
(* Properties.                                                             *)
(***************************************************************************)

\* The variables hold what their declarations in the code allow.
TypeOK ==
    /\ modalView \in Modal \cup {NoModal}
    /\ modalChain \in Seq(Modal)
    /\ field \in [text : Texts, for : Question \cup {NoQuestion}]
    /\ validateSecondPassword \in BOOLEAN
    /\ holder \in Question \cup {NoQuestion}
    /\ answer \in [Question -> {"unasked", "open", "error", "success", "leak", "again"}]

OnScreen(q) == q = modalView \/ \E i \in 1..Len(modalChain) : q = modalChain[i]

\* A question is answered exactly once: while it is open its modal is on top or
\* in the chain, and an onDismiss is never called a second time, although the
\* modals of the chain keep theirs.  Nor is the second password of the wallet
\* the answer for a private key's, although both read the same text field: it
\* is emptied whenever a second password's modal goes.
AnsweredOnce ==
    \A q \in Question :
        answer[q] \notin {"again", "leak"} /\ (answer[q] = "open" => OnScreen(q))

\* Nothing is kept in the chain under no modal: it would never be seen again.
NothingHidden == modalView = NoModal => modalChain = <<>>

\* The button of a second password's modal checks what is typed: the flag is
\* the one of the question on top, although questions cover one another.
ChecksSecondPassword == modalView.kind = "second" => validateSecondPassword
=============================================================================
