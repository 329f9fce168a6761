----------------------------- MODULE PaymentProofs -----------------------------
(***************************************************************************)
(* Proofs about Payment and the modals it asks its questions in, for any   *)
(* sends and imports and any number of them at a time.  First the modals:  *)
(* by what they do alone, whoever shows and closes them, every question is *)
(* answered once and by its own text.  Then every step of Payment is shown *)
(* to be one that Modals allows, so that Payment inherits this; and last   *)
(* what Payment has of its own, the table of the one transaction and the   *)
(* questions on their way.                                                 *)
(***************************************************************************)
EXTENDS Payment, FiniteSetTheorems, SequenceTheorems, TLAPS

-----------------------------------------------------------------------------
(***************************************************************************)
(* The modals.                                                             *)
(***************************************************************************)

\* m is one of the modals of D.
In(m, D) == \E i \in 1..Len(D) : D[i] = m

\* What is on the screen: a modal that could be closed is never covered, and
\* nothing is covered by no modal.
Kept == {m \in M!Modal : ~M!Closable(m)}
Screen ==
    /\ modalView \in M!Modal \cup {M!NoModal}
    /\ modalChain \in Seq(Kept)
    /\ M!NothingHidden

\* The field has text of a second password's question only while that question
\* is on top, and then its text is checked.
View ==
    /\ field \in [text : M!Texts, for : M!Question \cup {M!NoQuestion}]
    /\ validateSecondPassword \in BOOLEAN
    /\ holder \in M!Question \cup {M!NoQuestion}
    /\ field.for.kind = "second" => modalView.kind = "second"
    /\ M!ChecksSecondPassword

\* The questions that are open are those on the screen, each of them once.
Answers == answer \in [M!Question -> {"unasked", "open", "error", "success"}]
OpenOnScreen ==
    \A q \in M!Question : answer[q] = "open" <=> q = modalView \/ In(q, modalChain)
Once ==
    \A i \in 1..Len(modalChain) :
        modalChain[i] \in M!Question =>
            /\ modalChain[i] # modalView
            /\ \A j \in 1..Len(modalChain) : modalChain[j] = modalChain[i] => j = i

ModalsInv == Screen /\ View /\ Answers /\ OpenOnScreen /\ Once

\* What the kinds of modals tell apart.
LEMMA Kinds ==
    /\ \A q \in M!Question : q \in M!Modal /\ q # M!NoModal /\ q.kind \in {"second", "key"}
    /\ \A m \in M!Plain : m \in M!Modal /\ m # M!NoModal /\ m \notin M!Question
    /\ \A m \in M!Modal : m \notin M!Question => m \in M!Plain
    /\ \A m \in M!Modal : m.kind \in {"second", "key"} => m \in M!Question
    /\ \A m \in M!Modal \cup {M!NoModal} : m.kind = "second" => m \in M!Question
    /\ \A m \in M!Modal : m # M!NoModal
    /\ M!NoModal \notin M!Question /\ M!NoModal.kind = "none" /\ M!NoQuestion = M!NoModal
    /\ ~M!Closable(M!NoModal)
    /\ \A q \in M!Question : M!Closable(q) <=> q.kind = "second"
    /\ M!EmptyField.text = "" /\ M!EmptyField.for = M!NoQuestion
    /\ M!EmptyField \in [text : M!Texts, for : M!Question \cup {M!NoQuestion}]
BY DEF M!Question, M!Plain, M!Modal, M!NoModal, M!NoQuestion, M!Closable, M!EmptyField, M!Texts

\* Pushing and popping the chain.
LEMMA Pushed ==
    ASSUME NEW S, NEW c \in Seq(S), NEW m \in S
    PROVE  /\ Append(c, m) \in Seq(S) /\ Len(Append(c, m)) = Len(c) + 1
           /\ \A i \in 1..Len(c) : Append(c, m)[i] = c[i]
           /\ Append(c, m)[Len(c) + 1] = m
           /\ Append(c, m) # <<>>
OBVIOUS

LEMMA Popped ==
    ASSUME NEW S, NEW c \in Seq(S), c # <<>>
    PROVE  /\ SubSeq(c, 1, Len(c) - 1) \in Seq(S)
           /\ Len(SubSeq(c, 1, Len(c) - 1)) = Len(c) - 1
           /\ \A i \in 1..(Len(c) - 1) : SubSeq(c, 1, Len(c) - 1)[i] = c[i]
           /\ Len(c) \in Nat \ {0} /\ c[Len(c)] \in S
<1>1. Len(c) \in Nat \ {0} /\ \A i \in 1..Len(c) : c[i] \in S  OBVIOUS
<1>2. \A i \in 1..(Len(c) - 1) : c[i] \in S  BY <1>1
<1>3. 1 \in Int /\ Len(c) - 1 \in Int  BY <1>1
<1>4. /\ SubSeq(c, 1, Len(c) - 1) \in Seq(S)
      /\ Len(SubSeq(c, 1, Len(c) - 1)) = IF 1 <= Len(c) - 1 THEN (Len(c) - 1) - 1 + 1 ELSE 0
      /\ \A i \in 1..((Len(c) - 1) - 1 + 1) : SubSeq(c, 1, Len(c) - 1)[i] = c[1 + i - 1]
  BY <1>2, <1>3, SubSeqProperties
<1>5. /\ (Len(c) - 1) - 1 + 1 = Len(c) - 1
      /\ (IF 1 <= Len(c) - 1 THEN (Len(c) - 1) - 1 + 1 ELSE 0) = Len(c) - 1
      /\ \A i \in 1..(Len(c) - 1) : 1 + i - 1 = i
  <2>1. ASSUME NEW n \in Nat, n # 0
        PROVE  /\ (n - 1) - 1 + 1 = n - 1
               /\ (IF 1 <= n - 1 THEN (n - 1) - 1 + 1 ELSE 0) = n - 1
    <3>1. CASE 1 <= n - 1  BY <3>1
    <3>2. CASE ~(1 <= n - 1)
      <4>1. n = 1  BY <2>1, <3>2
      <4> QED  BY <4>1
    <3> QED  BY <3>1, <3>2
  <2>2. Len(c) \in Nat /\ Len(c) # 0  BY <1>1
  <2>3. \A i \in 1..(Len(c) - 1) : 1 + i - 1 = i  BY <2>2
  <2> QED  BY <2>1, <2>2, <2>3
<1>6. Len(SubSeq(c, 1, Len(c) - 1)) = Len(c) - 1  BY <1>4, <1>5
<1>7. \A i \in 1..(Len(c) - 1) : SubSeq(c, 1, Len(c) - 1)[i] = c[i]
  <2>1. TAKE i \in 1..(Len(c) - 1)
  <2>2. i \in 1..((Len(c) - 1) - 1 + 1) /\ 1 + i - 1 = i  BY <1>5
  <2>3. SubSeq(c, 1, Len(c) - 1)[i] = c[1 + i - 1]  BY <1>4, <2>2
  <2> QED  BY <2>2, <2>3
<1>8. Len(c) \in 1..Len(c)  BY <1>1
<1> QED  BY <1>1, <1>4, <1>6, <1>7, <1>8

LEMMA Whole ==
    ASSUME NEW S, NEW T, NEW c \in Seq(S), NEW m \in T, S \subseteq T
    PROVE  /\ <<m>> \o c \in Seq(T) /\ Len(<<m>> \o c) = Len(c) + 1
           /\ (<<m>> \o c)[1] = m
           /\ \A i \in 1..Len(c) : (<<m>> \o c)[i + 1] = c[i]
OBVIOUS

\* The modals of D are told they go: questions on the screen are answered, with
\* what is theirs if the first of them is not a key's while the text is a second
\* password's; all others keep what they have.
LEMMA ToldFits ==
    ASSUME ModalsInv, NEW D \in Seq(M!Modal \cup {M!NoModal}), M!Told(D),
           \A q \in M!Question : In(q, D) => answer[q] = "open",
           \A q \in M!Question :
               q.kind = "key" /\ M!ReadsField(q, D) => field.for.kind # "second"
    PROVE  /\ Answers'
           /\ \A q \in M!Question :
                answer'[q] = "open" <=> answer[q] = "open" /\ ~In(q, D)
<1>1. ASSUME NEW q \in M!Question, In(q, D)
      PROVE  answer'[q] \in {"error", "success"}
  <2>1. CASE M!ReadsField(q, D)
    <3>1. M!Verdict(q) \in {"error", "success"}  BY <2>1, Kinds, <1>1 DEF M!Verdict
    <3> QED  BY <3>1, <2>1, <1>1 DEF M!Told, In
  <2>2. CASE ~M!ReadsField(q, D)  BY <2>2, <1>1 DEF M!Told, In
  <2> QED  BY <2>1, <2>2
<1>2. ASSUME NEW q \in M!Question, ~In(q, D)
      PROVE  answer'[q] = answer[q]
  BY <1>2 DEF M!Told, In
<1>3. Answers'
  <2>1. \A q \in M!Question : answer'[q] \in {"unasked", "open", "error", "success"}
    BY <1>1, <1>2 DEF ModalsInv, Answers
  <2>2. answer' = [q \in M!Question |-> answer'[q]]  BY DEF M!Told
  <2> QED  BY <2>1, <2>2 DEF Answers
<1> QED  BY <1>1, <1>2, <1>3

\* The field, when the modals of D go and a second password's is one of them if
\* it is on top.
LEMMA ClearedFits ==
    ASSUME ModalsInv, NEW D \in Seq(M!Modal \cup {M!NoModal}), M!Cleared(D),
           modalView.kind = "second" => In(modalView, D)
    PROVE  /\ field' \in [text : M!Texts, for : M!Question \cup {M!NoQuestion}]
           /\ field'.for.kind # "second"
<1>1. CASE \E i \in 1..Len(D) : D[i] \in M!Question
  BY <1>1, Kinds DEF M!Cleared
<1>2. CASE ~ \E i \in 1..Len(D) : D[i] \in M!Question
  <2>1. modalView.kind # "second"  BY <1>2, Kinds DEF In, ModalsInv, Screen
  <2> QED  BY <2>1, <1>2 DEF M!Cleared, ModalsInv, View
<1> QED  BY <1>1, <1>2

\* A modal that could be closed goes when another is shown, any other is kept.
LEMMA ReplacedFits ==
    ASSUME ModalsInv
    PROVE  /\ M!Replaced \in Seq(M!Modal \cup {M!NoModal})
           /\ \A q : In(q, M!Replaced) <=> q = modalView /\ M!Closable(modalView)
           /\ \A q \in M!Question : In(q, M!Replaced) => answer[q] = "open"
           /\ \A q \in M!Question : M!ReadsField(q, M!Replaced) => q.kind = "second"
           /\ modalView.kind = "second" => In(modalView, M!Replaced)
<1>1. modalView \in M!Modal \cup {M!NoModal}  BY DEF ModalsInv, Screen
<1>2. CASE M!Closable(modalView)
  <2>1. M!Replaced = <<modalView>>  BY <1>2 DEF M!Replaced
  <2>2. \A q : In(q, M!Replaced) <=> q = modalView  BY <2>1 DEF In
  <2>3. \A q \in M!Question : M!ReadsField(q, M!Replaced) => q = modalView
    BY <2>1 DEF M!ReadsField
  <2>4. <<modalView>> \in Seq(M!Modal \cup {M!NoModal})  BY <1>1
  <2>5. \A q \in M!Question : q = modalView => answer[q] = "open" /\ q.kind = "second"
    BY <1>2, Kinds DEF ModalsInv, OpenOnScreen
  <2> QED  BY <1>2, <2>1, <2>2, <2>3, <2>4, <2>5
<1>3. CASE ~M!Closable(modalView)
  <2>1. M!Replaced = <<>>  BY <1>3 DEF M!Replaced
  <2>2. \A q : ~In(q, M!Replaced) /\ ~M!ReadsField(q, M!Replaced)
    BY <2>1 DEF In, M!ReadsField
  <2>3. modalView.kind # "second"  BY <1>3, <1>1, Kinds
  <2>4. M!Replaced \in Seq(M!Modal \cup {M!NoModal})  BY <2>1
  <2> QED  BY <1>3, <2>2, <2>3, <2>4
<1> QED  BY <1>2, <1>3

\* What is on the screen after m is shown.
LEMMA ShownFits ==
    ASSUME ModalsInv, NEW m \in M!Modal, M!Show(m),
           m \in M!Question => answer[m] # "open"
    PROVE  /\ Screen' /\ Once'
           /\ field' \in [text : M!Texts, for : M!Question \cup {M!NoQuestion}]
           /\ field'.for.kind # "second"
           /\ \A q \in M!Question :
                q = modalView' \/ In(q, modalChain') <=>
                q = m \/ (answer[q] = "open" /\ ~In(q, M!Replaced))
<1>1. /\ field' \in [text : M!Texts, for : M!Question \cup {M!NoQuestion}]
      /\ field'.for.kind # "second"
  BY ReplacedFits, ClearedFits DEF M!Show
<1>2. /\ modalView \in M!Modal \cup {M!NoModal} /\ modalChain \in Seq(Kept)
      /\ modalView' = m /\ m # M!NoModal
  BY Kinds DEF ModalsInv, Screen, M!Show
<1>3. \A q \in M!Question : answer[q] = "open" <=> q = modalView \/ In(q, modalChain)
  BY DEF ModalsInv, OpenOnScreen
<1>4. \A i \in 1..Len(modalChain) :
          modalChain[i] \in M!Question =>
              /\ modalChain[i] # modalView /\ modalChain[i] # m
              /\ \A j \in 1..Len(modalChain) : modalChain[j] = modalChain[i] => j = i
  BY <1>3 DEF ModalsInv, Once, In
<1>5. Len(modalChain) \in Nat  BY <1>2
<1>6. CASE M!Covered(modalView)
  <2>1. modalView \in Kept /\ ~M!Closable(modalView)
    BY <1>6, <1>2 DEF M!Covered, Kept
  <2>2. modalChain' = Append(modalChain, modalView)  BY <1>6 DEF M!Show
  <2>3. /\ modalChain' \in Seq(Kept) /\ Len(modalChain') = Len(modalChain) + 1
        /\ \A i \in 1..Len(modalChain) : modalChain'[i] = modalChain[i]
        /\ modalChain'[Len(modalChain) + 1] = modalView
    BY <2>1, <2>2, <1>2, Pushed
  <2>4. \A q : In(q, modalChain') <=> q = modalView \/ In(q, modalChain)
    <3>1. \A i \in 1..Len(modalChain') : i \in 1..Len(modalChain) \/ i = Len(modalChain) + 1
      BY <2>3, <1>5
    <3>2. /\ \A i \in 1..Len(modalChain) : i \in 1..Len(modalChain')
          /\ Len(modalChain) + 1 \in 1..Len(modalChain')
      BY <2>3, <1>5
    <3> QED  BY <3>1, <3>2, <2>3 DEF In
  <2>5. \A q : ~In(q, M!Replaced)  BY <2>1, ReplacedFits
  <2>6. modalView \in M!Question => modalView # m  BY <1>3
  <2>7. Once'
    <3>1. SUFFICES ASSUME NEW i \in 1..Len(modalChain'), modalChain'[i] \in M!Question
                   PROVE  /\ modalChain'[i] # m
                          /\ \A j \in 1..Len(modalChain') :
                                modalChain'[j] = modalChain'[i] => j = i
      BY <1>2 DEF Once
    <3>2. \A j \in 1..Len(modalChain') : j \in 1..Len(modalChain) \/ j = Len(modalChain) + 1
      BY <2>3, <1>5
    <3>3. CASE i \in 1..Len(modalChain)  BY <3>1, <3>2, <3>3, <2>3, <1>4
    <3>4. CASE i = Len(modalChain) + 1  BY <3>1, <3>2, <3>4, <2>3, <2>6, <1>4
    <3> QED  BY <3>2, <3>3, <3>4
  <2>8. Screen'  BY <1>2, <2>3 DEF Screen, M!NothingHidden
  <2> QED  BY <1>1, <1>2, <1>3, <2>4, <2>5, <2>7, <2>8
<1>7. CASE ~M!Covered(modalView)
  <2>1. modalChain' = modalChain  BY <1>7 DEF M!Show
  <2>2. modalView \in M!Question => M!Closable(modalView)
    BY <1>7, <1>2, Kinds DEF M!Covered
  <2>3. Once'  BY <2>1, <1>2, <1>4 DEF Once
  <2>4. Screen'  BY <1>2, <2>1 DEF Screen, M!NothingHidden
  <2>5. \A q \in M!Question : In(q, modalChain) => q # modalView
    BY <1>4 DEF In
  <2> QED  BY <1>1, <1>2, <1>3, <2>1, <2>2, <2>3, <2>4, <2>5, ReplacedFits
<1> QED  BY <1>6, <1>7

\* A modal that asks nothing is shown.
LEMMA ShowPlainFits ==
    ASSUME ModalsInv, NEW m \in M!Plain, M!ShowPlain(m)  PROVE ModalsInv'
<1>1. m \in M!Modal /\ m \notin M!Question /\ m.kind # "second"  BY Kinds DEF M!Plain
<1>2. /\ Screen' /\ Once'
      /\ field' \in [text : M!Texts, for : M!Question \cup {M!NoQuestion}]
      /\ field'.for.kind # "second"
      /\ \A q \in M!Question :
           q = modalView' \/ In(q, modalChain') <=>
           q = m \/ (answer[q] = "open" /\ ~In(q, M!Replaced))
  BY <1>1, ShownFits DEF M!ShowPlain
<1>3. /\ Answers'
      /\ \A q \in M!Question :
           answer'[q] = "open" <=> answer[q] = "open" /\ ~In(q, M!Replaced)
  BY ReplacedFits, ToldFits DEF M!ShowPlain
<1>4. View'
  BY <1>1, <1>2 DEF View, ModalsInv, M!ShowPlain, M!Show, M!ChecksSecondPassword
<1>5. OpenOnScreen'  BY <1>1, <1>2, <1>3 DEF OpenOnScreen
<1> QED  BY <1>2, <1>3, <1>4, <1>5 DEF ModalsInv

\* A question is asked: it is open, and the one that is replaced is answered.
LEMMA AskFits ==
    ASSUME ModalsInv, NEW q \in M!Question, M!Ask(q)  PROVE ModalsInv'
<1>1. q \in M!Modal  BY Kinds
<1>2. /\ Screen' /\ Once'
      /\ field' \in [text : M!Texts, for : M!Question \cup {M!NoQuestion}]
      /\ field'.for.kind # "second"
      /\ \A p \in M!Question :
           p = modalView' \/ In(p, modalChain') <=>
           p = q \/ (answer[p] = "open" /\ ~In(p, M!Replaced))
  BY <1>1, ShownFits DEF M!Ask
<1>3. View'
  BY <1>2 DEF View, ModalsInv, M!Ask, M!Show, M!ChecksSecondPassword
<1>4. \A p \in M!Question : p = modalView /\ M!Closable(p) => M!Verdict(p) \in {"error", "success"}
  BY Kinds DEF M!Verdict
<1>5. \A p \in M!Question :
          answer'[p] = IF p = q THEN "open"
                       ELSE IF p = modalView /\ M!Closable(p) THEN M!Verdict(p) ELSE answer[p]
  BY DEF M!Ask
<1>6. Answers'
  <2>1. \A p \in M!Question : answer'[p] \in {"unasked", "open", "error", "success"}
    BY <1>4, <1>5 DEF ModalsInv, Answers
  <2>2. answer' = [p \in M!Question |-> answer'[p]]  BY DEF M!Ask
  <2> QED  BY <2>1, <2>2 DEF Answers
<1>7. OpenOnScreen'  BY <1>2, <1>4, <1>5, ReplacedFits DEF OpenOnScreen
<1> QED  BY <1>2, <1>3, <1>6, <1>7 DEF ModalsInv

\* The modal on top is closed, and the last of the chain takes its place.
LEMMA CloseFits == ModalsInv /\ M!closeModal => ModalsInv'
<1> SUFFICES ASSUME ModalsInv, M!closeModal PROVE ModalsInv'  OBVIOUS
<1>1. /\ modalView \in M!Modal \cup {M!NoModal} /\ modalChain \in Seq(Kept)
      /\ modalView = M!NoModal => modalChain = <<>>
  BY DEF ModalsInv, Screen, M!NothingHidden
<1>2. \A q : In(q, <<modalView>>) <=> q = modalView  BY DEF In
<1>3. <<modalView>> \in Seq(M!Modal \cup {M!NoModal})  BY <1>1
<1>4. \A q \in M!Question : q = modalView => answer[q] = "open"
  BY DEF ModalsInv, OpenOnScreen
<1>5. \A q \in M!Question :
          q.kind = "key" /\ M!ReadsField(q, <<modalView>>) => field.for.kind # "second"
  <2>1. \A q \in M!Question : M!ReadsField(q, <<modalView>>) => q = modalView
    BY <1>3 DEF M!ReadsField
  <2>2. field.for.kind = "second" => modalView.kind = "second"  BY DEF ModalsInv, View
  <2>3. \A q \in M!Question : q.kind = "key" => q.kind # "second"  OBVIOUS
  <2> QED  BY <2>1, <2>2, <2>3
<1>6. M!Told(<<modalView>>) /\ M!Cleared(<<modalView>>)  BY DEF M!closeModal, M!Dismiss
<1>7. /\ Answers'
      /\ \A q \in M!Question : answer'[q] = "open" <=> answer[q] = "open" /\ q # modalView
  BY <1>2, <1>3, <1>4, <1>5, <1>6, ToldFits
<1>8. /\ field' \in [text : M!Texts, for : M!Question \cup {M!NoQuestion}]
      /\ field'.for.kind # "second"
  BY <1>2, <1>3, <1>6, ClearedFits
<1>9. /\ modalView' \in M!Modal \cup {M!NoModal} /\ modalView'.kind # "second"
      /\ Screen' /\ Once'
      /\ \A q \in M!Question :
           q = modalView' \/ In(q, modalChain') <=>
           (q = modalView \/ In(q, modalChain)) /\ q # modalView
  <2>1. CASE modalChain = <<>>
    <3>1. modalView' = M!NoModal /\ modalChain' = <<>>  BY <2>1 DEF M!closeModal
    <3>2. \A q : ~In(q, modalChain) /\ ~In(q, modalChain')  BY <2>1, <3>1 DEF In
    <3>3. Screen'  BY <3>1 DEF Screen, M!NothingHidden
    <3>4. Once'  BY <3>1 DEF Once
    <3> QED  BY <3>1, <3>2, <3>3, <3>4, Kinds
  <2>2. CASE modalChain # <<>>
    <3>1. /\ modalView' = modalChain[Len(modalChain)]
          /\ modalChain' = SubSeq(modalChain, 1, Len(modalChain) - 1)
      BY <2>2 DEF M!closeModal
    <3>2. /\ modalChain' \in Seq(Kept) /\ Len(modalChain') = Len(modalChain) - 1
          /\ \A i \in 1..(Len(modalChain) - 1) : modalChain'[i] = modalChain[i]
          /\ Len(modalChain) \in Nat \ {0} /\ modalView' \in Kept
      BY <1>1, <2>2, <3>1, Popped
    <3>3. /\ \A i \in 1..Len(modalChain) : i \in 1..Len(modalChain') \/ i = Len(modalChain)
          /\ \A i \in 1..Len(modalChain') : i \in 1..Len(modalChain) /\ i # Len(modalChain)
          /\ Len(modalChain) \in 1..Len(modalChain)
      BY <3>2
    <3>4. \A i \in 1..Len(modalChain') : modalChain'[i] = modalChain[i]  BY <3>2
    <3>5. \A q : q = modalView' \/ In(q, modalChain') <=> In(q, modalChain)
      BY <3>1, <3>3, <3>4 DEF In
    <3>6. \A i \in 1..Len(modalChain) :
              modalChain[i] \in M!Question =>
                  /\ modalChain[i] # modalView
                  /\ \A j \in 1..Len(modalChain) : modalChain[j] = modalChain[i] => j = i
      BY DEF ModalsInv, Once
    <3>7. Once'  BY <3>1, <3>3, <3>4, <3>6 DEF Once
    <3>8. \A q \in M!Question : In(q, modalChain) => q # modalView  BY <3>6 DEF In
    <3>9. modalView' \in M!Modal /\ modalView'.kind # "second" /\ modalView' # M!NoModal
      BY <3>2, Kinds DEF Kept, M!Closable
    <3>10. Screen'  BY <3>2, <3>9 DEF Screen, M!NothingHidden
    <3> QED  BY <3>5, <3>7, <3>8, <3>9, <3>10
  <2> QED  BY <2>1, <2>2
<1>10. OpenOnScreen'  BY <1>7, <1>9 DEF ModalsInv, OpenOnScreen
<1>11. View'
  BY <1>8, <1>9 DEF View, ModalsInv, M!closeModal, M!ChecksSecondPassword
<1> QED  BY <1>7, <1>9, <1>10, <1>11 DEF ModalsInv

\* All modals are closed.
LEMMA CloseAllFits == ModalsInv /\ M!closeAllModals => ModalsInv'
<1> SUFFICES ASSUME ModalsInv, M!closeAllModals PROVE ModalsInv'  OBVIOUS
<1> DEFINE D == <<modalView>> \o modalChain
<1>1. modalView \in M!Modal \cup {M!NoModal} /\ modalChain \in Seq(Kept)
  BY DEF ModalsInv, Screen
<1>2. Kept \subseteq M!Modal \cup {M!NoModal}  BY DEF Kept
<1>3. /\ D \in Seq(M!Modal \cup {M!NoModal}) /\ Len(D) = Len(modalChain) + 1
      /\ D[1] = modalView
      /\ \A i \in 1..Len(modalChain) : D[i + 1] = modalChain[i]
  BY <1>1, <1>2, Whole
<1>4. M!Told(D) /\ M!Cleared(D) /\ modalView' = M!NoModal /\ modalChain' = <<>>
  BY DEF M!closeAllModals, M!Dismiss
<1> HIDE DEF D
<1>5. Len(modalChain) \in Nat  BY <1>1
<1>6. 1 \in 1..Len(D) /\ \A i \in 1..Len(modalChain) : i + 1 \in 1..Len(D)
  BY <1>3, <1>5
<1>7. \A i \in 1..Len(D) : i = 1 \/ \E j \in 1..Len(modalChain) : i = j + 1
  <2>1. SUFFICES ASSUME NEW i \in 1..Len(D), i # 1
                 PROVE  \E j \in 1..Len(modalChain) : i = j + 1
    OBVIOUS
  <2>2. i - 1 \in 1..Len(modalChain) /\ i = (i - 1) + 1  BY <2>1, <1>3, <1>5
  <2> QED  BY <2>2
<1>8. \A q : In(q, D) <=> q = modalView \/ In(q, modalChain)
  BY <1>3, <1>6, <1>7 DEF In
<1>9. \A q \in M!Question : In(q, D) => answer[q] = "open"
  BY <1>8 DEF ModalsInv, OpenOnScreen
<1>10. ASSUME NEW q \in M!Question, q.kind = "key", M!ReadsField(q, D)
       PROVE  field.for.kind # "second"
  <2>1. CASE modalView.kind = "second"
    <3>1. modalView \in M!Question /\ modalView # q  BY <1>1, <1>10, <2>1, Kinds
    <3>2. PICK i \in 1..Len(D) : D[i] = q /\ \A j \in 1..(i - 1) : D[j] \notin M!Question
      BY <1>10 DEF M!ReadsField
    <3>3. i # 1 /\ D[1] \in M!Question  BY <1>3, <3>1, <3>2
    <3>4. 1 \in 1..(i - 1)  BY <3>3
    <3> QED  BY <3>2, <3>3, <3>4
  <2>2. CASE modalView.kind # "second"  BY <2>2 DEF ModalsInv, View
  <2> QED  BY <2>1, <2>2
<1>11. Answers' /\ \A q \in M!Question : answer'[q] = "open" <=> answer[q] = "open" /\ ~In(q, D)
  BY <1>3, <1>4, <1>9, <1>10, ToldFits
<1>12. /\ field' \in [text : M!Texts, for : M!Question \cup {M!NoQuestion}]
       /\ field'.for.kind # "second"
  BY <1>3, <1>4, <1>8, ClearedFits
<1>13. \A q \in M!Question : answer'[q] # "open"
  BY <1>8, <1>11 DEF ModalsInv, OpenOnScreen
<1>14. \A q : ~In(q, modalChain')  BY <1>4 DEF In
<1>15. OpenOnScreen'  BY <1>4, <1>13, <1>14, Kinds DEF OpenOnScreen
<1>16. Screen' /\ Once'  BY <1>4 DEF Screen, Once, M!NothingHidden
<1>17. View'
  BY <1>4, <1>12, Kinds DEF View, ModalsInv, M!closeAllModals, M!ChecksSecondPassword
<1> QED  BY <1>11, <1>15, <1>16, <1>17 DEF ModalsInv

\* The user types in the question on top.
LEMMA TypeFits == ASSUME ModalsInv, NEW t \in M!Texts, M!Type(t) PROVE ModalsInv'
<1>1. /\ field' = [text |-> t, for |-> modalView] /\ modalView \in M!Question
      /\ UNCHANGED <<modalView, modalChain, validateSecondPassword, holder, answer>>
  BY DEF M!Type
<1>2. View'  BY <1>1 DEF View, ModalsInv, M!ChecksSecondPassword
<1> QED  BY <1>1, <1>2 DEF ModalsInv, Screen, Answers, OpenOnScreen, Once, M!NothingHidden

\* Initially nothing is on the screen and nothing is asked.
LEMMA ModalsInit == M!Init => ModalsInv
<1> SUFFICES ASSUME M!Init PROVE ModalsInv  OBVIOUS
<1>1. /\ modalView = M!NoModal /\ modalChain = <<>> /\ field = M!EmptyField
      /\ validateSecondPassword \in BOOLEAN /\ holder = M!NoQuestion
      /\ answer = [q \in M!Question |-> "unasked"]
  BY DEF M!Init
<1>2. Screen /\ Once  BY <1>1 DEF Screen, Once, M!NothingHidden
<1>3. View  BY <1>1, Kinds DEF View, M!ChecksSecondPassword
<1>4. Answers /\ \A q \in M!Question : answer[q] # "open"  BY <1>1 DEF Answers
<1>5. \A q : ~In(q, modalChain)  BY <1>1 DEF In
<1>6. OpenOnScreen  BY <1>1, <1>4, <1>5, Kinds DEF OpenOnScreen
<1> QED  BY <1>2, <1>3, <1>4, <1>6 DEF ModalsInv

\* Every step of the modals keeps the invariant.
LEMMA ModalsStep == ModalsInv /\ [M!Next]_(M!modals) => ModalsInv'
<1> SUFFICES ASSUME ModalsInv, [M!Next]_(M!modals) PROVE ModalsInv'  OBVIOUS
<1>1. CASE \E q \in M!Question : M!Ask(q)  BY <1>1, AskFits
<1>2. CASE \E t \in M!Texts : M!Type(t)  BY <1>2, TypeFits
<1>3. CASE M!secondPasswordClicked
  <2>1. CASE M!closeModal  BY <2>1, CloseFits
  <2>2. CASE /\ field' = M!EmptyField
             /\ UNCHANGED <<modalView, modalChain, validateSecondPassword, holder, answer>>
    <3>1. View'  BY <2>2, Kinds DEF View, ModalsInv, M!ChecksSecondPassword
    <3> QED
      BY <2>2, <3>1 DEF ModalsInv, Screen, Answers, OpenOnScreen, Once, M!NothingHidden
  <2> QED  BY <1>3, <2>1, <2>2 DEF M!secondPasswordClicked
<1>4. CASE M!closeModalClicked  BY <1>4, CloseFits DEF M!closeModalClicked
<1>5. CASE M!AppCloses  BY <1>5, CloseFits, CloseAllFits DEF M!AppCloses
<1>6. CASE M!AppShows  BY <1>6, ShowPlainFits DEF M!AppShows
<1>7. CASE UNCHANGED M!modals
  BY <1>7 DEF M!modals, ModalsInv, Screen, View, Answers, OpenOnScreen, Once,
              M!NothingHidden, M!ChecksSecondPassword
<1> QED  BY <1>1, <1>2, <1>3, <1>4, <1>5, <1>6, <1>7 DEF M!Next

\* What the modals promise follows: what is answered is neither answered again
\* nor given another's text, what is open is on the screen.
LEMMA ModalsPromise == ModalsInv => QuestionsAnsweredOnce
<1> SUFFICES ASSUME ModalsInv PROVE QuestionsAnsweredOnce  OBVIOUS
<1>1. \A q \in M!Question : answer[q] \notin {"again", "leak"}
  BY DEF ModalsInv, Answers
<1>2. \A q \in M!Question : answer[q] = "open" => M!OnScreen(q)
  BY DEF ModalsInv, OpenOnScreen, In, M!OnScreen
<1> QED
  BY <1>1, <1>2 DEF ModalsInv, Screen, View, QuestionsAnsweredOnce, M!AnsweredOnce

\* Modals, whoever asks and however the app shows and closes other modals
\* (getSecondPassword:, getPrivateKeyPassword:, closeModal, closeAllModals).
THEOREM ModalsAnswerOnce == M!Spec => [](ModalsInv /\ QuestionsAnsweredOnce)
<1>1. M!Spec => []ModalsInv  BY ModalsInit, ModalsStep, PTL DEF M!Spec
<1> QED  BY <1>1, ModalsPromise, PTL

-----------------------------------------------------------------------------
(***************************************************************************)
(* Payment uses the modals as Modals says.                                 *)
(***************************************************************************)

\* The questions and modals of Payment are those of Modals.
LEMMA PaymentModals ==
    /\ \A f \in Flows : M!Second(f) \in M!Question /\ M!Key(f) \in M!Question
    /\ Progress \in M!Plain /\ Panel \in M!Plain
BY DEF M!Second, M!Key, M!Question, M!Plain, Progress, Panel

\* Every step of Payment is one of the modals, or leaves them alone.
LEMMA StepUsesModals == [Next]_vars => [M!Next]_(M!modals)
<1> SUFFICES ASSUME [Next]_vars PROVE [M!Next]_(M!modals)  OBVIOUS
<1>a. ASSUME M!closeModal \/ M!closeAllModals PROVE M!Next
  BY <1>a DEF M!Next, M!AppCloses
<1>b. ASSUME NEW m \in M!Plain, M!ShowPlain(m) PROVE M!Next
  BY <1>b DEF M!Next, M!AppShows
<1>1. CASE InPage
  <2>1. UNCHANGED modals
    BY <1>1 DEF InPage, SignerLoaded, Throws, AskForPrivateKey, TxSent, ImportExportLoaded,
                ImportFails, BackupFails, PageReplaced, PageStep
  <2> QED  BY <2>1 DEF modals, M!modals
<1>2. CASE Delivered
  <2>1. PICK f \in Flows :
            GetPassword(f) \/ (f \in Sends /\ (AskedForKey(f) \/ OnStart(f) \/ OnEnd(f)))
    BY <1>2 DEF Delivered
  <2>2. CASE GetPassword(f)
    <3>1. \E q \in M!Question : M!Ask(q)  BY <2>2, PaymentModals DEF GetPassword
    <3> QED  BY <3>1 DEF M!Next
  <2>3. CASE AskedForKey(f)  BY <2>3 DEF AskedForKey, modals, M!modals
  <2>4. CASE OnStart(f)  BY <2>4, <1>b, PaymentModals DEF OnStart
  <2>5. CASE OnEnd(f)  BY <2>5, <1>a DEF OnEnd
  <2> QED  BY <2>1, <2>2, <2>3, <2>4, <2>5
<1>3. CASE User
  <2>1. CASE \/ SendPaymentClicked \/ Confirmed \/ ScanKeyClicked \/ ReaderCloses
             \/ (\E i \in Sends : KeyAlertAnswered(i)) \/ LogoutClicked
    <3>1. UNCHANGED modals
      BY <2>1 DEF SendPaymentClicked, Confirmed, ScanKeyClicked, ReaderCloses,
                  KeyAlertAnswered, LogoutClicked
    <3> QED  BY <3>1 DEF modals, M!modals
  <2>2. CASE ShowPanel  BY <2>2, <1>b, PaymentModals DEF ShowPanel
  <2>3. CASE AtModal  BY <2>3 DEF AtModal, M!Next
  <2>4. CASE HandleOpenURL  BY <2>4, <1>a DEF HandleOpenURL
  <2>5. CASE LogoutConfirmed  BY <2>5, <1>b, PaymentModals DEF LogoutConfirmed
  <2> QED  BY <1>3, <2>1, <2>2, <2>3, <2>4, <2>5 DEF User
<1>4. CASE System
  <2>1. CASE ResignActive \/ BecomeActive \/ EnterForeground
    BY <2>1 DEF ResignActive, BecomeActive, EnterForeground, modals, M!modals
  <2>2. CASE EnterBackground  BY <2>2, <1>a DEF EnterBackground
  <2>3. CASE DidDecrypt  BY <2>3, <1>a DEF DidDecrypt
  <2> QED  BY <1>4, <2>1, <2>2, <2>3 DEF System
<1>5. CASE UNCHANGED vars  BY <1>5 DEF vars, modals, M!modals
<1> QED  BY <1>1, <1>2, <1>3, <1>4, <1>5 DEF Next

\* However the questions of sends and imports cover one another, each is answered
\* once, is on the screen while it is open and gets no other's text
\* (getSecondPassword:, getPrivateKeyPassword:, closeModal, closeAllModals).
THEOREM PaymentAnswersOnce == Spec => []QuestionsAnsweredOnce
<1>1. Init => M!Init  BY DEF Init
<1> QED  BY <1>1, StepUsesModals, ModalsAnswerOnce, PTL DEF Spec, M!Spec

-----------------------------------------------------------------------------
(***************************************************************************)
(* The page of Payment.                                                    *)
(***************************************************************************)

\* The calls of the page, and where a send or an import may be.
Calls == [ev : {"second", "key", "start", "askKey", "success", "error"}, by : Flows]
Places == Over \cup {"password", "signer"} \cup Started
Begun == {f \in Flows : flow[f] # "idle"}
Flowing ==
    /\ flow \in [Flows -> Places]
    /\ events \in Seq(Calls)
    /\ page \in {"open", "closing", "closed"}
    /\ IsFiniteSet(Begun)

\* The table holds what is signed, and that is one; a page that is being replaced
\* signs nothing.
Signed == {i \in Sends : flow[i] \in Started}
Table == page = "open" => pendingTransactions = Signed
Gone == page # "open" => pendingTransactions = {} /\ \A f \in Flows : flow[f] \in Over
Alone == \A i, j \in Sends : flow[i] \in Started /\ flow[j] \in Started => i = j

PayInv == Flowing /\ Table /\ Gone /\ Alone /\ QuestionNotLost

\* Sequences: what is in them after calls are added or the first is taken.
LEMMA InConcat ==
    ASSUME NEW S, NEW s \in Seq(S), NEW t \in Seq(S)
    PROVE  /\ s \o t \in Seq(S)
           /\ \A x : In(x, s) \/ In(x, t) => In(x, s \o t)
<1>1. /\ Len(s \o t) = Len(s) + Len(t) /\ s \o t \in Seq(S)
      /\ Len(s) \in Nat /\ Len(t) \in Nat
  OBVIOUS
<1>2. ASSUME NEW i \in 1..Len(s)
      PROVE  i \in 1..Len(s \o t) /\ (s \o t)[i] = s[i]
  BY <1>1
<1>3. ASSUME NEW i \in 1..Len(t)
      PROVE  Len(s) + i \in 1..Len(s \o t) /\ (s \o t)[Len(s) + i] = t[i]
  BY <1>1
<1> QED  BY <1>1, <1>2, <1>3 DEF In

LEMMA InOne == ASSUME NEW S, NEW x \in S PROVE <<x>> \in Seq(S) /\ In(x, <<x>>)
BY DEF In

LEMMA InAppend ==
    ASSUME NEW S, NEW s \in Seq(S), NEW e \in S
    PROVE  /\ Append(s, e) \in Seq(S)
           /\ \A x : In(x, s) \/ x = e => In(x, Append(s, e))
<1>1. Len(s) \in Nat  OBVIOUS
<1>2. \A i \in 1..Len(s) : i \in 1..Len(Append(s, e))  BY <1>1
<1>3. Len(s) + 1 \in 1..Len(Append(s, e))  BY <1>1
<1> QED  BY <1>2, <1>3, Pushed DEF In

LEMMA InTail ==
    ASSUME NEW S, NEW s \in Seq(S), s # <<>>
    PROVE  /\ Tail(s) \in Seq(S)
           /\ \A x : In(x, s) => x = Head(s) \/ In(x, Tail(s))
<1>1. /\ Tail(s) \in Seq(S) /\ Len(Tail(s)) = Len(s) - 1 /\ Len(s) \in Nat \ {0}
      /\ \A i \in 1..Len(Tail(s)) : Tail(s)[i] = s[i + 1]
  BY HeadTailProperties
<1>2. ASSUME NEW x, NEW i \in 1..Len(s), s[i] = x, x # Head(s)
      PROVE  In(x, Tail(s))
  <2>1. Head(s) = s[1]  OBVIOUS
  <2>2. i # 1  BY <2>1, <1>2
  <2>3. i - 1 \in 1..Len(Tail(s)) /\ (i - 1) + 1 = i  BY <1>1, <2>2
  <2>4. Tail(s)[i - 1] = x  BY <1>1, <1>2, <2>3
  <2> QED  BY <2>3, <2>4 DEF In
<1> QED  BY <1>1, <1>2 DEF In

\* A finite set as a sequence of its members.
LEMMA SetToSeqIs == ASSUME NEW S, IsFiniteSet(S) PROVE SetToSeq(S) \in Seq(S)
<1>1. Cardinality(S) \in Nat /\ ExistsBijection(1..Cardinality(S), S)
  BY FS_CardinalityType
<1>2. \E f \in [1..Cardinality(S) -> S] : IsInjective(f)
  BY <1>1 DEF ExistsBijection, Bijection, Injection
<1>3. SetToSeq(S) \in [1..Cardinality(S) -> S]  BY <1>2 DEF SetToSeq
<1> QED  BY <1>1, <1>3

\* Sends that fail leave the table, and their errors are added to the calls.
LEMMA FailFits ==
    ASSUME NEW S, IsFiniteSet(S), S \subseteq Flows, NEW rest \in Seq(Calls), Fail(S, rest)
    PROVE  /\ pendingTransactions' = pendingTransactions \ S
           /\ events' \in Seq(Calls)
           /\ \A x : In(x, rest) => In(x, events')
<1> DEFINE T == S \cap Sends
           E == {Event("error", i) : i \in T}
           g == [i \in T |-> Event("error", i)]
<1>1. IsFiniteSet(T)  BY FS_Subset
<1>2. g \in Bijection(T, E)
  BY DEF Bijection, Injection, Surjection, IsInjective, Event
<1>3. IsFiniteSet(E)
  <2>1. ExistsBijection(T, E)  BY <1>2 DEF ExistsBijection
  <2> HIDE DEF T, E
  <2> QED  BY <1>1, <2>1, FS_Bijection
<1>4. E \subseteq Calls  BY DEF Event, Calls
<1>5. SetToSeq(E) \in Seq(Calls)
  <2> HIDE DEF E
  <2>1. SetToSeq(E) \in Seq(E)  BY <1>3, SetToSeqIs
  <2> QED  BY <1>4, <2>1
<1>6. pendingTransactions' = pendingTransactions \ S /\ events' = rest \o SetToSeq(E)
  BY DEF Fail
<1> HIDE DEF E
<1> QED  BY <1>5, <1>6, InConcat

\* A flow that waits has its question open or on its way, before and after a step
\* that keeps what is open and what is called.
Asked(f) ==
    /\ flow[f] = "password" => answer[M!Second(f)] = "open" \/ In(Event("second", f), events)
    /\ flow[f] = "keyPassword" => answer[M!Key(f)] = "open" \/ In(Event("key", f), events)
LEMMA AskedIs == QuestionNotLost <=> \A f \in Flows : Asked(f)
BY DEF QuestionNotLost, Waits, Asked, In

\* A step that starts no flow, or one.
LEMMA BegunFits ==
    ASSUME IsFiniteSet(Begun), NEW f, \A g \in Flows : g # f /\ flow[g] = "idle" => flow'[g] = "idle"
    PROVE  IsFiniteSet(Begun')
<1>1. IsFiniteSet(Begun \cup {f})  BY FS_AddElement
<1>2. Begun' \in SUBSET (Begun \cup {f})  BY DEF Begun
<1> QED  BY <1>1, <1>2, FS_Subset

\* A step that leaves flows and table alone: the page is the same, or the next one.
LEMMA SameFits ==
    ASSUME PayInv, flow' = flow, pendingTransactions' = pendingTransactions,
           page' = page \/ (page = "closed" /\ page' = "open"),
           events' \in Seq(Calls), \A f \in Flows : Asked(f)'
    PROVE  PayInv'
<1>1. Flowing'  BY DEF PayInv, Flowing, Begun
<1>2. QuestionNotLost'  BY DEF QuestionNotLost, Waits, Asked, In
<1>3. Table' /\ Gone'
  <2>1. CASE page' = page  BY <2>1 DEF PayInv, Table, Gone, Signed
  <2>2. CASE page = "closed" /\ page' = "open"
    <3>1. pendingTransactions = {} /\ \A f \in Flows : flow[f] \in Over
      BY <2>2 DEF PayInv, Gone
    <3>2. Over \cap Started = {}  BY DEF Over, Started
    <3>3. Signed' = {}  BY <3>1, <3>2 DEF Signed, Flows
    <3> QED  BY <2>2, <3>1, <3>3 DEF Table, Gone
  <2> QED  BY <2>1, <2>2
<1>4. Alone'  BY DEF PayInv, Alone
<1> QED  BY <1>1, <1>2, <1>3, <1>4 DEF PayInv

\* A step of flow f in the open page: it is on the table while it is signed, and
\* gets there only when nothing else is.
LEMMA OneFlowFits ==
    ASSUME PayInv, page = "open", page' = page, NEW f \in Flows, NEW to \in Places, to # "idle",
           flow' = [flow EXCEPT ![f] = to],
           f \in Sends /\ to \in Started /\ flow[f] \notin Started => pendingTransactions = {},
           pendingTransactions' = IF f \in Sends /\ to \in Started
                                  THEN pendingTransactions \cup {f} ELSE pendingTransactions \ {f},
           answer' = answer, events' \in Seq(Calls), \A x : In(x, events) => In(x, events'),
           to = "password" => In(Event("second", f), events'),
           to = "keyPassword" => In(Event("key", f), events')
    PROVE  PayInv'
<1>1. /\ flow \in [Flows -> Places] /\ IsFiniteSet(Begun) /\ pendingTransactions = Signed
      /\ \A g \in Flows : Asked(g)
  BY AskedIs DEF PayInv, Flowing, Table
<1>2. /\ flow' \in [Flows -> Places] /\ flow'[f] = to
      /\ \A g \in Flows : g # f => flow'[g] = flow[g]
  BY <1>1
<1>3. IsFiniteSet(Begun')
  <2>1. \A g \in Flows : g # f /\ flow[g] = "idle" => flow'[g] = "idle"  BY <1>2
  <2> QED  BY <1>1, <2>1, BegunFits
<1>4. Flowing'  BY <1>2, <1>3 DEF Flowing, PayInv
<1>5. Sends \subseteq Flows  BY DEF Flows
<1>6. Signed' = pendingTransactions'
  <2>1. CASE f \in Sends /\ to \in Started  BY <2>1, <1>1, <1>2, <1>5 DEF Signed
  <2>2. CASE ~(f \in Sends /\ to \in Started)  BY <2>2, <1>1, <1>2, <1>5 DEF Signed
  <2> QED  BY <2>1, <2>2
<1>7. Table' /\ Gone'  BY <1>6 DEF Table, Gone
<1>8. Alone'
  <2>1. SUFFICES ASSUME NEW i \in Sends, NEW j \in Sends,
                        flow'[i] \in Started, flow'[j] \in Started
                 PROVE  i = j
    BY DEF Alone
  <2>2. i \in Signed \/ (i = f /\ Signed = {})  BY <2>1, <1>1, <1>2, <1>5 DEF Signed
  <2>3. j \in Signed \/ (j = f /\ Signed = {})  BY <2>1, <1>1, <1>2, <1>5 DEF Signed
  <2> QED  BY <2>2, <2>3 DEF PayInv, Alone, Signed
<1>9. \A g \in Flows : Asked(g)'  BY <1>1, <1>2 DEF Asked
<1>10. QuestionNotLost'  BY <1>9 DEF QuestionNotLost, Waits, Asked, In
<1> QED  BY <1>4, <1>7, <1>8, <1>10 DEF PayInv

\* A page that is left, or gone: nothing is on the table and no flow goes on.
LEMMA GoneFits ==
    ASSUME page' \in {"closing", "closed"}, pendingTransactions' = {},
           flow' \in [Flows -> Over], IsFiniteSet(Begun'), events' \in Seq(Calls)
    PROVE  PayInv'
<1>1. Over \subseteq Places /\ Over \cap Started = {} /\ {"password", "keyPassword"} \cap Over = {}
  BY DEF Over, Places, Started
<1>2. Flowing'  BY <1>1 DEF Flowing
<1>3. Table' /\ Gone'  BY DEF Table, Gone
<1>4. Alone'  BY <1>1 DEF Alone, Flows
<1>5. QuestionNotLost'  BY <1>1 DEF QuestionNotLost
<1> QED  BY <1>2, <1>3, <1>4, <1>5 DEF PayInv

\* The flows whose questions a step answers, and those it answers with an error.
Answered == {f \in Flows : Replied(f)[1] = "open" /\ Replied(f)[2] # "open"}
Refused == {f \in Answered : Replied(f)[2] = "error"}

\* Where the answer of a question takes its flow.
LEMMA ResumedFlow ==
    ASSUME NEW rest, PageResumes(rest)
    PROVE  /\ flow' \in [Flows -> {flow'[f] : f \in Flows}]
           /\ Fail(Refused, rest)
           /\ \A f \in Flows :
                \/ f \notin Answered /\ flow'[f] = flow[f]
                \/ f \in Refused /\ flow'[f] = "failed"
                \/ /\ f \in Answered \ Refused /\ flow[f] = "password"
                   /\ flow'[f] \in {"signer", "script", "done"}
                   /\ f \in Sends => flow'[f] = "signer"
                \/ /\ f \in Answered \ Refused /\ flow[f] # "password"
                   /\ flow'[f] = IF f \in Sends THEN "signing" ELSE "done"
<1>1. PICK bip38 \in BOOLEAN :
          flow' = [f \in Flows |->
              IF f \notin Answered THEN flow[f]
              ELSE IF f \in Refused THEN "failed"
              ELSE IF flow[f] = "password" THEN AfterPassword(f, bip38)
              ELSE AfterKeyPassword(f)]
  BY DEF PageResumes, Answered, Refused
<1>2. Fail(Refused, rest)  BY DEF PageResumes, Answered, Refused
<1> QED  BY <1>1, <1>2 DEF AfterPassword, AfterKeyPassword, Refused

\* Only flows that wait are answered; the others keep their open questions.
LEMMA AnsweredWait ==
    /\ \A f \in Answered : flow[f] \in {"password", "keyPassword"}
    /\ \A f \in Flows : f \notin Answered =>
         /\ flow[f] = "password" /\ answer[M!Second(f)] = "open" => answer'[M!Second(f)] = "open"
         /\ flow[f] = "keyPassword" /\ answer[M!Key(f)] = "open" => answer'[M!Key(f)] = "open"
BY DEF Answered, Replied

\* A step that answers questions, after the calls of rest: each question that is
\* on its way is still there, or was asked in the step.
LEMMA ResumesFits ==
    ASSUME PayInv, page' = page, NEW rest \in Seq(Calls), PageResumes(rest),
           \A f \in Flows :
             /\ In(Event("second", f), events) =>
                  In(Event("second", f), rest) \/ answer'[M!Second(f)] = "open"
             /\ In(Event("key", f), events) =>
                  In(Event("key", f), rest) \/ answer'[M!Key(f)] = "open"
    PROVE  PayInv'
<1>1. /\ flow \in [Flows -> Places] /\ IsFiniteSet(Begun)
      /\ \A f \in Flows : Asked(f)
  BY AskedIs DEF PayInv, Flowing
<1>2. Refused \in SUBSET Begun
  BY AnsweredWait DEF Refused, Begun, Answered
<1>3. IsFiniteSet(Refused) /\ Refused \subseteq Flows
  BY <1>1, <1>2, FS_Subset DEF Begun
<1>4. /\ pendingTransactions' = pendingTransactions \ Refused
      /\ events' \in Seq(Calls) /\ \A x : In(x, rest) => In(x, events')
  BY <1>3, ResumedFlow, FailFits
<1>5. \A f \in Flows :
        \/ f \notin Answered /\ flow'[f] = flow[f]
        \/ f \in Refused /\ flow'[f] = "failed" /\ flow[f] \in {"password", "keyPassword"}
        \/ /\ f \in Answered \ Refused /\ flow[f] = "password"
           /\ flow'[f] \in {"signer", "script", "done"} /\ (f \in Sends => flow'[f] = "signer")
        \/ /\ f \in Answered \ Refused /\ flow[f] = "keyPassword"
           /\ flow'[f] = IF f \in Sends THEN "signing" ELSE "done"
  BY ResumedFlow, AnsweredWait DEF Refused
<1>6. flow' \in [Flows -> Places]
  <2>1. flow' \in [Flows -> {flow'[f] : f \in Flows}]  BY ResumedFlow
  <2>2. \A f \in Flows : flow'[f] \in Places
    BY <1>1, <1>5 DEF Places, Over, Started
  <2> QED  BY <2>1, <2>2
<1>7. IsFiniteSet(Begun')
  <2>1. \A g \in Flows : flow[g] = "idle" => flow'[g] = "idle"  BY <1>5
  <2> QED  BY <1>1, <2>1, BegunFits
<1>8. Flowing'  BY <1>4, <1>6, <1>7 DEF Flowing, PayInv
<1>9. Sends \subseteq Flows  BY DEF Flows
<1>10. Refused \cap Answered = Refused  BY DEF Refused
<1>11. \A i \in Sends : flow'[i] \in Started <=> flow[i] \in Started /\ i \notin Refused
  BY <1>5, <1>9, <1>10 DEF Started
<1>12. Table' /\ Gone'
  <2>1. CASE page = "open"  BY <2>1, <1>4, <1>11 DEF PayInv, Table, Gone, Signed
  <2>2. CASE page # "open"
    <3>1. pendingTransactions = {} /\ \A f \in Flows : flow[f] \in Over
      BY <2>2 DEF PayInv, Gone
    <3>2. {"password", "keyPassword"} \cap Over = {}  BY DEF Over
    <3>3. \A f \in Flows : flow'[f] \in Over  BY <1>5, <3>1, <3>2
    <3> QED  BY <2>2, <1>4, <3>1, <3>3 DEF Table, Gone
  <2> QED  BY <2>1, <2>2
<1>13. Alone'  BY <1>11 DEF PayInv, Alone
<1>14. \A f \in Flows : Asked(f)'
  <2>1. SUFFICES ASSUME NEW f \in Flows, flow'[f] \in {"password", "keyPassword"}
                 PROVE  Asked(f)'
    BY DEF Asked
  <2>2. f \notin Answered /\ flow'[f] = flow[f]  BY <2>1, <1>5
  <2> QED  BY <2>1, <2>2, <1>1, <1>4, AnsweredWait DEF Asked
<1>15. QuestionNotLost'  BY <1>14 DEF QuestionNotLost, Waits, Asked, In
<1> QED  BY <1>8, <1>12, <1>13, <1>15 DEF PayInv

-----------------------------------------------------------------------------
(***************************************************************************)
(* The steps of Payment.                                                   *)
(***************************************************************************)

\* What every step may start from: the table holds sends, questions are kept.
LEMMA PayFacts ==
    ASSUME PayInv
    PROVE  /\ flow \in [Flows -> Places] /\ events \in Seq(Calls) /\ IsFiniteSet(Begun)
           /\ \A f \in Flows : Asked(f)
           /\ pendingTransactions \subseteq Sends /\ Sends \subseteq Flows
           /\ \A i \in pendingTransactions : flow[i] \in Started
           /\ page = "open" => \A i \in Sends : flow[i] \in Started => i \in pendingTransactions
           /\ page # "open" => pendingTransactions = {} /\ \A f \in Flows : flow[f] \in Over
           /\ IsFiniteSet(pendingTransactions)
<1>1. /\ flow \in [Flows -> Places] /\ events \in Seq(Calls) /\ IsFiniteSet(Begun)
      /\ page = "open" \/ page # "open"
  BY DEF PayInv, Flowing
<1>2. \A f \in Flows : Asked(f)  BY AskedIs DEF PayInv
<1>3. page = "open" => pendingTransactions = Signed  BY DEF PayInv, Table
<1>4. page # "open" => pendingTransactions = {} /\ \A f \in Flows : flow[f] \in Over
  BY DEF PayInv, Gone
<1>5. Sends \subseteq Flows  BY DEF Flows
<1>6. pendingTransactions \in SUBSET Begun
  BY <1>3, <1>4, <1>5 DEF Signed, Begun, Started
<1>7. IsFiniteSet(pendingTransactions)  BY <1>1, <1>6, FS_Subset
<1> QED  BY <1>1, <1>2, <1>3, <1>4, <1>5, <1>7 DEF Signed

\* A step of the page with one call or none.
LEMMA PageStepFits ==
    ASSUME PayInv, NEW f \in Flows, NEW from, NEW to \in Places \ {"idle", "password"},
           NEW calls \in Seq(Calls), PageStep(f, from, to, calls),
           f \in Sends /\ to \in Started /\ from \notin Started => pendingTransactions = {},
           pendingTransactions' = IF f \in Sends /\ to \in Started
                                  THEN pendingTransactions \cup {f} ELSE pendingTransactions \ {f},
           to = "keyPassword" => In(Event("key", f), calls)
    PROVE  PayInv'
<1>1. /\ page = "open" /\ flow[f] = from /\ flow' = [flow EXCEPT ![f] = to]
      /\ events' = events \o calls /\ page' = page /\ answer' = answer
  BY DEF PageStep, modals
<1>2. events' \in Seq(Calls) /\ \A x : In(x, events) \/ In(x, calls) => In(x, events')
  BY <1>1, PayFacts, InConcat
<1> QED  BY <1>1, <1>2, OneFlowFits

\* Calls are what the page makes.
LEMMA CallsIn ==
    \A f \in Flows, ev \in {"second", "key", "start", "askKey", "success", "error"} :
        Event(ev, f) \in Calls /\ <<Event(ev, f)>> \in Seq(Calls) /\ In(Event(ev, f), <<Event(ev, f)>>)
<1>1. \A f \in Flows, ev \in {"second", "key", "start", "askKey", "success", "error"} :
          Event(ev, f) \in Calls
  BY DEF Event, Calls
<1> QED  BY <1>1, InOne

\* The page: scripts load, keys are asked for, transactions end, the page goes.
LEMMA InPageFits == PayInv /\ InPage => PayInv'
<1> SUFFICES ASSUME PayInv, InPage PROVE PayInv'  OBVIOUS
<1>a. <<>> \in Seq(Calls)  OBVIOUS
<1>1. ASSUME NEW i \in Sends, SignerLoaded(i) PROVE PayInv'
  <2>1. PageStep(i, "signer", "signing", <<Event("start", i)>>)  BY <1>1 DEF SignerLoaded
  <2>2. pendingTransactions = {} /\ pendingTransactions' = pendingTransactions \cup {i}
    BY <1>1 DEF SignerLoaded, Free
  <2>3. "signing" \in (Places \ {"idle", "password"}) \cap Started  BY DEF Places, Started
  <2>4. i \in Flows /\ <<Event("start", i)>> \in Seq(Calls)  BY PayFacts, CallsIn
  <2> QED  BY <2>1, <2>2, <2>3, <2>4, PageStepFits
<1>2. ASSUME NEW i \in Sends, Throws(i) PROVE PayInv'
  <2>1. PICK from \in {"signer", "signing", "script"} :
            PageStep(i, from, "failed", <<Event("error", i)>>)
    BY <1>2 DEF Throws
  <2>2. pendingTransactions' = pendingTransactions \ {i}  BY <1>2 DEF Throws
  <2>3. "failed" \in (Places \ {"idle", "password"}) \ Started  BY DEF Places, Over, Started
  <2>4. i \in Flows /\ <<Event("error", i)>> \in Seq(Calls)  BY PayFacts, CallsIn
  <2> QED  BY <2>1, <2>2, <2>3, <2>4, PageStepFits
<1>3. ASSUME NEW i \in Sends, AskForPrivateKey(i) PROVE PayInv'
  <2>1. PageStep(i, "signing", "needKey", <<Event("askKey", i)>>) /\ pendingTransactions' = pendingTransactions
    BY <1>3 DEF AskForPrivateKey
  <2>2. {"signing", "needKey"} \subseteq (Places \ {"idle", "password"}) \cap Started
    BY DEF Places, Started
  <2>3. i \in Flows /\ <<Event("askKey", i)>> \in Seq(Calls)  BY PayFacts, CallsIn
  <2>4. i \in pendingTransactions  BY <2>1, <2>2, PayFacts DEF PageStep
  <2> QED  BY <2>1, <2>2, <2>3, <2>4, PageStepFits
<1>4. ASSUME NEW i \in Sends, TxSent(i) PROVE PayInv'
  <2>1. PageStep(i, "signing", "sent", <<Event("success", i)>>)  BY <1>4 DEF TxSent
  <2>2. pendingTransactions' = pendingTransactions \ {i}  BY <1>4 DEF TxSent
  <2>3. "sent" \in (Places \ {"idle", "password"}) \ Started  BY DEF Places, Over, Started
  <2>4. i \in Flows /\ <<Event("success", i)>> \in Seq(Calls)  BY PayFacts, CallsIn
  <2> QED  BY <2>1, <2>2, <2>3, <2>4, PageStepFits
<1>5. ASSUME NEW f \in Flows, ImportExportLoaded(f) PROVE PayInv'
  <2>1. PageStep(f, "script", "keyPassword", <<Event("key", f)>>) /\ pendingTransactions' = pendingTransactions
    BY <1>5 DEF ImportExportLoaded
  <2>2. "keyPassword" \in (Places \ {"idle", "password"}) \cap Started /\ "script" \in Started
    BY DEF Places, Started
  <2>3. <<Event("key", f)>> \in Seq(Calls) /\ In(Event("key", f), <<Event("key", f)>>)  BY CallsIn
  <2>4. IF f \in Sends THEN f \in pendingTransactions ELSE f \notin pendingTransactions
    BY <2>1, <2>2, PayFacts DEF PageStep
  <2>5. pendingTransactions' = IF f \in Sends /\ "keyPassword" \in Started
                               THEN pendingTransactions \cup {f} ELSE pendingTransactions \ {f}
    BY <2>1, <2>2, <2>4
  <2> QED  BY <2>1, <2>2, <2>3, <2>5, PageStepFits
<1>6. ASSUME NEW f \in Flows, ImportFails(f) PROVE PayInv'
  <2>1. PageStep(f, "script", "failed", <<>>) /\ pendingTransactions' = pendingTransactions
    BY <1>6 DEF ImportFails
  <2>2. "failed" \in (Places \ {"idle", "password"}) \ Started  BY DEF Places, Over, Started
  <2>3. f \notin pendingTransactions  BY <1>6, PayFacts, PaymentAssumption DEF ImportFails
  <2>4. pendingTransactions' = pendingTransactions \ {f}  BY <2>1, <2>3
  <2> QED  BY <1>a, <2>1, <2>2, <2>4, PageStepFits
<1>7. CASE BackupFails
  <2>1. /\ page = "open" /\ page' = page /\ answer' = answer
        /\ flow' = [f \in Flows |-> IF f \in pendingTransactions THEN "failed" ELSE flow[f]]
        /\ Fail(pendingTransactions, events)
    BY <1>7 DEF BackupFails, Cancelled, modals
  <2>2. pendingTransactions \subseteq Flows /\ IsFiniteSet(pendingTransactions)  BY PayFacts
  <2>3. /\ pendingTransactions' = pendingTransactions \ pendingTransactions
        /\ events' \in Seq(Calls) /\ \A x : In(x, events) => In(x, events')
    BY <2>1, <2>2, PayFacts, FailFits
  <2>4. "failed" \in Places \ Started /\ "failed" \notin {"password", "keyPassword", "idle"}
    BY DEF Places, Over, Started
  <2>5. flow' \in [Flows -> Places]  BY <2>1, <2>4, PayFacts
  <2>6. \A i \in Sends : flow'[i] \notin Started  BY <2>1, <2>4, PayFacts
  <2>7. Table' /\ Gone' /\ Alone'  BY <2>1, <2>3, <2>6 DEF Table, Gone, Alone, Signed
  <2>8. IsFiniteSet(Begun')
    <3>1. \A g \in Flows : flow[g] = "idle" => flow'[g] = "idle"
      BY <2>1, PayFacts DEF Started
    <3> QED  BY <3>1, PayFacts, BegunFits
  <2>9. \A f \in Flows : Asked(f)'
    BY <2>1, <2>3, <2>4, PayFacts DEF Asked
  <2>10. QuestionNotLost'  BY <2>9 DEF QuestionNotLost, Waits, Asked, In
  <2> QED  BY <2>1, <2>3, <2>5, <2>7, <2>8, <2>10 DEF PayInv, Flowing
<1>8. CASE PageReplaced
  <2>1. /\ page = "closing" /\ page' = "closed" /\ pendingTransactions' = {} /\ events' = <<>>
        /\ flow' = [f \in Flows |->
             IF \E n \in 1..Len(events) : events[n].by = f THEN "lost" ELSE flow[f]]
    BY <1>8 DEF PageReplaced
  <2>2. \A f \in Flows : flow[f] \in Over  BY <2>1, PayFacts
  <2>3. flow' \in [Flows -> Over]  BY <2>1, <2>2 DEF Over
  <2>4. IsFiniteSet(Begun')
    <3> DEFINE N == 1..Len(events)
               B == {events[n].by : n \in N}
               g == [n \in N |-> events[n].by]
    <3>1. IsFiniteSet(N)
      <4>1. 1 \in Int /\ Len(events) \in Int  BY PayFacts
      <4> QED  BY <4>1, FS_Interval
    <3>2. g \in Surjection(N, B)  BY DEF Surjection
    <3>3. IsFiniteSet(B)
      <4> HIDE DEF N, B
      <4> QED  BY <3>1, <3>2, FS_Surjection
    <3>4. IsFiniteSet(Begun \cup B)  BY <3>3, PayFacts, FS_Union
    <3>5. Begun' \in SUBSET (Begun \cup B)  BY <2>1 DEF Begun
    <3> QED  BY <3>4, <3>5, FS_Subset
  <2> QED  BY <1>a, <2>1, <2>3, <2>4, GoneFits
<1> QED  BY <1>1, <1>2, <1>3, <1>4, <1>5, <1>6, <1>7, <1>8 DEF InPage

\* The call that reaches native code is the first one; the others wait.
LEMMA CalledFits ==
    ASSUME PayInv, NEW ev, NEW f \in Flows, Called(ev, f)
    PROVE  /\ Tail(events) \in Seq(Calls)
           /\ \A x : In(x, events) => x = Event(ev, f) \/ In(x, Tail(events))
BY PayFacts, InTail DEF Called

\* Calls tell their kind and their flow.
LEMMA EventsDiffer ==
    \A ev1, f1, ev2, f2 : Event(ev1, f1) = Event(ev2, f2) => ev1 = ev2 /\ f1 = f2
BY DEF Event

\* Native code takes the next call: a question of it is asked.
LEMMA DeliveredFits == PayInv /\ Delivered => PayInv'
<1> SUFFICES ASSUME PayInv, Delivered PROVE PayInv'  OBVIOUS
<1>1. PICK f \in Flows :
          GetPassword(f) \/ (f \in Sends /\ (AskedForKey(f) \/ OnStart(f) \/ OnEnd(f)))
  BY DEF Delivered
<1>2. CASE GetPassword(f)
  <2>1. PageResumes(Tail(events)) /\ page' = page  BY <1>2 DEF GetPassword
  <2>2. ASSUME NEW q \in M!Question, M!Ask(q) PROVE answer'[q] = "open"
    BY <2>2 DEF M!Ask
  <2>3. CASE Called("second", f) /\ M!Ask(M!Second(f))
    <3>1. answer'[M!Second(f)] = "open"  BY <2>2, <2>3, PaymentModals
    <3>2. \A x : In(x, events) => x = Event("second", f) \/ In(x, Tail(events))
      BY <2>3, CalledFits
    <3>3. Tail(events) \in Seq(Calls)  BY <2>3, CalledFits
    <3> QED  BY <2>1, <3>1, <3>2, <3>3, EventsDiffer, ResumesFits
  <2>4. CASE Called("key", f) /\ M!Ask(M!Key(f))
    <3>1. answer'[M!Key(f)] = "open"  BY <2>2, <2>4, PaymentModals
    <3>2. \A x : In(x, events) => x = Event("key", f) \/ In(x, Tail(events))
      BY <2>4, CalledFits
    <3>3. Tail(events) \in Seq(Calls)  BY <2>4, CalledFits
    <3> QED  BY <2>1, <3>1, <3>2, <3>3, EventsDiffer, ResumesFits
  <2> QED  BY <1>2, <2>3, <2>4 DEF GetPassword
<1>3. CASE AskedForKey(f)
  <2>1. /\ Called("askKey", f) /\ events' = Tail(events) /\ flow' = flow /\ page' = page
        /\ pendingTransactions' = pendingTransactions /\ answer' = answer
    BY <1>3 DEF AskedForKey, modals
  <2>2. \A x : In(x, events) => x = Event("askKey", f) \/ In(x, events')
    BY <2>1, CalledFits
  <2>3. events' \in Seq(Calls)  BY <2>1, CalledFits
  <2>4. \A g \in Flows : Asked(g)'  BY <2>1, <2>2, PayFacts, EventsDiffer DEF Asked
  <2> QED  BY <2>1, <2>3, <2>4, SameFits
<1>4. CASE OnStart(f) \/ OnEnd(f)
  <2>1. PageResumes(Tail(events)) /\ page' = page
    BY <1>4 DEF OnStart, OnEnd
  <2>2. PICK ev \in {"start", "success", "error"} : Called(ev, f)
    BY <1>4 DEF OnStart, OnEnd
  <2>3. \A x : In(x, events) => x = Event(ev, f) \/ In(x, Tail(events))
    BY <2>2, CalledFits
  <2>4. Tail(events) \in Seq(Calls)  BY <2>2, CalledFits
  <2> QED  BY <2>1, <2>3, <2>4, EventsDiffer, ResumesFits
<1> QED  BY <1>1, <1>2, <1>3, <1>4

\* A flow that is started goes to its password's question, or past it.
LEMMA StartFits ==
    ASSUME PayInv, NEW f \in Flows, Startable(f), Ask2(f),
           pendingTransactions' = pendingTransactions, page' = page, answer' = answer
    PROVE  PayInv'
<1>1. page = "open" /\ flow[f] = "idle"  BY DEF Startable
<1>2. f \notin pendingTransactions  BY <1>1, PayFacts DEF Started
<1>3. pendingTransactions' = pendingTransactions \ {f}  BY <1>2
<1>4. CASE /\ flow' = [flow EXCEPT ![f] = "password"]
           /\ events' = Append(events, Event("second", f))
  <2>1. "password" \in Places \ Started  BY DEF Places, Started
  <2>2. /\ events' \in Seq(Calls)
        /\ \A x : In(x, events) \/ x = Event("second", f) => In(x, events')
    BY <1>4, CallsIn, PayFacts, InAppend
  <2> QED  BY <1>1, <1>3, <1>4, <2>1, <2>2, OneFlowFits
<1>5. ASSUME NEW bip38 \in BOOLEAN, flow' = [flow EXCEPT ![f] = AfterPassword(f, bip38)],
             events' = events
      PROVE  PayInv'
  <2> DEFINE to == AfterPassword(f, bip38)
  <2>1. /\ to \in Places \ {"idle", "password", "keyPassword"}
        /\ f \in Sends => to \notin Started
    BY DEF AfterPassword, Places, Over, Started
  <2>2. flow' = [flow EXCEPT ![f] = to]  BY <1>5
  <2> HIDE DEF to
  <2>3. events' \in Seq(Calls) /\ \A x : In(x, events) => In(x, events')  BY <1>5, PayFacts
  <2> QED  BY <1>1, <1>3, <2>1, <2>2, <2>3, OneFlowFits
<1> QED  BY <1>4, <1>5 DEF Ask2

\* A send that waits for the key's reader goes on, or fails.
LEMMA NeededKeyFits ==
    ASSUME PayInv, NEW i \in Sends, flow[i] = "needKey", page' = page, answer' = answer,
           \/ flow' = [flow EXCEPT ![i] = "failed"] /\ Fail({i}, events)
           \/ /\ \E to \in {"signing", "script"} : flow' = [flow EXCEPT ![i] = to]
              /\ UNCHANGED <<pendingTransactions, events>>
    PROVE  PayInv'
<1>1. page = "open" /\ i \in Flows /\ i \in pendingTransactions
  BY PayFacts DEF Over, Started
<1>2. CASE flow' = [flow EXCEPT ![i] = "failed"] /\ Fail({i}, events)
  <2>1. "failed" \in Places \ Started  BY DEF Places, Over, Started
  <2>2. IsFiniteSet({i}) /\ {i} \subseteq Flows  BY <1>1, FS_Singleton
  <2>3. /\ pendingTransactions' = pendingTransactions \ {i}
        /\ events' \in Seq(Calls) /\ \A x : In(x, events) => In(x, events')
    BY <1>2, <2>2, PayFacts, FailFits
  <2> QED  BY <1>1, <1>2, <2>1, <2>3, OneFlowFits
<1>3. ASSUME NEW to \in {"signing", "script"}, flow' = [flow EXCEPT ![i] = to],
             UNCHANGED <<pendingTransactions, events>>
      PROVE  PayInv'
  <2>1. to \in Places \cap Started /\ to \notin {"idle", "password", "keyPassword"} /\ flow[i] \in Started
    BY DEF Places, Started
  <2>2. pendingTransactions' = pendingTransactions \cup {i}  BY <1>1, <1>3
  <2>3. events' \in Seq(Calls) /\ \A x : In(x, events) => In(x, events')  BY <1>3, PayFacts
  <2> QED  BY <1>1, <1>3, <2>1, <2>2, <2>3, OneFlowFits
<1> QED  BY <1>2, <1>3

\* Steps that leave the page alone.
LEMMA QuietFits ==
    ASSUME PayInv, flow' = flow, pendingTransactions' = pendingTransactions, events' = events,
           page' = page, \A q \in M!Question : answer'[q] = answer[q]
    PROVE  PayInv'
<1>1. \A f \in Flows : Asked(f)'  BY PayFacts, PaymentModals DEF Asked
<1> QED  BY <1>1, PayFacts, SameFits

\* The page is left by a logout: what is on the table fails, the rest is lost.
LEMMA LogoutFits == ASSUME PayInv, page = "open", logout PROVE PayInv'
<1>1. /\ page' = "closing"
      /\ flow' = [f \in Flows |-> IF flow[f] \in Over THEN flow[f] ELSE "lost"]
      /\ Fail(pendingTransactions, events)
  BY DEF logout
<1>2. pendingTransactions \subseteq Flows  BY PayFacts
<1>3. pendingTransactions' = {} /\ events' \in Seq(Calls)
  BY <1>1, <1>2, PayFacts, FailFits
<1>4. flow' \in [Flows -> Over]  BY <1>1 DEF Over
<1>5. \A g \in Flows : flow[g] = "idle" => flow'[g] = "idle"  BY <1>1 DEF Over
<1>6. IsFiniteSet(Begun')  BY <1>5, PayFacts, BegunFits
<1> QED  BY <1>1, <1>3, <1>4, <1>6, GoneFits

\* The user, at the send form, the alerts, the reader and the modals.
LEMMA UserFits == PayInv /\ User => PayInv'
<1> SUFFICES ASSUME PayInv, User PROVE PayInv'  OBVIOUS
<1>1. CASE SendPaymentClicked \/ ScanKeyClicked \/ LogoutClicked
  BY <1>1, QuietFits DEF SendPaymentClicked, ScanKeyClicked, LogoutClicked, modals, thePage
<1>2. CASE Confirmed
  <2>1. page' = page /\ answer' = answer  BY <1>2 DEF Confirmed, modals
  <2>2. CASE UNCHANGED thePage  BY <2>1, <2>2, QuietFits DEF thePage
  <2>3. ASSUME NEW i \in Sends, Startable(i), Ask2(i), UNCHANGED pendingTransactions
        PROVE  PayInv'
    <3>1. i \in Flows  BY PayFacts
    <3> QED  BY <2>1, <2>3, <3>1, StartFits
  <2> QED  BY <1>2, <2>2, <2>3 DEF Confirmed
<1>3. CASE ReaderCloses
  <2>1. page' = page /\ answer' = answer  BY <1>3 DEF ReaderCloses, modals
  <2>2. CASE UNCHANGED thePage  BY <2>1, <2>2, QuietFits DEF thePage
  <2>3. ASSUME NEW f \in Imports, Startable(f), Ask2(f), UNCHANGED pendingTransactions
        PROVE  PayInv'
    <3>1. f \in Flows  BY DEF Flows
    <3> QED  BY <2>1, <2>3, <3>1, StartFits
  <2>4. ASSUME reader \in Sends, flow[reader] = "needKey",
               \/ flow' = [flow EXCEPT ![reader] = "failed"] /\ Fail({reader}, events)
               \/ /\ \E to \in {"signing", "script"} : flow' = [flow EXCEPT ![reader] = to]
                  /\ UNCHANGED <<pendingTransactions, events>>
        PROVE  PayInv'
    BY <2>1, <2>4, NeededKeyFits
  <2> QED  BY <1>3, <2>2, <2>3, <2>4 DEF ReaderCloses
<1>4. ASSUME NEW i \in Sends, KeyAlertAnswered(i) PROVE PayInv'
  <2>1. page' = page /\ answer' = answer  BY <1>4 DEF KeyAlertAnswered, modals
  <2>2. CASE UNCHANGED thePage  BY <2>1, <2>2, QuietFits DEF thePage
  <2>3. CASE /\ flow' = [flow EXCEPT ![i] = IF @ = "needKey" THEN "failed" ELSE @]
             /\ Fail({i} \cap {j \in Sends : flow[j] = "needKey"}, events)
    <3>1. CASE flow[i] = "needKey"
      <4>1. {i} \cap {j \in Sends : flow[j] = "needKey"} = {i}  BY <3>1
      <4>2. flow' = [flow EXCEPT ![i] = "failed"]  BY <2>3, <3>1
      <4> QED  BY <2>1, <2>3, <3>1, <4>1, <4>2, NeededKeyFits
    <3>2. CASE flow[i] # "needKey"
      <4>1. {i} \cap {j \in Sends : flow[j] = "needKey"} = {}  BY <3>2
      <4>2. flow' = flow  BY <2>3, <3>2, PayFacts
      <4>3. IsFiniteSet({})  BY FS_EmptySet
      <4>4. /\ pendingTransactions' = pendingTransactions \ {}
            /\ events' \in Seq(Calls) /\ \A x : In(x, events) => In(x, events')
        BY <2>3, <4>1, <4>3, PayFacts, FailFits
      <4>5. \A f \in Flows : Asked(f)'  BY <2>1, <4>2, <4>4, PayFacts DEF Asked
      <4> QED  BY <2>1, <4>2, <4>4, <4>5, SameFits
    <3> QED  BY <3>1, <3>2
  <2> QED  BY <1>4, <2>2, <2>3 DEF KeyAlertAnswered
<1>5. CASE ShowPanel
  <2>1. modalView = M!NoModal /\ M!Told(M!Replaced) /\ page' = page /\ UNCHANGED thePage
    BY <1>5 DEF ShowPanel, Home, M!ShowPlain
  <2>2. M!Replaced = <<>>  BY <2>1, Kinds DEF M!Replaced
  <2>3. \A q \in M!Question : answer'[q] = answer[q]  BY <2>1, <2>2 DEF M!Told
  <2> QED  BY <2>1, <2>3, QuietFits DEF thePage
<1>6. CASE AtModal \/ HandleOpenURL
  <2>1. PageResumes(events) /\ page' = page  BY <1>6 DEF AtModal, HandleOpenURL
  <2> QED  BY <2>1, PayFacts, ResumesFits
<1>7. CASE LogoutConfirmed  BY <1>7, LogoutFits DEF LogoutConfirmed
<1> QED  BY <1>1, <1>2, <1>3, <1>4, <1>5, <1>6, <1>7 DEF User

\* The system: the app leaves the screen and comes back, the next page is loaded.
LEMMA SystemFits == PayInv /\ System => PayInv'
<1> SUFFICES ASSUME PayInv, System PROVE PayInv'  OBVIOUS
<1>1. CASE ResignActive \/ BecomeActive \/ EnterForeground
  BY <1>1, QuietFits DEF ResignActive, BecomeActive, EnterForeground, modals, thePage
<1>2. ASSUME page # "open", UNCHANGED thePage,
             page' = page \/ (page = "closed" /\ page' = "open")
      PROVE  PayInv'
  <2>1. \A f \in Flows : flow'[f] \in Over  BY <1>2, PayFacts DEF thePage
  <2>2. \A f \in Flows : Asked(f)'  BY <2>1 DEF Asked, Over
  <2> QED  BY <1>2, <2>2, PayFacts, SameFits DEF thePage
<1>3. CASE EnterBackground  BY <1>3, <1>2, LogoutFits DEF EnterBackground
<1>4. CASE DidDecrypt  BY <1>4, <1>2 DEF DidDecrypt
<1> QED  BY <1>1, <1>3, <1>4 DEF System

\* Initially nothing is started.
LEMMA PayInit == Init => PayInv
<1> SUFFICES ASSUME Init PROVE PayInv  OBVIOUS
<1>1. /\ flow = [f \in Flows |-> "idle"] /\ pendingTransactions = {} /\ events = <<>>
      /\ page = "open"
  BY DEF Init
<1>2. "idle" \in Places /\ "idle" \notin Started  BY DEF Places, Over, Started
<1>3. Begun = {} /\ Signed = {}  BY <1>1, <1>2 DEF Begun, Signed, Flows
<1>4. Flowing  BY <1>1, <1>2, <1>3, FS_EmptySet DEF Flowing
<1>5. Table /\ Gone  BY <1>1, <1>3 DEF Table, Gone
<1>6. Alone  BY <1>1, <1>2 DEF Alone, Flows
<1>7. QuestionNotLost  BY <1>1 DEF QuestionNotLost
<1> QED  BY <1>4, <1>5, <1>6, <1>7 DEF PayInv

\* Every step of Payment keeps the invariant.
LEMMA PayStep == PayInv /\ [Next]_vars => PayInv'
<1> SUFFICES ASSUME PayInv, [Next]_vars PROVE PayInv'  OBVIOUS
<1>1. CASE UNCHANGED vars  BY <1>1, QuietFits DEF vars, modals, thePage
<1> QED  BY <1>1, InPageFits, DeliveredFits, UserFits, SystemFits DEF Next

\* The send under way is at most one: a set of at most one is empty or one.
LEMMA AloneIsOne == PayInv => OneAtATime
<1> SUFFICES ASSUME PayInv PROVE OneAtATime  OBVIOUS
<1>1. Cardinality(Signed) <= 1
  <2>1. CASE Signed = {}  BY <2>1, FS_EmptySet
  <2>2. ASSUME NEW i \in Signed PROVE Cardinality(Signed) <= 1
    <3>1. Signed = {i}  BY <2>2 DEF PayInv, Alone, Signed
    <3> QED  BY <3>1, FS_Singleton
  <2> QED  BY <2>1, <2>2
<1>2. page = "open" => pendingTransactions = Signed  BY DEF PayInv, Table
<1> QED  BY <1>1, <1>2 DEF OneAtATime, Signed

\* One transaction is signed at a time and the table holds just that, however
\* sends, errors, a failed backup, answers and logouts follow one another
\* (quickSend, listener.on_error, cancelTxSigning).
THEOREM OneTransaction == Spec => []OneAtATime
BY PayInit, PayStep, AloneIsOne, PTL DEF Spec

\* No step loses the question of a flow that waits for a password
\* (getPassword:success:error:, closeModal, tx_on_start: and the others).
THEOREM QuestionsKept == Spec => []QuestionNotLost
<1>1. PayInv => QuestionNotLost  BY DEF PayInv
<1> QED  BY <1>1, PayInit, PayStep, PTL DEF Spec
=============================================================================
