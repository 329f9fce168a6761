--------------------------- MODULE JSBridgeProofs ---------------------------
(***************************************************************************)
(* Proofs about JSBridge, for every value of its constants.                *)
(***************************************************************************)
EXTENDS MCJSBridge, FiniteSetTheorems, TLAPS

\* The empty sequence is one of any set.
LEMMA EmptySequence == ASSUME NEW S PROVE <<>> \in Seq(S)
OBVIOUS

\* Evaluating commands appends one entry for each, with the document's page.
LEMMA EvaluatedType ==
    ASSUME TypeOK, NEW cmds \in Seq(Command)
    PROVE  Evaluated(cmds) \in Seq(Ran)
<1> DEFINE tail == [i \in 1..Len(cmds) |->
                [cmd |-> cmds[i].cmd, for |-> cmds[i].for, kind |-> cmds[i].kind,
                 page |-> doc.n, shown |-> doc.kind]]
<1>1. tail \in Seq(Ran)
  <2>1. \A i \in 1..Len(cmds) : cmds[i] \in Command
    OBVIOUS
  <2>2. doc.n \in Nat /\ doc.kind \in DocKinds
    BY DEF TypeOK
  <2>3. \A i \in 1..Len(cmds) : tail[i] \in Ran
    BY <2>1, <2>2 DEF Command, Ran
  <2>4. Len(cmds) \in Nat
    OBVIOUS
  <2>5. QED
    BY <2>3, <2>4
<1>2. ran \in Seq(Ran)
  BY DEF TypeOK
<1>3. Evaluated(cmds) = ran \o tail
  BY DEF Evaluated
<1> HIDE DEF tail
<1>4. QED
  BY <1>1, <1>2, <1>3

\* A new command has the type of one.
LEMMA NewCommandType ==
    ASSUME TypeOK
    PROVE  /\ NewCommand \in Command /\ NewCommand.cmd = issued + 1
           /\ NewCommand.for = load.n /\ NewCommand.kind = load.kind
           /\ <<NewCommand>> \in Seq(Command)
           /\ Append(pending_commands, NewCommand) \in Seq(Command)
<1>1. issued + 1 \in Nat /\ load.n \in Nat /\ load.kind \in DocKinds
  BY DEF TypeOK
<1>2. NewCommand \in Command
  BY <1>1 DEF NewCommand, Command
<1>3. /\ NewCommand.cmd = issued + 1 /\ NewCommand.for = load.n
      /\ NewCommand.kind = load.kind
  BY DEF NewCommand
<1>4. QED
  BY <1>2, <1>3 DEF TypeOK

\* A beginning of the queue is a queue.
LEMMA BeginningType ==
    ASSUME TypeOK, NEW n \in 1..Len(pending_commands)
    PROVE  /\ SubSeq(pending_commands, 1, n) \in Seq(Command)
           /\ Len(SubSeq(pending_commands, 1, n)) = n
           /\ \A i \in 1..n : SubSeq(pending_commands, 1, n)[i] = pending_commands[i]
BY DEF TypeOK

\* A run of a callback is a record of its type.
LEMMA CallbackRunType ==
    ASSUME TypeOK, NEW id \in Nat, NEW from \in Ref, NEW b \in BOOLEAN
    PROVE  CallbackRun(id, from, b) \in Fired
BY DEF TypeOK, Fired, CallbackRun

\* A response runs no callback, or one that returns or throws.
LEMMA ResponseRuns ==
    ASSUME NEW id, NEW from, SetResponse(id, from)
    PROVE  \/ fired' = fired
           \/ \E b \in BOOLEAN :
                 /\ Awaits(id) /\ fired' = Append(fired, CallbackRun(id, from, b))
                 /\ pendingObjIDs' = IF b THEN pendingObjIDs \ {id} ELSE pendingObjIDs
BY DEF SetResponse

\* The response of an id keeps the types of what it changes.
LEMMA SetResponseType ==
    ASSUME TypeOK, NEW id \in Nat, NEW from \in Ref, SetResponse(id, from)
    PROVE  /\ pendingObjIDs' \subseteq pendingObjIDs
           /\ fired' \in Seq(Fired)
<1>1. \A b \in BOOLEAN : CallbackRun(id, from, b) \in Fired
  BY CallbackRunType
<1>2. fired \in Seq(Fired)
  BY DEF TypeOK
<1>3. fired' \in Seq(Fired)
  BY <1>1, <1>2, ResponseRuns
<1>4. pendingObjIDs' \subseteq pendingObjIDs
  BY DEF SetResponse
<1>5. QED
  BY <1>3, <1>4

\* An answer forgets ids and appends to the history of callbacks.
LEMMA SuccessType ==
    ASSUME TypeOK, NEW id \in Nat, NEW from \in Ref, Success(id, from)
    PROVE  /\ pendingObjIDs' \subseteq pendingObjIDs
           /\ fired' \in Seq(Fired)
BY SetResponseType DEF Success, TypeOK, Fired

\* A load of a wallet page starts from clean native state.
LEMMA ResetForLoadType ==
    ASSUME TypeOK, ResetForLoad
    PROVE  /\ isLoaded' = FALSE /\ pending_commands' \in Seq(Command) /\ usedIDs' = {}
           /\ load' \in [n : Nat, kind : DocKinds, stage : Stages]
<1>1. load.n + 1 \in Nat
  BY DEF TypeOK
<1>2. QED
  BY <1>1, EmptySequence DEF ResetForLoad, Stages, DocKinds

\* What one round of the delivery loop may touch.
LEMMA DeliverType ==
    ASSUME TypeOK, Deliver
    PROVE  TypeOK'
<1>1. PICK id \in delivering :
        /\ delivering' = delivering \ {id}
        /\ \/ SkipUsed(id)    \/ Reread(id)
           \/ DispatchAsk(id) \/ DispatchNotify(id)
           \/ DispatchReload(id) \/ DispatchSync(id)
  BY DEF Deliver
<1>2. id \in Nat /\ id \in 0..(Len(calls) - 1)
  BY DEF TypeOK
<1>3. NoRef \in Ref /\ [page |-> doc.n, id |-> id] \in Ref
  BY <1>2 DEF NoRef, Ref, TypeOK
<1>4. /\ delivering' \subseteq delivering
      /\ UNCHANGED <<doc, calls, nav, issued, ran>>
  BY <1>1 DEF Deliver
<1>5. CASE SkipUsed(id)
  BY <1>4, <1>5 DEF SkipUsed, TypeOK, native
<1>6. CASE Reread(id)
  <2>1. pendingObjIDs' \subseteq pendingObjIDs /\ fired' \in Seq(Fired)
    BY <1>2, <1>3, <1>6, SuccessType DEF Reread
  <2>2. QED
    BY <1>2, <1>4, <1>6, <2>1 DEF Reread, TypeOK, Fired
<1>7. ASSUME Dispatch(id) PROVE log' \in Seq(Ref) /\ objArray' \subseteq objArray
  BY <1>3, <1>7 DEF Dispatch, ReadObject, TypeOK
<1>8. CASE DispatchAsk(id)
  <2>1. log' \in Seq(Ref) /\ objArray' \subseteq objArray
    BY <1>7, <1>8 DEF DispatchAsk
  <2>2. open' \subseteq [page : Nat, id : Nat, left : {1, 2}]
    BY <1>2, <1>8 DEF DispatchAsk, TypeOK
  <2>3. QED
    BY <1>2, <1>4, <1>8, <2>1, <2>2 DEF DispatchAsk, TypeOK
<1>9. CASE DispatchNotify(id)
  <2>1. log' \in Seq(Ref) /\ objArray' \subseteq objArray
    BY <1>7, <1>9 DEF DispatchNotify
  <2>2. pendingObjIDs' \subseteq pendingObjIDs /\ fired' \in Seq(Fired)
    BY <1>2, <1>3, <1>9, SuccessType DEF DispatchNotify
  <2>3. QED
    BY <1>2, <1>4, <1>9, <2>1, <2>2 DEF DispatchNotify, TypeOK, Fired
<1>10. CASE DispatchReload(id)
  <2>1. log' \in Seq(Ref) /\ objArray' \subseteq objArray
    BY <1>7, <1>10 DEF DispatchReload
  <2>2. /\ isLoaded' = FALSE /\ pending_commands' \in Seq(Command) /\ usedIDs' = {}
        /\ load' \in [n : Nat, kind : DocKinds, stage : Stages]
    BY <1>10, ResetForLoadType DEF DispatchReload
  <2>3. QED
    BY <1>4, <1>10, <2>1, <2>2 DEF DispatchReload, TypeOK
<1>11. CASE DispatchSync(id)
  <2>1. log' \in Seq(Ref) /\ objArray' \subseteq objArray
    BY <1>7, <1>11 DEF DispatchSync
  <2>2. pendingObjIDs' \subseteq pendingObjIDs /\ fired' \in Seq(Fired)
    BY <1>2, <1>3, <1>11, SuccessType DEF DispatchSync
  <2>3. QED
    BY <1>2, <1>4, <1>11, <2>1, <2>2 DEF DispatchSync, TypeOK, Fired
<1>12. QED
  BY <1>1, <1>5, <1>6, <1>8, <1>9, <1>10, <1>11

\* The variables have these types at the start.
LEMMA TypeInit == Init => TypeOK
<1>1. /\ <<>> \in Seq(Command) /\ <<>> \in Seq(Kinds)
      /\ <<>> \in Seq(Ran) /\ <<>> \in Seq(Ref) /\ <<>> \in Seq(Fired)
  BY EmptySequence
<1> SUFFICES ASSUME Init PROVE TypeOK
  OBVIOUS
<1>2. /\ pending_commands \in Seq(Command) /\ calls \in Seq(Kinds)
      /\ ran \in Seq(Ran) /\ log \in Seq(Ref) /\ fired \in Seq(Fired)
  BY <1>1 DEF Init
<1>3. /\ load \in [n : Nat, kind : DocKinds, stage : Stages]
      /\ doc \in [n : Nat, kind : DocKinds, ready : BOOLEAN]
  BY DEF Init, Stages, DocKinds
<1>4. /\ isLoaded \in BOOLEAN /\ raised \in BOOLEAN /\ issued \in Nat
      /\ usedIDs = {} /\ pendingObjIDs = {} /\ objArray = {} /\ nav = {}
      /\ delivering = {} /\ open = {}
  BY DEF Init
<1>5. QED
  BY <1>2, <1>3, <1>4 DEF TypeOK

\* Every step keeps the types.
LEMMA TypeStep == TypeOK /\ [Next]_vars => TypeOK'
<1> SUFFICES ASSUME TypeOK, [Next]_vars PROVE TypeOK'
  OBVIOUS
<1>1. CASE LoadHTML
  <2>1. /\ isLoaded' = FALSE /\ pending_commands' \in Seq(Command) /\ usedIDs' = {}
        /\ load' \in [n : Nat, kind : DocKinds, stage : Stages]
    BY <1>1, ResetForLoadType DEF LoadHTML
  <2>2. QED
    BY <1>1, <2>1 DEF LoadHTML, TypeOK, page, history
<1>2. CASE LoadRequest
  <2>1. load.n + 1 \in Nat
    BY DEF TypeOK
  <2>2. load' \in [n : Nat, kind : DocKinds, stage : Stages]
    BY <1>2, <2>1 DEF LoadRequest, Stages, DocKinds
  <2>3. QED
    BY <1>2, <2>2 DEF LoadRequest, TypeOK, native, page, history
<1>3. CASE ExecuteJS
  <2>1. issued + 1 \in Nat /\ issued' = issued + 1
    BY <1>3 DEF ExecuteJS, TypeOK
  <2>2. /\ Evaluated(<<NewCommand>>) \in Seq(Ran)
        /\ Append(pending_commands, NewCommand) \in Seq(Command)
    BY NewCommandType, EvaluatedType
  <2>3. ran' \in Seq(Ran) /\ pending_commands' \in Seq(Command)
    BY <1>3, <2>2 DEF ExecuteJS, TypeOK
  <2>4. QED
    BY <1>3, <2>1, <2>3 DEF ExecuteJS, TypeOK, page
<1>4. CASE StartLoad
  BY <1>4 DEF StartLoad, TypeOK, Stages, page, history
<1>5. CASE CommitLoad
  <2>1. calls' \in Seq(Kinds)
    BY <1>5, EmptySequence DEF CommitLoad
  <2>2. doc' \in [n : Nat, kind : DocKinds, ready : BOOLEAN]
    BY <1>5 DEF CommitLoad, TypeOK
  <2>3. delivering' = {}
    BY <1>5 DEF CommitLoad, MainIdle
  <2>4. QED
    BY <1>5, <2>1, <2>2, <2>3 DEF CommitLoad, TypeOK, Stages, native, history
<1>6. CASE FailLoad
  BY <1>6 DEF FailLoad, TypeOK, Stages, native, page, history
<1>7. CASE FinishLoad
  <2>1. ASSUME FlushQueue PROVE ran' \in Seq(Ran) /\ pending_commands' \in Seq(Command)
    <3>1. Evaluated(pending_commands) \in Seq(Ran)
      BY EvaluatedType DEF TypeOK
    <3>2. QED
      BY <2>1, <3>1, EmptySequence DEF FlushQueue
  <2>2. ASSUME FlushInterrupted
        PROVE  ran' \in Seq(Ran) /\ pending_commands' \in Seq(Command)
    <3>1. \A n \in 1..Len(pending_commands) :
              Evaluated(SubSeq(pending_commands, 1, n)) \in Seq(Ran)
      BY BeginningType, EvaluatedType
    <3>2. Append(pending_commands, NewCommand) \in Seq(Command)
      BY NewCommandType
    <3>3. QED
      BY <2>2, <3>1, <3>2 DEF FlushInterrupted
  <2>3. /\ ran' \in Seq(Ran) /\ pending_commands' \in Seq(Command)
        /\ issued' \in Nat /\ isLoaded' \in BOOLEAN /\ raised' \in BOOLEAN
    <3>1. CASE FlushQueue
      BY <2>1, <3>1 DEF FlushQueue, TypeOK
    <3>2. CASE FlushInterrupted
      BY <2>2, <3>2 DEF FlushInterrupted, TypeOK
    <3>3. QED
      BY <1>7, <3>1, <3>2 DEF FinishLoad
  <2>4. QED
    BY <1>7, <2>3 DEF FinishLoad, TypeOK, Stages, page
<1>8. ASSUME NEW h \in open, AnswerSuccess(h) PROVE TypeOK'
  <2>1. h.id \in Nat /\ [page |-> h.page, id |-> h.id] \in Ref
    BY DEF TypeOK, Ref
  <2>2. pendingObjIDs' \subseteq pendingObjIDs /\ fired' \in Seq(Fired)
    BY <1>8, <2>1, SuccessType DEF AnswerSuccess
  <2>3. open' \subseteq [page : Nat, id : Nat, left : {1, 2}]
    BY <1>8 DEF AnswerSuccess, UseClosure, TypeOK
  <2>4. QED
    BY <1>8, <2>2, <2>3 DEF AnswerSuccess, TypeOK, Fired, native
<1>9. ASSUME NEW h \in open, AnswerError(h) PROVE TypeOK'
  <2>1. h.id \in Nat /\ [page |-> h.page, id |-> h.id] \in Ref
    BY DEF TypeOK, Ref
  <2>2. pendingObjIDs' \subseteq pendingObjIDs /\ fired' \in Seq(Fired)
    BY <1>9, <2>1, SetResponseType DEF AnswerError, TypeOK, Fired
  <2>3. open' \subseteq [page : Nat, id : Nat, left : {1, 2}]
    BY <1>9 DEF AnswerError, UseClosure, TypeOK
  <2>4. raised' \in BOOLEAN
    BY <1>9 DEF AnswerError, TypeOK
  <2>5. QED
    BY <1>9, <2>2, <2>3, <2>4 DEF AnswerError, TypeOK, Fired, native
<1>10. CASE ShouldStartLoad
  BY <1>10 DEF ShouldStartLoad, TypeOK, native, history
<1>11. CASE Deliver
  BY <1>11, DeliverType
<1>12. ASSUME NEW k \in Kinds, Send(k) PROVE TypeOK'
  <2>1. Len(calls) \in Nat /\ calls' = Append(calls, k) /\ Len(calls') = Len(calls) + 1
    BY <1>12 DEF Send, TypeOK
  <2>2. calls' \in Seq(Kinds)
    BY <1>12, <2>1 DEF TypeOK
  <2> DEFINE n == Len(calls)
  <2>a. n \in Nat /\ 0..(n - 1) \subseteq 0..n /\ n \in 0..n
    BY <2>1
  <2>b. /\ pendingObjIDs' \subseteq 0..n /\ objArray' \subseteq 0..n
        /\ nav' \subseteq 0..n /\ delivering \subseteq 0..n
    BY <1>12, <2>a DEF Send, TypeOK, JSBridge_objCount, NextNavigation
  <2>3. /\ pendingObjIDs' \subseteq 0..(Len(calls') - 1)
        /\ objArray' \subseteq 0..(Len(calls') - 1)
        /\ nav' \subseteq 0..(Len(calls') - 1)
        /\ delivering \subseteq 0..(Len(calls') - 1)
    BY <2>a, <2>b, <2>1
  <2>4. QED
    BY <1>12, <2>2, <2>3 DEF Send, TypeOK, native, history
<1>13. CASE UNCHANGED vars
  BY <1>13 DEF vars, TypeOK
<1>14. QED
  BY <1>1, <1>2, <1>3, <1>4, <1>5, <1>6, <1>7, <1>8, <1>9, <1>10, <1>11, <1>12, <1>13
     DEF Next, WebView, App, Handler

\* The variables keep the types TypeOK gives them.
THEOREM TypeCorrect == Spec => []TypeOK
BY TypeInit, TypeStep, PTL DEF Spec

-----------------------------------------------------------------------------
(***************************************************************************)
(* Every object is handed to the delegate at most once.  The invariant     *)
(* adds why: what was handed over belongs to no later page than the        *)
(* present one, and of the present page it is no longer in objArray.       *)
(***************************************************************************)
PageOrder ==
    /\ doc.n <= load.n
    /\ load.stage \in {"requested", "started", "failed"} => doc.n < load.n
    /\ load.stage \in {"committed", "finished"} => doc.n = load.n /\ doc.kind = load.kind

LogInv ==
    /\ \A i \in 1..Len(log) :
          /\ log[i].page <= doc.n
          /\ log[i].page = doc.n => log[i].id \notin objArray /\ log[i].id < Len(calls)
    /\ HandedOverOnce

\* A logged object is a page and an id.
LEMMA LogTypes ==
    ASSUME TypeOK
    PROVE  \A i \in 1..Len(log) : log[i].page \in Nat /\ log[i].id \in Nat
<1>1. \A i \in 1..Len(log) : log[i] \in Ref
  BY DEF TypeOK
<1>2. QED
  BY <1>1 DEF Ref

\* Pages are numbered in the order they are loaded.
LEMMA PageOrderStep == TypeOK /\ PageOrder /\ [Next]_vars => PageOrder'
<1> SUFFICES ASSUME TypeOK, PageOrder, [Next]_vars PROVE PageOrder'
  OBVIOUS
<1>1. load.n \in Nat /\ doc.n \in Nat
  BY DEF TypeOK
<1>2. ASSUME ResetForLoad, doc' = doc PROVE PageOrder'
  BY <1>1, <1>2 DEF ResetForLoad, PageOrder
<1>3. ASSUME UNCHANGED <<load, doc>> PROVE PageOrder'
  BY <1>3 DEF PageOrder
<1>4. CASE LoadHTML
  BY <1>2, <1>4 DEF LoadHTML
<1>5. CASE LoadRequest
  BY <1>1, <1>5 DEF LoadRequest, PageOrder
<1>6. CASE StartLoad \/ CommitLoad \/ FailLoad \/ FinishLoad
  BY <1>1, <1>6 DEF StartLoad, CommitLoad, FailLoad, FinishLoad, PageOrder, TypeOK
<1>7. CASE Deliver
  BY <1>2, <1>3, <1>7 DEF Deliver, SkipUsed, Reread, DispatchAsk, DispatchNotify,
     DispatchReload, DispatchSync
<1>8. CASE ExecuteJS \/ ShouldStartLoad \/ (\E k \in Kinds : Send(k)) \/ UNCHANGED vars
  BY <1>3, <1>8 DEF ExecuteJS, ShouldStartLoad, Send, vars
<1>9. CASE Handler
  BY <1>3, <1>9 DEF Handler, AnswerSuccess, AnswerError
<1>10. QED
  BY <1>4, <1>5, <1>6, <1>7, <1>8, <1>9 DEF Next, WebView, App

\* Steps that neither hand over, send nor replace the document.
LEMMA LogFrame ==
    ASSUME TypeOK, LogInv, log' = log, doc'.n = doc.n, calls' = calls,
           objArray' \subseteq objArray
    PROVE  LogInv'
BY DEF LogInv, HandedOverOnce

\* Handing over an object that is still in objArray.
LEMMA LogDispatch ==
    ASSUME TypeOK, LogInv, NEW id \in delivering, Dispatch(id),
           doc' = doc, calls' = calls
    PROVE  LogInv'
<1> DEFINE e == [page |-> doc.n, id |-> id]
<1>1. e \in Ref /\ doc.n \in Nat /\ Len(log) \in Nat /\ log \in Seq(Ref)
  BY DEF TypeOK, Ref
<1>2. /\ log' = Append(log, e)
      /\ id \in objArray /\ objArray' = objArray \ {id}
  BY DEF Dispatch, ReadObject
<1>3. id < Len(calls)
  BY DEF TypeOK
<1>4. /\ Len(log') = Len(log) + 1
      /\ \A i \in 1..Len(log) : log'[i] = log[i]
      /\ log'[Len(log) + 1] = e
  BY <1>1, <1>2
<1>5. \A i \in 1..Len(log) : log[i] # e
  BY <1>2 DEF LogInv
<1>6. HandedOverOnce'
  BY <1>1, <1>4, <1>5 DEF LogInv, HandedOverOnce
<1>7. \A i \in 1..Len(log') :
          /\ log'[i].page <= doc.n
          /\ log'[i].page = doc.n => log'[i].id \notin objArray' /\ log'[i].id < Len(calls)
  BY <1>1, <1>2, <1>3, <1>4 DEF LogInv
<1>8. QED
  BY <1>6, <1>7 DEF LogInv

\* Every step preserves what the history says about handed-over objects.
LEMMA LogStep == TypeOK /\ PageOrder /\ LogInv /\ [Next]_vars => LogInv'
<1> SUFFICES ASSUME TypeOK, PageOrder, LogInv, [Next]_vars PROVE LogInv'
  OBVIOUS
<1>1. CASE LoadHTML \/ LoadRequest \/ ExecuteJS
  BY <1>1, LogFrame DEF LoadHTML, LoadRequest, ExecuteJS, page, history
<1>2. CASE StartLoad \/ FailLoad
  BY <1>2, LogFrame DEF StartLoad, FailLoad, page, history
<1>3. CASE FinishLoad
  BY <1>3, LogFrame DEF FinishLoad, page, TypeOK
<1>4. CASE CommitLoad
  <2>1. log' = log /\ doc.n < doc'.n /\ doc.n \in Nat /\ doc'.n \in Nat /\ log \in Seq(Ref)
    BY <1>4 DEF CommitLoad, PageOrder, TypeOK, history
  <2>2. \A i \in 1..Len(log) : log[i].page < doc'.n
    BY <2>1, LogTypes DEF LogInv
  <2>3. \A i \in 1..Len(log') : log'[i].page <= doc'.n /\ log'[i].page # doc'.n
    BY <2>1, <2>2, LogTypes
  <2>4. HandedOverOnce'
    BY <2>1 DEF LogInv, HandedOverOnce
  <2>5. QED
    BY <2>3, <2>4 DEF LogInv
<1>5. ASSUME NEW k \in Kinds, Send(k) PROVE LogInv'
  <2>1. /\ log' = log /\ doc' = doc
        /\ objArray' = objArray \cup {Len(calls)}
        /\ calls' = Append(calls, k)
    BY <1>5 DEF Send, JSBridge_objCount, history
  <2>2. Len(calls) \in Nat /\ Len(calls') = Len(calls) + 1 /\ log \in Seq(Ref)
    BY <2>1 DEF TypeOK
  <2>3. HandedOverOnce'
    BY <2>1 DEF LogInv, HandedOverOnce
  <2>4. \A i \in 1..Len(log') :
            /\ log'[i].page <= doc'.n
            /\ log'[i].page = doc'.n => log'[i].id \notin objArray' /\ log'[i].id < Len(calls')
    BY <2>1, <2>2, LogTypes DEF LogInv
  <2>5. QED
    BY <2>3, <2>4 DEF LogInv
<1>6. CASE ShouldStartLoad
  BY <1>6, LogFrame DEF ShouldStartLoad, history
<1>7. CASE Handler
  BY <1>7, LogFrame DEF Handler, AnswerSuccess, AnswerError
<1>8. CASE Deliver
  <2>1. PICK id \in delivering :
        \/ SkipUsed(id)    \/ Reread(id)
        \/ DispatchAsk(id) \/ DispatchNotify(id)
        \/ DispatchReload(id) \/ DispatchSync(id)
    BY <1>8 DEF Deliver
  <2>2. doc' = doc /\ calls' = calls
    BY <1>8 DEF Deliver
  <2>3. CASE SkipUsed(id) \/ Reread(id)
    BY <2>2, <2>3, LogFrame DEF SkipUsed, Reread
  <2>4. CASE DispatchAsk(id) \/ DispatchNotify(id) \/ DispatchReload(id) \/ DispatchSync(id)
    BY <2>2, <2>4, LogDispatch
       DEF DispatchAsk, DispatchNotify, DispatchReload, DispatchSync
  <2>5. QED
    BY <2>1, <2>3, <2>4
<1>9. CASE UNCHANGED vars
  BY <1>9, LogFrame DEF vars
<1>10. QED
  BY <1>1, <1>2, <1>3, <1>4, <1>5, <1>6, <1>7, <1>8, <1>9
     DEF Next, WebView, App

\* No object of any page is handed to the delegate twice, whatever loads,
\* navigations and answers interleave and however usedIDs is cleared.
THEOREM HandedOverOnceCorrect == Spec => []HandedOverOnce
<1>1. Init => PageOrder /\ LogInv
  BY DEF Init, PageOrder, LogInv, HandedOverOnce
<1>2. PageOrder /\ LogInv => HandedOverOnce
  BY DEF LogInv
<1>3. QED
  BY <1>1, <1>2, TypeCorrect, PageOrderStep, LogStep, PTL DEF Spec

-----------------------------------------------------------------------------
(***************************************************************************)
(* Commands run in order, once, and on the page they were issued for,      *)
(* unless that page or the one they meet is requested with loadRequest.    *)
(* The invariant adds that the queue is empty while the page is loaded and *)
(* otherwise belongs, as a whole, to the page being loaded; that a loaded  *)
(* page is the last one requested, or loadRequest requested the last; and  *)
(* that what is queued is newer than what was evaluated.  It speaks of the *)
(* queue of an app that runs: the end of an interrupted flush leaves       *)
(* commands in it that were evaluated.                                     *)
(***************************************************************************)
InOrder(seq) == \A i, j \in 1..Len(seq) : i < j => seq[i].cmd < seq[j].cmd
OnItsPage(r) == r.page = r.for \/ "remote" \in {r.kind, r.shown}
Issued(seq)  == \A i \in 1..Len(seq) : seq[i].cmd <= issued
Newer(seq)   == \A i \in 1..Len(ran), j \in 1..Len(seq) : ran[i].cmd < seq[j].cmd

\* A command for the last load, and one the present document may evaluate.
ForLoad(c) == c.for = load.n \/ "remote" \in {c.kind, load.kind}
ForDoc(c)  == c.for = doc.n \/ "remote" \in {c.kind, doc.kind}

QueueOrder ==
    /\ isLoaded => /\ pending_commands = <<>>
                   /\ load.stage = "finished" \/ load.kind = "remote"
    /\ \A i \in 1..Len(pending_commands) : ForLoad(pending_commands[i])
    /\ Issued(pending_commands) /\ InOrder(pending_commands) /\ Newer(pending_commands)

QueueInv ==
    /\ CommandsRunOnTheirPage /\ Issued(ran)
    /\ ~raised => QueueOrder

\* What may be evaluated now.
Evaluable(cmds) ==
    /\ \A i \in 1..Len(cmds) : ForDoc(cmds[i])
    /\ InOrder(cmds) /\ Newer(cmds)

LEMMA OnTheirPage ==
    CommandsRunOnTheirPage <=> (\A i \in 1..Len(ran) : OnItsPage(ran[i])) /\ InOrder(ran)
BY DEF CommandsRunOnTheirPage, OnItsPage, InOrder

\* The entries of the history after evaluating a sequence of commands.
LEMMA EvaluatedEntries ==
    ASSUME TypeOK, NEW cmds \in Seq(Command)
    PROVE  /\ Len(Evaluated(cmds)) = Len(ran) + Len(cmds)
           /\ \A i \in 1..Len(ran) : Evaluated(cmds)[i] = ran[i]
           /\ \A i \in (Len(ran) + 1)..(Len(ran) + Len(cmds)) :
                 Evaluated(cmds)[i] = [cmd |-> cmds[i - Len(ran)].cmd,
                                       for |-> cmds[i - Len(ran)].for,
                                       kind |-> cmds[i - Len(ran)].kind,
                                       page |-> doc.n, shown |-> doc.kind]
<1> DEFINE tail == [i \in 1..Len(cmds) |->
                [cmd |-> cmds[i].cmd, for |-> cmds[i].for, kind |-> cmds[i].kind,
                 page |-> doc.n, shown |-> doc.kind]]
<1>1. ran \in Seq(Ran) /\ doc.n \in Nat /\ doc.kind \in DocKinds
  BY DEF TypeOK
<1>2. tail \in Seq(Ran) /\ Len(tail) = Len(cmds)
  <2>1. \A i \in 1..Len(cmds) : cmds[i] \in Command
    OBVIOUS
  <2>2. \A i \in 1..Len(cmds) : tail[i] \in Ran
    BY <1>1, <2>1 DEF Command, Ran
  <2>3. QED
    BY <2>2
<1>3. Evaluated(cmds) = ran \o tail
  BY DEF Evaluated
<1>4. Len(ran) \in Nat /\ Len(cmds) \in Nat
  BY <1>1
<1> HIDE DEF tail
<1>5. /\ Len(ran \o tail) = Len(ran) + Len(tail)
      /\ \A i \in 1..Len(ran) : (ran \o tail)[i] = ran[i]
      /\ \A i \in (Len(ran) + 1)..(Len(ran) + Len(tail)) :
            (ran \o tail)[i] = tail[i - Len(ran)]
  BY <1>1, <1>2, <1>4
<1>6. \A i \in (Len(ran) + 1)..(Len(ran) + Len(cmds)) : i - Len(ran) \in 1..Len(cmds)
  BY <1>4
<1>7. QED
  BY <1>2, <1>3, <1>5, <1>6 DEF tail

\* The queue and the history hold commands numbered by natural numbers.
LEMMA CommandTypes ==
    ASSUME TypeOK
    PROVE  /\ \A i \in 1..Len(pending_commands) :
                 pending_commands[i].cmd \in Nat /\ pending_commands[i].for \in Nat
           /\ \A i \in 1..Len(ran) :
                 ran[i].cmd \in Nat /\ ran[i].for \in Nat /\ ran[i].page \in Nat
           /\ Len(pending_commands) \in Nat /\ Len(ran) \in Nat
           /\ issued \in Nat /\ load.n \in Nat /\ doc.n \in Nat
<1>1. pending_commands \in Seq(Command) /\ ran \in Seq(Ran)
  BY DEF TypeOK
<1>2. \A i \in 1..Len(pending_commands) : pending_commands[i] \in Command
  BY <1>1
<1>3. \A i \in 1..Len(ran) : ran[i] \in Ran
  BY <1>1
<1>4. /\ \A i \in 1..Len(pending_commands) :
            pending_commands[i].cmd \in Nat /\ pending_commands[i].for \in Nat
      /\ Len(pending_commands) \in Nat
  BY <1>1, <1>2 DEF Command
<1>5. /\ \A i \in 1..Len(ran) :
            ran[i].cmd \in Nat /\ ran[i].for \in Nat /\ ran[i].page \in Nat
      /\ Len(ran) \in Nat
  BY <1>1, <1>3 DEF Ran
<1>6. issued \in Nat /\ load.n \in Nat /\ doc.n \in Nat
  BY DEF TypeOK
<1>7. QED
  BY <1>4, <1>5, <1>6

\* Evaluating such commands keeps the history in order and on its pages.
LEMMA EvaluatedInOrder ==
    ASSUME TypeOK, CommandsRunOnTheirPage, NEW cmds \in Seq(Command), Evaluable(cmds),
           ran' = Evaluated(cmds)
    PROVE  CommandsRunOnTheirPage'
<1>1. /\ Len(ran') = Len(ran) + Len(cmds)
      /\ \A i \in 1..Len(ran) : ran'[i] = ran[i]
      /\ \A i \in (Len(ran) + 1)..Len(ran') :
            ran'[i] = [cmd |-> cmds[i - Len(ran)].cmd, for |-> cmds[i - Len(ran)].for,
                       kind |-> cmds[i - Len(ran)].kind,
                       page |-> doc.n, shown |-> doc.kind]
  BY EvaluatedEntries
<1>2. Len(ran) \in Nat /\ Len(cmds) \in Nat
  BY CommandTypes
<1>3. ASSUME NEW i \in (Len(ran) + 1)..Len(ran')
      PROVE  /\ i - Len(ran) \in 1..Len(cmds)
             /\ ran'[i].cmd = cmds[i - Len(ran)].cmd
             /\ ran'[i].for = cmds[i - Len(ran)].for
             /\ ran'[i].kind = cmds[i - Len(ran)].kind
             /\ ran'[i].page = doc.n /\ ran'[i].shown = doc.kind
  <2>1. i - Len(ran) \in 1..Len(cmds)
    BY <1>1, <1>2
  <2>2. ran'[i] = [cmd |-> cmds[i - Len(ran)].cmd, for |-> cmds[i - Len(ran)].for,
                   kind |-> cmds[i - Len(ran)].kind,
                   page |-> doc.n, shown |-> doc.kind]
    BY <1>1
  <2>3. QED
    BY <2>1, <2>2
<1>4. \A i \in 1..Len(ran') : i \in 1..Len(ran) \/ i \in (Len(ran) + 1)..Len(ran')
  BY <1>1, <1>2
<1>5. (\A i \in 1..Len(ran) : OnItsPage(ran[i])) /\ InOrder(ran)
  BY OnTheirPage
<1>6. ASSUME NEW i \in 1..Len(ran') PROVE OnItsPage(ran'[i])
  <2>1. CASE i \in 1..Len(ran)
    BY <1>1, <1>5, <2>1
  <2>2. CASE i \in (Len(ran) + 1)..Len(ran')
    <3>1. ForDoc(cmds[i - Len(ran)])
      BY <1>3, <2>2 DEF Evaluable
    <3>2. QED
      BY <1>3, <2>2, <3>1 DEF ForDoc, OnItsPage
  <2>3. QED
    BY <1>4, <2>1, <2>2
<1>7. ASSUME NEW i \in 1..Len(ran'), NEW j \in 1..Len(ran'), i < j
      PROVE  ran'[i].cmd < ran'[j].cmd
  <2>1. CASE j \in 1..Len(ran)
    <3>1. i \in 1..Len(ran)
      BY <1>2, <1>7, <2>1
    <3>2. QED
      BY <1>1, <1>5, <1>7, <2>1, <3>1 DEF InOrder
  <2>2. CASE i \in 1..Len(ran) /\ j \in (Len(ran) + 1)..Len(ran')
    BY <1>1, <1>3, <2>2 DEF Evaluable, Newer
  <2>3. CASE i \in (Len(ran) + 1)..Len(ran') /\ j \in (Len(ran) + 1)..Len(ran')
    <3>1. i - Len(ran) < j - Len(ran)
      BY <1>2, <1>7
    <3>2. QED
      BY <1>3, <2>3, <3>1 DEF Evaluable, InOrder
  <2>4. QED
    BY <1>4, <2>1, <2>2, <2>3
<1>8. QED
  BY <1>6, <1>7 DEF CommandsRunOnTheirPage, OnItsPage

\* What is evaluated was issued.
LEMMA EvaluatedIssued ==
    ASSUME TypeOK, Issued(ran), NEW cmds \in Seq(Command), issued' \in Nat, issued' >= issued,
           \A i \in 1..Len(cmds) : cmds[i].cmd <= issued', ran' = Evaluated(cmds)
    PROVE  Issued(ran)'
<1>1. /\ Len(ran') = Len(ran) + Len(cmds)
      /\ \A i \in 1..Len(ran) : ran'[i] = ran[i]
      /\ \A i \in (Len(ran) + 1)..Len(ran') : ran'[i].cmd = cmds[i - Len(ran)].cmd
  <2>1. /\ Len(ran') = Len(ran) + Len(cmds)
        /\ \A i \in 1..Len(ran) : ran'[i] = ran[i]
        /\ \A i \in (Len(ran) + 1)..Len(ran') :
              ran'[i] = [cmd |-> cmds[i - Len(ran)].cmd, for |-> cmds[i - Len(ran)].for,
                         kind |-> cmds[i - Len(ran)].kind,
                         page |-> doc.n, shown |-> doc.kind]
    BY EvaluatedEntries
  <2>2. ASSUME NEW i \in (Len(ran) + 1)..Len(ran')
        PROVE  ran'[i].cmd = cmds[i - Len(ran)].cmd
    <3>1. ran'[i] = [cmd |-> cmds[i - Len(ran)].cmd, for |-> cmds[i - Len(ran)].for,
                     kind |-> cmds[i - Len(ran)].kind,
                     page |-> doc.n, shown |-> doc.kind]
      BY <2>1
    <3>2. QED
      BY <3>1
  <2>3. QED
    BY <2>1, <2>2
<1>2. Len(ran) \in Nat /\ Len(cmds) \in Nat
  BY CommandTypes
<1>3. ASSUME NEW i \in 1..Len(ran') PROVE ran'[i].cmd <= issued'
  <2>1. CASE i \in 1..Len(ran)
    BY <1>1, <2>1, CommandTypes DEF Issued
  <2>2. CASE i \in (Len(ran) + 1)..Len(ran')
    BY <1>1, <1>2, <2>2
  <2>3. QED
    BY <1>1, <1>2, <2>1, <2>2
<1>4. QED
  BY <1>3 DEF Issued

\* Steps that leave commands alone.
LEMMA QueueFrame ==
    ASSUME QueueInv, ~raised, load'.n = load.n, load'.kind = load.kind,
           isLoaded /\ load.stage = "finished" => load'.stage = "finished",
           UNCHANGED <<isLoaded, pending_commands, issued, ran>>
    PROVE  QueueInv'
BY DEF QueueInv, QueueOrder, CommandsRunOnTheirPage, ForLoad, Issued, InOrder, Newer

\* loadHTMLString empties the queue.
LEMMA QueueReset ==
    ASSUME TypeOK, QueueInv, ResetForLoad, UNCHANGED <<issued, ran>>
    PROVE  QueueInv'
<1>1. isLoaded' = FALSE /\ pending_commands' = <<>> /\ Len(pending_commands') = 0
  BY DEF ResetForLoad
<1>2. CommandsRunOnTheirPage' /\ Issued(ran)'
  BY DEF QueueInv, CommandsRunOnTheirPage, Issued
<1>3. QueueOrder'
  BY <1>1 DEF QueueOrder, Issued, InOrder, Newer
<1>4. QED
  BY <1>2, <1>3 DEF QueueInv

\* loadRequest leaves the queue to the page it requests.
LEMMA QueueRequest ==
    ASSUME QueueInv, ~raised, LoadRequest
    PROVE  QueueInv'
<1>1. load'.kind = "remote" /\ UNCHANGED <<isLoaded, pending_commands, issued, ran>>
  BY DEF LoadRequest, native, history
<1>2. CommandsRunOnTheirPage' /\ Issued(ran)'
  BY <1>1 DEF QueueInv, CommandsRunOnTheirPage, Issued
<1>3. QueueOrder'
  BY <1>1 DEF QueueInv, QueueOrder, ForLoad, Issued, InOrder, Newer
<1>4. QED
  BY <1>2, <1>3 DEF QueueInv

\* A new command is evaluated now or goes to the end of the queue.
LEMMA QueueExecute ==
    ASSUME TypeOK, PageOrder, QueueInv, ~raised, ExecuteJS
    PROVE  QueueInv'
<1>1. /\ issued' = issued + 1 /\ issued \in Nat
      /\ UNCHANGED <<isLoaded, load, doc>>
  BY DEF ExecuteJS, TypeOK
<1>2. /\ NewCommand \in Command /\ NewCommand.cmd = issued + 1
      /\ NewCommand.for = load.n /\ NewCommand.kind = load.kind
  BY NewCommandType
<1>3. QueueOrder /\ Issued(ran) /\ CommandsRunOnTheirPage
  BY DEF QueueInv
<1>4. \A i \in 1..Len(ran) : ran[i].cmd < NewCommand.cmd
  BY <1>1, <1>2, <1>3, CommandTypes DEF Issued
<1> DEFINE c == NewCommand
<1>5. CASE isLoaded /\ ran' = Evaluated(<<c>>) /\ UNCHANGED pending_commands
  <2>1. /\ <<c>> \in Seq(Command) /\ Len(<<c>>) = 1
        /\ \A i \in 1..Len(<<c>>) : <<c>>[i] = c
    BY <1>2
  <2>2. ForDoc(c)
    BY <1>2, <1>3, <1>5 DEF QueueOrder, PageOrder, ForDoc
  <2> HIDE DEF c
  <2>3. InOrder(<<c>>)
    BY <2>1 DEF InOrder
  <2>4. Newer(<<c>>)
    BY <1>4, <2>1 DEF Newer, c
  <2>5. Evaluable(<<c>>)
    BY <2>1, <2>2, <2>3, <2>4 DEF Evaluable
  <2>6. CommandsRunOnTheirPage'
    BY <1>3, <1>5, <2>1, <2>5, EvaluatedInOrder
  <2>7. \A i \in 1..Len(<<c>>) : <<c>>[i].cmd <= issued'
    BY <1>1, <1>2, <2>1 DEF c
  <2>8. Issued(ran)'
    <3>1. issued' \in Nat /\ issued' >= issued
      BY <1>1
    <3>2. QED
      BY <1>3, <1>5, <2>1, <2>7, <3>1, EvaluatedIssued
  <2>9. pending_commands' = <<>> /\ Len(pending_commands') = 0
    BY <1>3, <1>5 DEF QueueOrder
  <2>10. QueueOrder'
    BY <1>1, <1>3, <1>5, <2>9 DEF QueueOrder, Issued, InOrder, Newer
  <2>11. QED
    BY <2>6, <2>8, <2>10 DEF QueueInv
<1>6. CASE ~isLoaded /\ pending_commands' = Append(pending_commands, c) /\ UNCHANGED ran
  <2> DEFINE k == Len(pending_commands) + 1
  <2>1. /\ Len(pending_commands') = Len(pending_commands) + 1
        /\ \A i \in 1..Len(pending_commands) : pending_commands'[i] = pending_commands[i]
        /\ pending_commands'[Len(pending_commands) + 1] = c
    BY <1>2, <1>6 DEF TypeOK
  <2>2. CommandsRunOnTheirPage' /\ Issued(ran)'
    BY <1>1, <1>3, <1>6, CommandTypes DEF CommandsRunOnTheirPage, Issued
  <2>3. \A i \in 1..Len(pending_commands') : i \in 1..Len(pending_commands) \/ i = k
    BY <2>1, CommandTypes
  <2>4. /\ \A i \in 1..Len(pending_commands) :
              ForLoad(pending_commands[i]) /\ pending_commands[i].cmd <= issued
    BY <1>3 DEF QueueOrder, Issued
  <2>5. pending_commands'[k].cmd = issued + 1 /\ pending_commands'[k].for = load.n
    BY <1>2, <2>1
  <2>6. ASSUME NEW i \in 1..Len(pending_commands')
        PROVE  ForLoad(pending_commands[i])' /\ pending_commands'[i].cmd <= issued'
    <3>1. CASE i = k
      BY <1>1, <2>5, <3>1 DEF ForLoad
    <3>2. CASE i \in 1..Len(pending_commands)
      <4>1. pending_commands'[i] = pending_commands[i]
        BY <2>1, <3>2
      <4>2. QED
        BY <1>1, <2>4, <3>2, <4>1, CommandTypes DEF ForLoad
    <3>3. QED
      BY <2>3, <3>1, <3>2
  <2>7. \A i, j \in 1..Len(pending_commands') :
            i < j => pending_commands'[i].cmd < pending_commands'[j].cmd
    <3> TAKE i, j \in 1..Len(pending_commands')
    <3> HAVE i < j
    <3>1. i \in 1..Len(pending_commands)
      BY <2>1, CommandTypes
    <3>2. CASE j = k
      <4>1. pending_commands[i].cmd <= issued /\ pending_commands[i].cmd \in Nat
        BY <2>4, <3>1, CommandTypes
      <4>2. QED
        BY <1>1, <2>1, <2>5, <3>1, <3>2, <4>1
    <3>3. CASE j \in 1..Len(pending_commands)
      BY <1>3, <2>1, <3>1, <3>3 DEF QueueOrder, InOrder
    <3>4. QED
      BY <2>3, <3>2, <3>3
  <2>8. ASSUME NEW i \in 1..Len(ran), NEW j \in 1..Len(pending_commands')
        PROVE  ran[i].cmd < pending_commands'[j].cmd
    <3>1. CASE j = k
      BY <1>2, <1>4, <2>5, <3>1
    <3>2. CASE j \in 1..Len(pending_commands)
      BY <1>3, <2>1, <3>2 DEF QueueOrder, Newer
    <3>3. QED
      BY <2>3, <3>1, <3>2
  <2>9. QueueOrder'
    BY <1>1, <1>6, <2>6, <2>7, <2>8 DEF QueueOrder, Issued, InOrder, Newer
  <2>10. QED
    BY <2>2, <2>9 DEF QueueInv
<1>7. QED
  BY <1>5, <1>6 DEF ExecuteJS

\* The queue, or the beginning of it a callback interrupts, is evaluated on the
\* page it was issued for.
LEMMA QueueFinish ==
    ASSUME TypeOK, PageOrder, QueueInv, ~raised, FinishLoad
    PROVE  QueueInv'
<1>1. /\ doc.n = load.n /\ doc.kind = load.kind
      /\ load'.stage = "finished"
  BY DEF FinishLoad, PageOrder, TypeOK
<1>2. QueueOrder /\ Issued(ran) /\ CommandsRunOnTheirPage
  BY DEF QueueInv
<1>3. \A i \in 1..Len(pending_commands) : ForDoc(pending_commands[i])
  BY <1>1, <1>2 DEF QueueOrder, ForLoad, ForDoc
<1>4. CASE FlushQueue
  <2>1. /\ ran' = Evaluated(pending_commands) /\ issued' = issued
        /\ pending_commands' = <<>> /\ Len(pending_commands') = 0
    BY <1>4 DEF FlushQueue
  <2>2. pending_commands \in Seq(Command) /\ Evaluable(pending_commands)
    BY <1>2, <1>3 DEF TypeOK, Evaluable, QueueOrder
  <2>3. CommandsRunOnTheirPage'
    BY <1>2, <2>1, <2>2, EvaluatedInOrder
  <2>4. \A i \in 1..Len(pending_commands) : pending_commands[i].cmd <= issued'
    BY <1>2, <2>1 DEF QueueOrder, Issued
  <2>5. issued' \in Nat /\ issued' >= issued
    BY <2>1, CommandTypes
  <2>6. Issued(ran)'
    BY <1>2, <2>1, <2>2, <2>4, <2>5, EvaluatedIssued
  <2>7. QueueOrder'
    BY <1>1, <2>1 DEF QueueOrder, Issued, InOrder, Newer
  <2>8. QED
    BY <2>3, <2>6, <2>7 DEF QueueInv
<1>5. CASE FlushInterrupted
  <2>1. PICK n \in 1..Len(pending_commands) :
            ran' = Evaluated(SubSeq(pending_commands, 1, n))
    BY <1>5 DEF FlushInterrupted
  <2> DEFINE part == SubSeq(pending_commands, 1, n)
  <2>2. /\ part \in Seq(Command) /\ Len(part) = n
        /\ \A i \in 1..n : part[i] = pending_commands[i] /\ i \in 1..Len(pending_commands)
    BY BeginningType, CommandTypes
  <2>3. ran' = Evaluated(part)
    BY <2>1
  <2> HIDE DEF part
  <2>4. Evaluable(part)
    BY <1>2, <1>3, <2>2 DEF Evaluable, QueueOrder, InOrder, Newer
  <2>5. CommandsRunOnTheirPage'
    BY <1>2, <2>2, <2>3, <2>4, EvaluatedInOrder
  <2>6. issued' \in Nat /\ issued' >= issued /\ raised'
    BY <1>5, CommandTypes DEF FlushInterrupted
  <2>7. \A i \in 1..Len(part) : part[i].cmd <= issued'
    <3>1. \A i \in 1..Len(part) : part[i].cmd <= issued /\ part[i].cmd \in Nat
      BY <1>2, <2>2, CommandTypes DEF QueueOrder, Issued
    <3>2. QED
      BY <2>6, <3>1, CommandTypes
  <2>8. Issued(ran)'
    BY <1>2, <2>2, <2>3, <2>6, <2>7, EvaluatedIssued
  <2>9. QED
    BY <2>5, <2>6, <2>8 DEF QueueInv
<1>6. QED
  BY <1>4, <1>5 DEF FinishLoad

\* Every step preserves what the queue says about pages.
LEMMA QueueStep == TypeOK /\ PageOrder /\ QueueInv /\ [Next]_vars => QueueInv'
<1> SUFFICES ASSUME TypeOK, PageOrder, QueueInv, [Next]_vars PROVE QueueInv'
  OBVIOUS
<1>1. CASE UNCHANGED vars
  <2>1. UNCHANGED <<isLoaded, pending_commands, issued, ran, load, raised>>
    BY <1>1 DEF vars
  <2>2. QED
    BY <2>1 DEF QueueInv, QueueOrder, CommandsRunOnTheirPage, ForLoad, Issued, InOrder, Newer
<1>2. ASSUME Next PROVE QueueInv'
  <2>1. ~raised
    BY <1>2 DEF Next
  <2>2. CASE LoadHTML
    BY <2>2, QueueReset DEF LoadHTML, history
  <2>3. CASE LoadRequest
    BY <2>1, <2>3, QueueRequest
  <2>4. CASE ExecuteJS
    BY <2>1, <2>4, QueueExecute
  <2>5. CASE StartLoad \/ CommitLoad \/ FailLoad
    BY <2>1, <2>5, QueueFrame
       DEF StartLoad, CommitLoad, FailLoad, TypeOK, native, history
  <2>6. CASE FinishLoad
    BY <2>1, <2>6, QueueFinish
  <2>7. CASE ShouldStartLoad \/ (\E k \in Kinds : Send(k))
    BY <2>1, <2>7, QueueFrame DEF ShouldStartLoad, Send, native, history
  <2>8. CASE Handler
    BY <2>1, <2>8, QueueFrame DEF Handler, AnswerSuccess, AnswerError, native
  <2>9. CASE Deliver
    <3>1. PICK id \in delivering :
          \/ SkipUsed(id)    \/ Reread(id)
          \/ DispatchAsk(id) \/ DispatchNotify(id)
          \/ DispatchReload(id) \/ DispatchSync(id)
      BY <2>9 DEF Deliver
    <3>2. UNCHANGED <<issued, ran>>
      BY <2>9 DEF Deliver
    <3>3. CASE DispatchReload(id)
      BY <3>2, <3>3, QueueReset DEF DispatchReload
    <3>4. CASE \/ SkipUsed(id) \/ Reread(id) \/ DispatchAsk(id)
               \/ DispatchNotify(id) \/ DispatchSync(id)
      BY <2>1, <3>2, <3>4, QueueFrame
         DEF SkipUsed, Reread, DispatchAsk, DispatchNotify, DispatchSync, native
    <3>5. QED
      BY <3>1, <3>3, <3>4
  <2>10. QED
    BY <1>2, <2>2, <2>3, <2>4, <2>5, <2>6, <2>7, <2>8, <2>9 DEF Next, WebView, App
<1>3. QED
  BY <1>1, <1>2

\* Every command of native code runs at most once, in the order of issue and,
\* as long as wallet pages are concerned, on the page that was loaded or being
\* loaded when it was issued, whatever pages are loaded meanwhile.
THEOREM CommandsRunOnTheirPageCorrect == Spec => []CommandsRunOnTheirPage
<1>1. Init => PageOrder /\ QueueInv
  BY DEF Init, PageOrder, QueueInv, QueueOrder, CommandsRunOnTheirPage, Issued, InOrder,
     Newer
<1>2. QueueInv => CommandsRunOnTheirPage
  BY DEF QueueInv
<1>3. QED
  BY <1>1, <1>2, TypeCorrect, PageOrderStep, QueueStep, PTL DEF Spec

-----------------------------------------------------------------------------
(***************************************************************************)
(* A callback that returned is not run again.  As for the objects handed   *)
(* over, the invariant adds why: a callback that ran belongs to no later   *)
(* page than the present one, and of the present page its id is no longer  *)
(* in pendingObjIDs once it returned.                                      *)
(***************************************************************************)
FiredInv ==
    /\ \A i \in 1..Len(fired) :
          /\ fired[i].page <= doc.n
          /\ fired[i].page = doc.n => fired[i].id < Len(calls)
          /\ fired[i].page = doc.n /\ fired[i].returned => fired[i].id \notin pendingObjIDs
    /\ CallbackReturnsOnce

\* A callback that ran is a page, an id and the closure that answered.
LEMMA FiredTypes ==
    ASSUME TypeOK
    PROVE  /\ \A i \in 1..Len(fired) : fired[i].page \in Nat /\ fired[i].id \in Nat
           /\ Len(fired) \in Nat
<1>1. fired \in Seq(Fired)
  BY DEF TypeOK, Fired
<1>2. \A i \in 1..Len(fired) : fired[i] \in Fired
  BY <1>1
<1>3. QED
  BY <1>1, <1>2 DEF Fired

\* Steps that neither answer, send nor replace the document.
LEMMA FiredFrame ==
    ASSUME TypeOK, FiredInv, fired' = fired, doc'.n = doc.n, calls' = calls,
           pendingObjIDs' \subseteq pendingObjIDs
    PROVE  FiredInv'
BY DEF FiredInv, CallbackReturnsOnce

\* A response runs the callback of an id that was pending, or of none.
LEMMA FiredResponse ==
    ASSUME TypeOK, FiredInv, NEW id \in Nat, NEW from \in Ref, SetResponse(id, from),
           doc' = doc, calls' = calls
    PROVE  FiredInv'
<1>1. CASE fired' = fired
  BY <1>1, FiredFrame DEF SetResponse
<1>2. ASSUME NEW b \in BOOLEAN, Awaits(id), fired' = Append(fired, CallbackRun(id, from, b)),
             pendingObjIDs' = IF b THEN pendingObjIDs \ {id} ELSE pendingObjIDs
      PROVE  FiredInv'
  <2> DEFINE e == CallbackRun(id, from, b)
  <2>1. e \in Fired /\ doc.n \in Nat /\ fired \in Seq(Fired)
    BY CallbackRunType DEF TypeOK
  <2>2. /\ e.page = doc.n /\ e.id = id /\ e.returned = b
        /\ id \in pendingObjIDs /\ id < Len(calls)
    BY <1>2 DEF TypeOK, CallbackRun, Awaits
  <2> HIDE DEF e
  <2>3. /\ Len(fired') = Len(fired) + 1
        /\ \A i \in 1..Len(fired) : fired'[i] = fired[i]
        /\ fired'[Len(fired) + 1] = e
    BY <1>2, <2>1 DEF e
  <2>4. \A i \in 1..Len(fired) :
            fired[i].page = e.page /\ fired[i].id = e.id => ~fired[i].returned
    BY <2>2 DEF FiredInv
  <2>5. \A i \in 1..Len(fired') : i \in 1..Len(fired) \/ i = Len(fired) + 1
    BY <2>3, FiredTypes
  <2>6. ASSUME NEW i \in 1..Len(fired'), NEW j \in 1..Len(fired'), i < j,
               fired'[i].page = fired'[j].page, fired'[i].id = fired'[j].id
        PROVE  ~fired'[i].returned
    <3>1. i \in 1..Len(fired)
      BY <2>3, <2>5, <2>6, FiredTypes
    <3>2. CASE j \in 1..Len(fired)
      BY <2>3, <2>6, <3>1, <3>2 DEF FiredInv, CallbackReturnsOnce
    <3>3. CASE j = Len(fired) + 1
      BY <2>3, <2>4, <2>6, <3>1, <3>3
    <3>4. QED
      BY <2>5, <3>2, <3>3
  <2>7. ASSUME NEW i \in 1..Len(fired')
        PROVE  /\ fired'[i].page <= doc.n
               /\ fired'[i].page = doc.n => fired'[i].id < Len(calls)
               /\ fired'[i].page = doc.n /\ fired'[i].returned
                      => fired'[i].id \notin pendingObjIDs'
    <3>1. CASE i \in 1..Len(fired)
      BY <1>2, <2>3, <3>1 DEF FiredInv
    <3>2. CASE i = Len(fired) + 1
      BY <1>2, <2>1, <2>2, <2>3, <3>2
    <3>3. QED
      BY <2>5, <3>1, <3>2
  <2>8. QED
    BY <2>6, <2>7 DEF FiredInv, CallbackReturnsOnce
<1>3. QED
  BY <1>1, <1>2, ResponseRuns

\* So does an answer, which does nothing while the page is not loaded.
LEMMA FiredSuccess ==
    ASSUME TypeOK, FiredInv, NEW id \in Nat, NEW from \in Ref, Success(id, from),
           doc' = doc, calls' = calls
    PROVE  FiredInv'
BY FiredResponse, FiredFrame DEF Success

\* Every step preserves what the history says about callbacks.
LEMMA FiredStep == TypeOK /\ PageOrder /\ FiredInv /\ [Next]_vars => FiredInv'
<1> SUFFICES ASSUME TypeOK, PageOrder, FiredInv, [Next]_vars PROVE FiredInv'
  OBVIOUS
<1>1. CASE LoadHTML \/ LoadRequest \/ ExecuteJS
  BY <1>1, FiredFrame DEF LoadHTML, LoadRequest, ExecuteJS, page, history
<1>2. CASE StartLoad \/ FailLoad
  BY <1>2, FiredFrame DEF StartLoad, FailLoad, page, history
<1>3. CASE FinishLoad
  BY <1>3, FiredFrame DEF FinishLoad, page, TypeOK
<1>4. CASE CommitLoad
  <2>1. fired' = fired /\ doc.n < doc'.n /\ doc.n \in Nat /\ doc'.n \in Nat
    BY <1>4 DEF CommitLoad, PageOrder, TypeOK, history
  <2>2. \A i \in 1..Len(fired) : fired[i].page < doc'.n
    BY <2>1, FiredTypes DEF FiredInv
  <2>3. \A i \in 1..Len(fired') : fired'[i].page <= doc'.n /\ fired'[i].page # doc'.n
    BY <2>1, <2>2, FiredTypes
  <2>4. CallbackReturnsOnce'
    BY <2>1 DEF FiredInv, CallbackReturnsOnce
  <2>5. QED
    BY <2>3, <2>4 DEF FiredInv
<1>5. ASSUME NEW k \in Kinds, Send(k) PROVE FiredInv'
  <2>1. /\ fired' = fired /\ doc' = doc
        /\ pendingObjIDs' = pendingObjIDs \cup {Len(calls)}
        /\ calls' = Append(calls, k)
    BY <1>5 DEF Send, JSBridge_objCount, history
  <2>2. Len(calls) \in Nat /\ Len(calls') = Len(calls) + 1
    BY <2>1 DEF TypeOK
  <2>3. CallbackReturnsOnce'
    BY <2>1 DEF FiredInv, CallbackReturnsOnce
  <2>4. \A i \in 1..Len(fired') :
            /\ fired'[i].page <= doc'.n
            /\ fired'[i].page = doc'.n => fired'[i].id < Len(calls')
            /\ fired'[i].page = doc'.n /\ fired'[i].returned
                  => fired'[i].id \notin pendingObjIDs'
    BY <2>1, <2>2, FiredTypes DEF FiredInv
  <2>5. QED
    BY <2>3, <2>4 DEF FiredInv
<1>6. CASE ShouldStartLoad
  BY <1>6, FiredFrame DEF ShouldStartLoad, history
<1>7. ASSUME NEW h \in open, AnswerSuccess(h) \/ AnswerError(h) PROVE FiredInv'
  <2>1. h.id \in Nat /\ [page |-> h.page, id |-> h.id] \in Ref
    BY DEF TypeOK, Ref
  <2>2. doc' = doc /\ calls' = calls
    BY <1>7 DEF AnswerSuccess, AnswerError
  <2>3. CASE AnswerSuccess(h)
    BY <2>1, <2>2, <2>3, FiredSuccess DEF AnswerSuccess
  <2>4. CASE AnswerError(h)
    BY <2>1, <2>2, <2>4, FiredResponse, FiredFrame DEF AnswerError
  <2>5. QED
    BY <1>7, <2>3, <2>4
<1>8. CASE Deliver
  <2>1. PICK id \in delivering :
        \/ SkipUsed(id)    \/ Reread(id)
        \/ DispatchAsk(id) \/ DispatchNotify(id)
        \/ DispatchReload(id) \/ DispatchSync(id)
    BY <1>8 DEF Deliver
  <2>2. doc' = doc /\ calls' = calls
    BY <1>8 DEF Deliver
  <2>3. id \in Nat /\ NoRef \in Ref
    BY DEF TypeOK, NoRef, Ref
  <2>4. CASE Reread(id) \/ DispatchNotify(id) \/ DispatchSync(id)
    BY <2>2, <2>3, <2>4, FiredSuccess DEF Reread, DispatchNotify, DispatchSync
  <2>5. CASE SkipUsed(id) \/ DispatchAsk(id) \/ DispatchReload(id)
    BY <2>2, <2>5, FiredFrame DEF SkipUsed, DispatchAsk, DispatchReload
  <2>6. QED
    BY <2>1, <2>4, <2>5
<1>9. CASE UNCHANGED vars
  BY <1>9, FiredFrame DEF vars
<1>10. QED
  BY <1>1, <1>2, <1>3, <1>4, <1>5, <1>6, <1>7, <1>8, <1>9
     DEF Next, WebView, App, Handler

\* The page runs a callback that returned no second time, however often URLs
\* list its object and whichever closures, of this page or of an earlier one,
\* answer.
THEOREM CallbackReturnsOnceCorrect == Spec => []CallbackReturnsOnce
<1>1. Init => PageOrder /\ FiredInv
  BY DEF Init, PageOrder, FiredInv, CallbackReturnsOnce
<1>2. FiredInv => CallbackReturnsOnce
  BY DEF FiredInv
<1>3. QED
  BY <1>1, <1>2, TypeCorrect, PageOrderStep, FiredStep, PTL DEF Spec

-----------------------------------------------------------------------------
(***************************************************************************)
(* A callback receives what a handler answered.  The danger is the second  *)
(* reading of an object, which the bridge acknowledges itself.  It finds   *)
(* the page loaded only while loadRequest replaces it: usedIDs is cleared  *)
(* only when the page is about to be replaced, so from the commit of a     *)
(* document to the next load every object read is also in usedIDs.         *)
(***************************************************************************)
ReadIsUsed ==
    load.stage \in {"committed", "finished"} =>
        \A id \in 0..(Len(calls) - 1) : id \in objArray \/ id \in usedIDs

OpenIsLogged ==
    \A h \in open : \E k \in 1..Len(log) : log[k] = [page |-> h.page, id |-> h.id]

HandlerAnswered(f) == f.from.id = f.id /\ \E k \in 1..Len(log) : log[k] = f.from
MadeUp(f) == f.from = NoRef /\ f.during = "remote"

HandlerInv == ReadIsUsed /\ OpenIsLogged /\ AnswerComesFromAHandler

\* The history of handed-over objects only grows.
LogGrows ==
    /\ 1..Len(log) \subseteq 1..Len(log')
    /\ \A k \in 1..Len(log) : log'[k] = log[k]

\* Nothing handed over, or one object: both let the log grow.
LEMMA LogGrowth ==
    ASSUME TypeOK, log' = log \/ (\E r \in Ref : log' = Append(log, r))
    PROVE  LogGrows
<1>1. log \in Seq(Ref) /\ Len(log) \in Nat
  BY DEF TypeOK
<1>2. CASE log' = log
  BY <1>2 DEF LogGrows
<1>3. ASSUME NEW r \in Ref, log' = Append(log, r) PROVE LogGrows
  BY <1>1, <1>3 DEF LogGrows
<1>4. QED
  BY <1>2, <1>3

\* Handing an object over adds it to the log.
LEMMA DispatchLogs ==
    ASSUME TypeOK, NEW id \in delivering, Dispatch(id)
    PROVE  /\ LogGrows
           /\ \E k \in 1..Len(log') : log'[k] = [page |-> doc.n, id |-> id]
<1> DEFINE r == [page |-> doc.n, id |-> id]
<1>1. log \in Seq(Ref) /\ Len(log) \in Nat /\ r \in Ref
  BY DEF TypeOK, Ref
<1>2. log' = Append(log, r)
  BY DEF Dispatch
<1>3. LogGrows
  BY <1>1, <1>2, LogGrowth
<1> HIDE DEF r
<1>4. Len(log) + 1 \in 1..Len(log') /\ log'[Len(log) + 1] = r
  BY <1>1, <1>2
<1>5. QED
  BY <1>3, <1>4 DEF r

\* The answers given so far keep their handlers.
LEMMA AnswersFrame ==
    ASSUME TypeOK, AnswerComesFromAHandler, LogGrows, fired' = fired
    PROVE  AnswerComesFromAHandler'
<1> SUFFICES ASSUME NEW i \in 1..Len(fired)
             PROVE  HandlerAnswered(fired[i])' \/ MadeUp(fired[i])'
  BY DEF AnswerComesFromAHandler, HandlerAnswered, MadeUp
<1>1. CASE MadeUp(fired[i])
  BY <1>1 DEF MadeUp
<1>2. CASE HandlerAnswered(fired[i])
  <2>1. PICK k \in 1..Len(log) : log[k] = fired[i].from
    BY <1>2 DEF HandlerAnswered
  <2>2. k \in 1..Len(log') /\ log'[k] = fired[i].from
    BY <2>1 DEF LogGrows
  <2>3. QED
    BY <1>2, <2>2 DEF HandlerAnswered
<1>3. QED
  BY <1>1, <1>2 DEF AnswerComesFromAHandler, HandlerAnswered, MadeUp

\* A closure whose object was handed over answers the object of its id, or a
\* second reading makes an answer up while loadRequest replaces the page.
LEMMA AnswersResponse ==
    ASSUME TypeOK, AnswerComesFromAHandler, log' = log,
           NEW id \in Nat, NEW from \in Ref,
           \/ from.id = id /\ \E k \in 1..Len(log) : log[k] = from
           \/ from = NoRef /\ load.kind = "remote",
           SetResponse(id, from)
    PROVE  AnswerComesFromAHandler'
<1>1. CASE fired' = fired
  <2>1. LogGrows
    BY LogGrowth
  <2>2. QED
    BY <1>1, <2>1, AnswersFrame
<1>2. ASSUME NEW b \in BOOLEAN, fired' = Append(fired, CallbackRun(id, from, b))
      PROVE  AnswerComesFromAHandler'
  <2> DEFINE e == CallbackRun(id, from, b)
  <2>1. e \in Fired /\ fired \in Seq(Fired)
    BY CallbackRunType DEF TypeOK
  <2>2. e.from = from /\ e.id = id /\ e.during = load.kind
    BY DEF CallbackRun
  <2> HIDE DEF e
  <2>3. /\ Len(fired') = Len(fired) + 1
        /\ \A i \in 1..Len(fired) : fired'[i] = fired[i]
        /\ fired'[Len(fired) + 1] = e
    BY <1>2, <2>1 DEF e
  <2>4. \A i \in 1..Len(fired') : i \in 1..Len(fired) \/ i = Len(fired) + 1
    BY <2>3, FiredTypes
  <2>5. HandlerAnswered(e) \/ MadeUp(e)
    BY <2>2 DEF HandlerAnswered, MadeUp
  <2>6. \A i \in 1..Len(fired) : HandlerAnswered(fired[i]) \/ MadeUp(fired[i])
    BY DEF AnswerComesFromAHandler, HandlerAnswered, MadeUp
  <2>7. ASSUME NEW i \in 1..Len(fired') PROVE HandlerAnswered(fired'[i]) \/ MadeUp(fired'[i])
    BY <2>3, <2>4, <2>5, <2>6
  <2>8. QED
    BY <2>7 DEF AnswerComesFromAHandler, HandlerAnswered, MadeUp
<1>3. QED
  BY <1>1, <1>2, ResponseRuns

\* The bridge's own acknowledgement runs no callback: the object has none, or
\* the page is not loaded.
LEMMA AcknowledgeFiresNothing ==
    ASSUME NEW id \in delivering, Success(id, NoRef), ~isLoaded \/ Kind(id) # "ask"
    PROVE  fired' = fired
BY DEF Success, SetResponse, Awaits

\* Using a closure, or keeping a new one whose object is in the log.
LEMMA OpenFrame ==
    ASSUME TypeOK, OpenIsLogged, LogGrows,
           \A h \in open' :
              \/ \E g \in open : h.page = g.page /\ h.id = g.id
              \/ \E k \in 1..Len(log') : log'[k] = [page |-> h.page, id |-> h.id]
    PROVE  OpenIsLogged'
<1> SUFFICES ASSUME NEW h \in open'
             PROVE  \E k \in 1..Len(log') : log'[k] = [page |-> h.page, id |-> h.id]
  BY DEF OpenIsLogged
<1>1. CASE \E k \in 1..Len(log') : log'[k] = [page |-> h.page, id |-> h.id]
  BY <1>1
<1>2. ASSUME NEW g \in open, h.page = g.page, h.id = g.id
      PROVE  \E k \in 1..Len(log') : log'[k] = [page |-> h.page, id |-> h.id]
  <2>1. PICK k \in 1..Len(log) : log[k] = [page |-> g.page, id |-> g.id]
    BY DEF OpenIsLogged
  <2>2. k \in 1..Len(log') /\ log'[k] = log[k]
    BY <2>1 DEF LogGrows
  <2>3. QED
    BY <1>2, <2>1, <2>2
<1>3. QED
  BY <1>1, <1>2

\* Steps that neither hand over, answer nor use a closure.
LEMMA HandlerFrame ==
    ASSUME TypeOK, HandlerInv, ReadIsUsed', UNCHANGED <<log, open, fired>>
    PROVE  HandlerInv'
<1>1. LogGrows
  BY LogGrowth
<1>2. QED
  BY <1>1, AnswersFrame, OpenFrame DEF HandlerInv

\* A handler answers with the closure of an object it was handed.
LEMMA HandlerAnswers ==
    ASSUME TypeOK, HandlerInv, NEW h \in open, AnswerSuccess(h) \/ AnswerError(h)
    PROVE  HandlerInv'
<1> DEFINE from == [page |-> h.page, id |-> h.id]
<1>1. h.id \in Nat /\ from \in Ref /\ from.id = h.id
  BY DEF TypeOK, Ref
<1>2. /\ UNCHANGED <<usedIDs, load, calls, objArray, log>>
      /\ UseClosure(h)
  BY DEF AnswerSuccess, AnswerError, native
<1>3. LogGrows
  BY <1>2, LogGrowth
<1>4. \E k \in 1..Len(log) : log[k] = from
  BY DEF HandlerInv, OpenIsLogged
<1>5. fired' = fired \/ SetResponse(h.id, from)
  BY DEF AnswerSuccess, AnswerError, Success
<1> HIDE DEF from
<1>6. AnswerComesFromAHandler'
  BY <1>1, <1>2, <1>3, <1>4, <1>5, AnswersFrame, AnswersResponse DEF HandlerInv
<1>7. \A g \in open' : \E f \in open : g.page = f.page /\ g.id = f.id
  BY <1>2 DEF UseClosure, TypeOK
<1>8. OpenIsLogged'
  BY <1>3, <1>7, OpenFrame DEF HandlerInv
<1>9. ReadIsUsed'
  BY <1>2 DEF HandlerInv, ReadIsUsed
<1>10. QED
  BY <1>6, <1>8, <1>9 DEF HandlerInv

\* One round of the delivery loop.
LEMMA HandlerDeliver ==
    ASSUME TypeOK, QueueInv, HandlerInv, ~raised, Deliver
    PROVE  HandlerInv'
<1>1. PICK id \in delivering :
        \/ SkipUsed(id)    \/ Reread(id)
        \/ DispatchAsk(id) \/ DispatchNotify(id)
        \/ DispatchReload(id) \/ DispatchSync(id)
  BY DEF Deliver
<1>2. doc' = doc /\ calls' = calls /\ id \in 0..(Len(calls) - 1)
  BY DEF Deliver, TypeOK
<1>3. CASE SkipUsed(id)
  <2>1. ReadIsUsed'
    BY <1>2, <1>3 DEF SkipUsed, native, HandlerInv, ReadIsUsed
  <2>2. CASE open' = open
    BY <1>3, <2>1, <2>2, HandlerFrame DEF SkipUsed
  <2>3. QED
    BY <1>3, <2>2 DEF SkipUsed
<1>4. CASE Reread(id)
  <2>1. ReadIsUsed'
    BY <1>2, <1>4 DEF Reread, HandlerInv, ReadIsUsed
  <2>2. CASE ~isLoaded
    <3>1. fired' = fired
      BY <1>4, <2>2, AcknowledgeFiresNothing DEF Reread
    <3>2. QED
      BY <1>4, <2>1, <3>1, HandlerFrame DEF Reread
  <2>3. CASE isLoaded
    <3>1. id \notin objArray /\ id \notin usedIDs /\ UNCHANGED <<log, open>>
      BY <1>4 DEF Reread
    <3>2. load.stage # "finished"
      BY <1>2, <3>1 DEF HandlerInv, ReadIsUsed
    <3>3. load.kind = "remote"
      BY <2>3, <3>2 DEF QueueInv, QueueOrder
    <3>4. SetResponse(id, NoRef) /\ id \in Nat /\ NoRef \in Ref
      BY <1>2, <1>4, <2>3 DEF Reread, Success, NoRef, Ref
    <3>5. AnswerComesFromAHandler'
      BY <3>1, <3>3, <3>4, AnswersResponse DEF HandlerInv
    <3>6. OpenIsLogged'
      BY <3>1 DEF HandlerInv, OpenIsLogged
    <3>7. QED
      BY <2>1, <3>5, <3>6 DEF HandlerInv
  <2>4. QED
    BY <2>2, <2>3
<1>5. ASSUME Dispatch(id), UNCHANGED <<load>>, usedIDs' = usedIDs \cup {id}
      PROVE  ReadIsUsed'
  BY <1>2, <1>5 DEF Dispatch, ReadObject, HandlerInv, ReadIsUsed
<1>6. ASSUME Dispatch(id), ReadIsUsed', UNCHANGED <<open, fired>>
      PROVE  HandlerInv'
  BY <1>6, DispatchLogs, AnswersFrame, OpenFrame DEF HandlerInv
<1>7. CASE DispatchAsk(id)
  <2>1. LogGrows /\ \E k \in 1..Len(log') : log'[k] = [page |-> doc.n, id |-> id]
    BY <1>7, DispatchLogs DEF DispatchAsk
  <2>2. PICK n \in {1, 2} : open' = open \cup {[page |-> doc.n, id |-> id, left |-> n]}
    BY <1>7 DEF DispatchAsk
  <2>3. OpenIsLogged'
    BY <2>1, <2>2, OpenFrame DEF HandlerInv
  <2>4. QED
    BY <1>5, <1>7, <2>1, <2>3, AnswersFrame DEF DispatchAsk, HandlerInv
<1>8. CASE DispatchNotify(id)
  <2>1. fired' = fired
    BY <1>8, AcknowledgeFiresNothing DEF DispatchNotify
  <2>2. QED
    BY <1>5, <1>6, <1>8, <2>1 DEF DispatchNotify
<1>9. CASE DispatchReload(id)
  <2>1. ReadIsUsed'
    BY <1>9 DEF DispatchReload, ResetForLoad, ReadIsUsed
  <2>2. QED
    BY <1>6, <1>9, <2>1 DEF DispatchReload
<1>10. CASE DispatchSync(id)
  <2>1. fired' = fired
    BY <1>10, AcknowledgeFiresNothing DEF DispatchSync
  <2>2. QED
    BY <1>5, <1>6, <1>10, <2>1 DEF DispatchSync
<1>11. QED
  BY <1>1, <1>3, <1>4, <1>7, <1>8, <1>9, <1>10

\* Every step preserves that answers have handlers.
LEMMA HandlerStep == TypeOK /\ QueueInv /\ HandlerInv /\ [Next]_vars => HandlerInv'
<1> SUFFICES ASSUME TypeOK, QueueInv, HandlerInv, [Next]_vars PROVE HandlerInv'
  OBVIOUS
<1>1. CASE LoadHTML
  <2>1. ReadIsUsed'
    BY <1>1 DEF LoadHTML, ResetForLoad, ReadIsUsed
  <2>2. QED
    BY <1>1, <2>1, HandlerFrame DEF LoadHTML, history
<1>2. CASE LoadRequest
  <2>1. ReadIsUsed'
    BY <1>2 DEF LoadRequest, ReadIsUsed
  <2>2. QED
    BY <1>2, <2>1, HandlerFrame DEF LoadRequest, history
<1>3. CASE ExecuteJS \/ ShouldStartLoad
  <2>1. ReadIsUsed'
    BY <1>3 DEF ExecuteJS, ShouldStartLoad, native, page, HandlerInv, ReadIsUsed
  <2>2. QED
    BY <1>3, <2>1, HandlerFrame DEF ExecuteJS, ShouldStartLoad, history
<1>4. CASE StartLoad \/ FailLoad
  <2>1. ReadIsUsed'
    BY <1>4 DEF StartLoad, FailLoad, TypeOK, ReadIsUsed
  <2>2. QED
    BY <1>4, <2>1, HandlerFrame DEF StartLoad, FailLoad, history
<1>5. CASE CommitLoad
  <2>1. Len(calls') = 0
    BY <1>5 DEF CommitLoad
  <2>2. ReadIsUsed'
    BY <2>1 DEF ReadIsUsed
  <2>3. QED
    BY <1>5, <2>2, HandlerFrame DEF CommitLoad, history
<1>6. CASE FinishLoad
  <2>1. ReadIsUsed'
    BY <1>6 DEF FinishLoad, page, TypeOK, HandlerInv, ReadIsUsed
  <2>2. QED
    BY <1>6, <2>1, HandlerFrame DEF FinishLoad
<1>7. ASSUME NEW k \in Kinds, Send(k) PROVE HandlerInv'
  <2>1. /\ objArray' = objArray \cup {Len(calls)}
        /\ calls' = Append(calls, k)
        /\ UNCHANGED <<load, usedIDs>>
    BY <1>7 DEF Send, JSBridge_objCount, native
  <2>2. Len(calls) \in Nat /\ Len(calls') = Len(calls) + 1
    BY <2>1 DEF TypeOK
  <2>3. \A id \in 0..(Len(calls') - 1) : id \in 0..(Len(calls) - 1) \/ id = Len(calls)
    BY <2>2
  <2>4. ReadIsUsed'
    BY <2>1, <2>3 DEF HandlerInv, ReadIsUsed
  <2>5. QED
    BY <1>7, <2>4, HandlerFrame DEF Send, history
<1>8. CASE Handler
  BY <1>8, HandlerAnswers DEF Handler
<1>9. ASSUME ~raised, Deliver PROVE HandlerInv'
  BY <1>9, HandlerDeliver
<1>10. CASE UNCHANGED vars
  <2>1. ReadIsUsed'
    BY <1>10 DEF vars, HandlerInv, ReadIsUsed
  <2>2. QED
    BY <1>10, <2>1, HandlerFrame DEF vars
<1>11. QED
  BY <1>1, <1>2, <1>3, <1>4, <1>5, <1>6, <1>7, <1>8, <1>9, <1>10
     DEF Next, WebView, App

\* A page callback only ever receives what a handler gave for an object of the
\* same number: the acknowledgement the bridge makes up for an object it reads a
\* second time reaches a callback only while loadRequest replaces the page.
THEOREM AnswerComesFromAHandlerCorrect == Spec => []AnswerComesFromAHandler
<1>1. Init => PageOrder /\ QueueInv /\ HandlerInv
  BY DEF Init, PageOrder, QueueInv, QueueOrder, CommandsRunOnTheirPage, Issued, InOrder,
     Newer, HandlerInv, ReadIsUsed, OpenIsLogged, AnswerComesFromAHandler
<1>2. HandlerInv => AnswerComesFromAHandler
  BY DEF HandlerInv
<1>3. QED
  BY <1>1, <1>2, TypeCorrect, PageOrderStep, QueueStep, HandlerStep, PTL DEF Spec

-----------------------------------------------------------------------------
(***************************************************************************)
(* The bridge implements the channel of module CallChannel (its safety):   *)
(* every step of the bridge is a step of the channel or none.  Three facts *)
(* carry the mapping.  The ids handed over of the present page are as many *)
(* as the log has entries for it; no document runs before the first load;  *)
(* and on the first page ids are read in ascending order, so that those    *)
(* handed over are an initial segment and only one of them is answered.    *)
(***************************************************************************)
Handled  == Cardinality(OfThisPage(log))
Answered == {fired[i].id : i \in OfThisPage(fired)}
Settled  == {fired[i].id : i \in {k \in OfThisPage(fired) : fired[k].returned}}

\* Page 0 is the empty web view of the start.
NoPage ==
    /\ doc.n = 0 => doc.kind # "html" /\ calls = <<>>
    /\ \A i \in 1..Len(log) : log[i].page > 0
    /\ \A i \in 1..Len(fired) : fired[i].page > 0
    /\ \A h \in open : h.page > 0 /\ h.page <= doc.n

\* What is still unread of the first page is listed in the URL on its way or in
\* the loop, after everything that the loop has left.
FirstPage ==
    doc.n <= 1 =>
        /\ objArray \subseteq pendingObjIDs
        /\ objArray \subseteq nav \cup delivering
        /\ usedIDs \subseteq 0..(Len(calls) - 1)
        /\ objArray \cap usedIDs = {}
        /\ \A o \in objArray, d \in delivering : o \in delivering \/ d < o
        /\ \A o \in objArray, j \in 0..(Len(calls) - 1) : o < j => j \in objArray
        /\ \A j \in 0..(Len(calls) - 1) :
              j \in objArray \/ \E k \in 1..Len(log) : log[k] = [page |-> doc.n, id |-> j]
        /\ \A h \in open : h.id \in 0..(Len(calls) - 1) \ objArray

\* The entries of the present page are finitely many.
LEMMA HandledFinite ==
    ASSUME TypeOK
    PROVE  IsFiniteSet(OfThisPage(log)) /\ Handled \in Nat
<1>1. Len(log) \in Nat
  BY DEF TypeOK
<1>2. IsFiniteSet(1..Len(log)) /\ OfThisPage(log) \in SUBSET (1..Len(log))
  BY <1>1, FS_Interval DEF OfThisPage
<1>3. IsFiniteSet(OfThisPage(log))
  BY <1>2, FS_Subset
<1>4. QED
  BY <1>3, FS_CardinalityType DEF Handled

\* Handing over an object makes one entry more.
LEMMA HandledOneMore ==
    ASSUME TypeOK, NEW id \in delivering, Dispatch(id), doc' = doc
    PROVE  Handled' = Handled + 1
<1> DEFINE r == [page |-> doc.n, id |-> id]
<1>1. log \in Seq(Ref) /\ Len(log) \in Nat /\ r \in Ref /\ r.page = doc.n
  BY DEF TypeOK, Ref
<1>2. log' = Append(log, r)
  BY DEF Dispatch
<1> HIDE DEF r
<1>3. /\ Len(log') = Len(log) + 1
      /\ \A i \in 1..Len(log) : log'[i] = log[i]
      /\ log'[Len(log) + 1] = r
  BY <1>1, <1>2
<1>4. \A i \in 1..Len(log') : i \in 1..Len(log) \/ i = Len(log) + 1
  BY <1>1, <1>3
<1>5. OfThisPage(log)' = OfThisPage(log) \cup {Len(log) + 1}
  BY <1>1, <1>3, <1>4 DEF OfThisPage
<1>6. Len(log) + 1 \notin OfThisPage(log)
  BY <1>1 DEF OfThisPage
<1>7. QED
  BY <1>5, <1>6, HandledFinite, FS_AddElement DEF Handled

\* While an object of the page is unread, not all its calls were handed over.
LEMMA HandledBelowMade ==
    ASSUME TypeOK, LogInv, NEW id \in objArray
    PROVE  Handled < Len(calls)
<1> DEFINE P == OfThisPage(log)
           Q == 0..(Len(calls) - 1)
           f == [k \in P |-> log[k].id]
<1>1. Len(calls) \in Nat /\ id \in Q
  BY DEF TypeOK
<1>2. \A k \in P : log[k].id \in Q \ {id}
  <2> TAKE k \in P
  <2>1. k \in 1..Len(log) /\ log[k].page = doc.n
    BY DEF OfThisPage
  <2>2. log[k].id \in Nat /\ log[k].id # id /\ log[k].id < Len(calls)
    BY <2>1, LogTypes DEF LogInv
  <2>3. QED
    BY <1>1, <2>2
<1>3. ASSUME NEW j \in P, NEW k \in P, log[j].id = log[k].id PROVE j = k
  <2>1. j \in 1..Len(log) /\ k \in 1..Len(log) /\ log[j].page = log[k].page
    BY DEF OfThisPage
  <2>2. log[j] \in Ref /\ log[k] \in Ref
    BY <2>1 DEF TypeOK
  <2>3. log[j] = log[k]
    BY <1>3, <2>1, <2>2 DEF Ref
  <2>4. QED
    BY <2>1, <2>3 DEF LogInv, HandedOverOnce
<1>4. f \in Injection(P, Q \ {id})
  BY <1>2, <1>3 DEF Injection, IsInjective
<1>5. IsFiniteSet(Q) /\ Cardinality(Q) = Len(calls)
  <2>1. ASSUME NEW n \in Nat PROVE IsFiniteSet(0..(n - 1)) /\ Cardinality(0..(n - 1)) = n
    BY FS_Interval
  <2>2. QED
    BY <1>1, <2>1
<1>6. IsFiniteSet(Q \ {id}) /\ Cardinality(Q \ {id}) = Len(calls) - 1
  BY <1>1, <1>5, FS_RemoveElement
<1> HIDE DEF f, P, Q
<1>7. Cardinality(P) <= Cardinality(Q \ {id})
  BY <1>4, <1>6, FS_Injection
<1>8. QED
  BY <1>1, <1>6, <1>7, HandledFinite DEF Handled, P

\* On the first page an id that was read is below the number handed over.
LEMMA ReadIsBelowHandled ==
    ASSUME TypeOK, FirstPage, doc.n <= 1, NEW i \in 0..(Len(calls) - 1), i \notin objArray
    PROVE  i < Handled
<1> DEFINE P == OfThisPage(log)
           f == [j \in 0..i |-> CHOOSE k \in P : log[k].id = j]
<1>1. i \in Nat /\ Len(calls) \in Nat /\ objArray \subseteq 0..(Len(calls) - 1)
  BY DEF TypeOK
<1>2. ASSUME NEW j \in 0..i PROVE \E k \in P : log[k].id = j
  <2>1. j \in 0..(Len(calls) - 1)
    BY <1>1
  <2>2. j \notin objArray
    BY <1>1, <2>1 DEF FirstPage
  <2>3. PICK k \in 1..Len(log) : log[k] = [page |-> doc.n, id |-> j]
    BY <2>1, <2>2 DEF FirstPage
  <2>4. k \in P /\ log[k].id = j
    BY <2>3 DEF OfThisPage
  <2>5. QED
    BY <2>4
<1>3. \A j \in 0..i : f[j] \in P /\ log[f[j]].id = j
  BY <1>2
<1>4. f \in Injection(0..i, P)
  BY <1>3 DEF Injection, IsInjective
<1>5. IsFiniteSet(0..i) /\ Cardinality(0..i) = i + 1
  BY <1>1, FS_Interval
<1> HIDE DEF f
<1>6. Cardinality(0..i) <= Cardinality(P)
  BY <1>4, HandledFinite, FS_Injection
<1>7. QED
  BY <1>1, <1>5, <1>6, HandledFinite DEF Handled

\* A page that calls has a number.
LEMMA CallersHavePages ==
    ASSUME TypeOK, NoPage, \E id \in 0..(Len(calls) - 1) : TRUE
    PROVE  doc.n > 0
<1>1. doc.n \in Nat /\ Len(calls) \in Nat
  BY DEF TypeOK
<1>2. CASE calls = <<>>
  BY <1>2
<1>3. QED
  BY <1>1, <1>2 DEF NoPage

\* Steps that only let histories be and keep the document running.
LEMMA NoPageFrame ==
    ASSUME NoPage, UNCHANGED <<calls, log, fired>>, doc'.n = doc.n, doc'.kind = doc.kind,
           \A h \in open' : \E g \in open : h.page = g.page
    PROVE  NoPage'
BY DEF NoPage

\* A response adds an entry of the present page to the callbacks, or none.
LEMMA NoPageResponse ==
    ASSUME TypeOK, NoPage, NEW id \in Nat, NEW from \in Ref, SetResponse(id, from)
    PROVE  \A i \in 1..Len(fired') : fired'[i].page > 0
<1>1. CASE fired' = fired
  BY <1>1 DEF NoPage
<1>2. ASSUME NEW b \in BOOLEAN, Awaits(id), fired' = Append(fired, CallbackRun(id, from, b))
      PROVE  \A i \in 1..Len(fired') : fired'[i].page > 0
  <2> DEFINE e == CallbackRun(id, from, b)
  <2>1. e \in Fired /\ fired \in Seq(Fired) /\ e.page = doc.n
    BY CallbackRunType DEF TypeOK, CallbackRun
  <2>2. doc.n > 0
    BY <1>2, CallersHavePages DEF TypeOK, Awaits
  <2> HIDE DEF e
  <2>3. /\ Len(fired') = Len(fired) + 1
        /\ \A i \in 1..Len(fired) : fired'[i] = fired[i]
        /\ fired'[Len(fired) + 1] = e
    BY <1>2, <2>1 DEF e
  <2>4. \A i \in 1..Len(fired') : i \in 1..Len(fired) \/ i = Len(fired) + 1
    BY <2>3, FiredTypes
  <2>5. QED
    BY <2>1, <2>2, <2>3, <2>4 DEF NoPage
<1>3. QED
  BY <1>1, <1>2, ResponseRuns

\* What is handed over is of a page with a number.
LEMMA NoPageDispatch ==
    ASSUME TypeOK, NoPage, NEW id \in delivering, Dispatch(id)
    PROVE  doc.n > 0 /\ \A i \in 1..Len(log') : log'[i].page > 0
<1> DEFINE r == [page |-> doc.n, id |-> id]
<1>1. log \in Seq(Ref) /\ Len(log) \in Nat /\ r \in Ref /\ r.page = doc.n
  BY DEF TypeOK, Ref
<1>2. doc.n > 0
  BY CallersHavePages DEF TypeOK
<1>3. log' = Append(log, r)
  BY DEF Dispatch
<1> HIDE DEF r
<1>4. /\ Len(log') = Len(log) + 1
      /\ \A i \in 1..Len(log) : log'[i] = log[i]
      /\ log'[Len(log) + 1] = r
  BY <1>1, <1>3
<1>5. \A i \in 1..Len(log') : i \in 1..Len(log) \/ i = Len(log) + 1
  BY <1>1, <1>4
<1>6. QED
  BY <1>1, <1>2, <1>4, <1>5 DEF NoPage

\* Every step preserves that page 0 is empty.
LEMMA NoPageStep == TypeOK /\ PageOrder /\ NoPage /\ [Next]_vars => NoPage'
<1> SUFFICES ASSUME TypeOK, PageOrder, NoPage, [Next]_vars PROVE NoPage'
  OBVIOUS
<1>1. CASE LoadHTML \/ LoadRequest \/ ExecuteJS
  BY <1>1, NoPageFrame DEF LoadHTML, LoadRequest, ExecuteJS, page, history
<1>2. CASE StartLoad \/ FailLoad \/ ShouldStartLoad
  BY <1>2, NoPageFrame DEF StartLoad, FailLoad, ShouldStartLoad, page, history
<1>3. CASE FinishLoad
  <2>1. doc'.n = doc.n /\ doc'.kind = doc.kind
    BY <1>3 DEF FinishLoad, TypeOK
  <2>2. QED
    BY <1>3, <2>1, NoPageFrame DEF FinishLoad, page
<1>4. CASE CommitLoad
  <2>1. doc.n \in Nat /\ load.n \in Nat /\ doc.n < load.n /\ doc'.n = load.n
    BY <1>4 DEF CommitLoad, PageOrder, TypeOK
  <2>2. UNCHANGED <<log, fired, open>>
    BY <1>4 DEF CommitLoad, history
  <2>3. \A h \in open : h.page \in Nat
    BY DEF TypeOK
  <2>4. QED
    BY <2>1, <2>2, <2>3 DEF NoPage
<1>5. ASSUME NEW k \in Kinds, Send(k) PROVE NoPage'
  <2>1. doc.n # 0 /\ UNCHANGED <<doc, log, fired, open>>
    BY <1>5 DEF Send, DocRuns, NoPage, history
  <2>2. QED
    BY <2>1 DEF NoPage
<1>6. ASSUME NEW h \in open, AnswerSuccess(h) \/ AnswerError(h) PROVE NoPage'
  <2>1. h.id \in Nat /\ [page |-> h.page, id |-> h.id] \in Ref
    BY DEF TypeOK, Ref
  <2>2. UNCHANGED <<doc, calls, log>> /\ UseClosure(h)
    BY <1>6 DEF AnswerSuccess, AnswerError
  <2>3. \A g \in open' : \E f \in open : g.page = f.page
    BY <2>2 DEF UseClosure, TypeOK
  <2>4. fired' = fired \/ SetResponse(h.id, [page |-> h.page, id |-> h.id])
    BY <1>6 DEF AnswerSuccess, AnswerError, Success
  <2>5. \A i \in 1..Len(fired') : fired'[i].page > 0
    BY <2>1, <2>4, NoPageResponse DEF NoPage
  <2>6. QED
    BY <2>2, <2>3, <2>5 DEF NoPage
<1>7. CASE Deliver
  <2>1. PICK id \in delivering :
        \/ SkipUsed(id)    \/ Reread(id)
        \/ DispatchAsk(id) \/ DispatchNotify(id)
        \/ DispatchReload(id) \/ DispatchSync(id)
    BY <1>7 DEF Deliver
  <2>2. doc' = doc /\ calls' = calls
    BY <1>7 DEF Deliver
  <2>3. id \in Nat /\ NoRef \in Ref
    BY DEF TypeOK, NoRef, Ref
  <2>4. ASSUME Success(id, NoRef) PROVE \A i \in 1..Len(fired') : fired'[i].page > 0
    BY <2>3, <2>4, NoPageResponse DEF Success, NoPage
  <2>5. CASE SkipUsed(id)
    BY <2>2, <2>5, NoPageFrame DEF SkipUsed
  <2>6. CASE Reread(id)
    <3>1. \A i \in 1..Len(fired') : fired'[i].page > 0
      BY <2>4, <2>6 DEF Reread
    <3>2. UNCHANGED <<log, open>>
      BY <2>6 DEF Reread
    <3>3. QED
      BY <2>2, <3>1, <3>2 DEF NoPage
  <2>7. ASSUME Dispatch(id) PROVE doc.n > 0 /\ \A i \in 1..Len(log') : log'[i].page > 0
    BY <2>7, NoPageDispatch
  <2>8. CASE DispatchAsk(id)
    <3>1. doc.n > 0 /\ \A i \in 1..Len(log') : log'[i].page > 0
      BY <2>7, <2>8 DEF DispatchAsk
    <3>2. fired' = fired
      BY <2>8 DEF DispatchAsk
    <3>3. \A h \in open' : h \in open \/ h.page = doc.n
      BY <2>8 DEF DispatchAsk
    <3>4. doc.n \in Nat
      BY DEF TypeOK
    <3>5. QED
      BY <2>2, <3>1, <3>2, <3>3, <3>4 DEF NoPage
  <2>9. CASE DispatchNotify(id) \/ DispatchSync(id)
    <3>1. \A i \in 1..Len(log') : log'[i].page > 0
      BY <2>7, <2>9 DEF DispatchNotify, DispatchSync
    <3>2. \A i \in 1..Len(fired') : fired'[i].page > 0
      BY <2>4, <2>9 DEF DispatchNotify, DispatchSync
    <3>3. open' = open
      BY <2>9 DEF DispatchNotify, DispatchSync
    <3>4. QED
      BY <2>2, <3>1, <3>2, <3>3 DEF NoPage
  <2>10. CASE DispatchReload(id)
    <3>1. \A i \in 1..Len(log') : log'[i].page > 0
      BY <2>7, <2>10 DEF DispatchReload
    <3>2. fired' = fired /\ open' = open
      BY <2>10 DEF DispatchReload
    <3>3. QED
      BY <2>2, <3>1, <3>2 DEF NoPage
  <2>11. QED
    BY <2>1, <2>5, <2>6, <2>8, <2>9, <2>10
<1>8. CASE UNCHANGED vars
  BY <1>8, NoPageFrame DEF vars
<1>9. QED
  BY <1>1, <1>2, <1>3, <1>4, <1>5, <1>6, <1>7, <1>8
     DEF Next, WebView, App, Handler

\* The unread objects of the first page, in three parts.
Waiting ==
    /\ objArray \subseteq pendingObjIDs
    /\ objArray \subseteq nav \cup delivering
    /\ \A o \in objArray, d \in delivering : o \in delivering \/ d < o
Used ==
    /\ usedIDs \subseteq 0..(Len(calls) - 1)
    /\ objArray \cap usedIDs = {}
    /\ \A h \in open : h.id \in 0..(Len(calls) - 1) \ objArray
Prefix ==
    /\ \A o \in objArray, j \in 0..(Len(calls) - 1) : o < j => j \in objArray
    /\ \A j \in 0..(Len(calls) - 1) :
          j \in objArray \/ \E k \in 1..Len(log) : log[k] = [page |-> doc.n, id |-> j]

LEMMA FirstPageParts == FirstPage <=> (doc.n <= 1 => Waiting /\ Used /\ Prefix)
BY DEF FirstPage, Waiting, Used, Prefix

\* Steps that read, send and answer nothing; usedIDs may be cleared.
LEMMA FirstPageFrame ==
    ASSUME FirstPage, UNCHANGED <<calls, pendingObjIDs, objArray, nav, delivering, open, log>>,
           doc'.n = doc.n, usedIDs' \subseteq usedIDs
    PROVE  FirstPage'
BY DEF FirstPage

\* The first page is committed over the empty web view of the start.
LEMMA FirstPageCommit ==
    ASSUME TypeOK, PageOrder, NoPage, FirstPage, CommitLoad
    PROVE  FirstPage'
<1> SUFFICES ASSUME doc'.n <= 1 PROVE Waiting' /\ Used' /\ Prefix'
  BY FirstPageParts DEF FirstPage, Waiting, Used, Prefix
<1>1. /\ doc.n = 0 /\ calls = <<>> /\ usedIDs' = usedIDs /\ open' = open
      /\ calls' = <<>> /\ objArray' = {} /\ delivering' = delivering
  BY DEF CommitLoad, PageOrder, TypeOK, NoPage, native
<1>2. Len(calls) = 0 /\ Len(calls') = 0 /\ 0..(0 - 1) = {}
  BY <1>1
<1>3. usedIDs = {}
  BY <1>1, <1>2 DEF FirstPage
<1>4. open = {}
  <2> SUFFICES ASSUME NEW h \in open PROVE FALSE
    OBVIOUS
  <2>1. h.page \in Nat /\ h.page > 0 /\ h.page <= 0
    BY <1>1 DEF NoPage, TypeOK
  <2>2. QED
    BY <2>1
<1>5. QED
  BY <1>1, <1>2, <1>3, <1>4 DEF Waiting, Used, Prefix

\* A call is unread, pending and listed behind all the others.
LEMMA FirstPageSend ==
    ASSUME TypeOK, FirstPage, NEW k \in Kinds, Send(k)
    PROVE  FirstPage'
<1> DEFINE n == Len(calls)
<1>1. /\ objArray' = objArray \cup {n} /\ pendingObjIDs' = pendingObjIDs \cup {n}
      /\ nav' = pendingObjIDs \cup {n} /\ calls' = Append(calls, k)
      /\ UNCHANGED <<doc, usedIDs, delivering, open, log>>
  BY DEF Send, JSBridge_objCount, NextNavigation, native, history
<1>2. n \in Nat /\ Len(calls') = n + 1
  BY <1>1 DEF TypeOK
<1> SUFFICES ASSUME doc'.n <= 1 PROVE Waiting' /\ Used' /\ Prefix'
  BY FirstPageParts DEF FirstPage, Waiting, Used, Prefix
<1>3. Waiting /\ Used /\ Prefix
  BY <1>1, FirstPageParts
<1>4. \A j \in 0..(Len(calls') - 1) : j \in 0..(Len(calls) - 1) \/ j = n
  BY <1>2
<1>5. 0..(Len(calls) - 1) \subseteq 0..(Len(calls') - 1) /\ n \notin 0..(Len(calls) - 1)
  BY <1>2
<1>6. \A d \in delivering : d < n
  BY <1>2 DEF TypeOK
<1>7. \A o \in objArray : o < n
  BY <1>2 DEF TypeOK
<1> HIDE DEF n
<1>8. Waiting'
  BY <1>1, <1>3, <1>6 DEF Waiting
<1>9. Used'
  BY <1>1, <1>3, <1>5 DEF Used
<1>10. Prefix'
  <2>1. ASSUME NEW o \in objArray', NEW j \in 0..(Len(calls') - 1), o < j
        PROVE  j \in objArray'
    <3>1. CASE j = n
      BY <1>1, <3>1
    <3>2. CASE j \in 0..(Len(calls) - 1)
      <4>1. o # n
        BY <1>2, <2>1, <3>2 DEF n
      <4>2. QED
        BY <1>1, <1>3, <2>1, <3>2, <4>1 DEF Prefix
    <3>3. QED
      BY <1>4, <3>1, <3>2
  <2>2. \A j \in 0..(Len(calls') - 1) :
            j \in objArray' \/ \E i \in 1..Len(log') : log'[i] = [page |-> doc'.n, id |-> j]
    BY <1>1, <1>3, <1>4 DEF Prefix
  <2>3. QED
    BY <2>1, <2>2 DEF Prefix
<1>11. QED
  BY <1>8, <1>9, <1>10

\* An id is skipped or read again: it is not among the unread ones.
LEMMA FirstPagePass ==
    ASSUME TypeOK, FirstPage, NEW id \in delivering, id \notin objArray,
           delivering' = delivering \ {id},
           pendingObjIDs' \in {pendingObjIDs, pendingObjIDs \ {id}},
           usedIDs' \subseteq usedIDs \cup {id},
           UNCHANGED <<doc, calls, objArray, nav, open, log>>
    PROVE  FirstPage'
<1> SUFFICES ASSUME doc'.n <= 1 PROVE Waiting' /\ Used' /\ Prefix'
  BY FirstPageParts DEF FirstPage, Waiting, Used, Prefix
<1>1. Waiting /\ Used /\ Prefix
  BY FirstPageParts
<1>2. id \in 0..(Len(calls) - 1)
  BY DEF TypeOK
<1>3. Waiting'
  BY <1>1 DEF Waiting
<1>4. Used'
  BY <1>1, <1>2 DEF Used
<1>5. Prefix'
  BY <1>1 DEF Prefix
<1>6. QED
  BY <1>3, <1>4, <1>5

\* The object handed over is the first of the unread ones.
LEMMA FirstPageDispatch ==
    ASSUME TypeOK, FirstPage, NEW id \in delivering, IsNext(id), Dispatch(id),
           delivering' = delivering \ {id},
           pendingObjIDs' \in {pendingObjIDs, pendingObjIDs \ {id}},
           usedIDs' \subseteq usedIDs \cup {id},
           \A h \in open' : h \in open \/ h.id = id,
           UNCHANGED <<doc, calls, nav>>
    PROVE  FirstPage'
<1> SUFFICES ASSUME doc'.n <= 1 PROVE Waiting' /\ Used' /\ Prefix'
  BY FirstPageParts DEF FirstPage, Waiting, Used, Prefix
<1>1. Waiting /\ Used /\ Prefix
  BY FirstPageParts
<1>2. id \in 0..(Len(calls) - 1) /\ id \in objArray /\ objArray' = objArray \ {id}
  BY DEF TypeOK, Dispatch, ReadObject
<1>3. \A o \in objArray' : id < o
  <2> TAKE o \in objArray'
  <2>1. o \in objArray /\ o # id /\ o \in Nat /\ id \in Nat
    BY <1>2 DEF TypeOK
  <2>2. CASE o \in delivering
    BY <2>1, <2>2 DEF IsNext
  <2>3. CASE o \notin delivering
    BY <1>1, <2>1, <2>3 DEF Waiting
  <2>4. QED
    BY <2>2, <2>3
<1>4. Waiting'
  BY <1>1, <1>2 DEF Waiting
<1>5. Used'
  BY <1>1, <1>2 DEF Used
<1>6. Prefix'
  <2>1. ASSUME NEW o \in objArray', NEW j \in 0..(Len(calls) - 1), o < j
        PROVE  j \in objArray'
    <3>1. j \in objArray
      BY <1>1, <1>2, <2>1 DEF Prefix
    <3>2. id < o /\ id \in Int /\ o \in Int /\ j \in Int
      BY <1>2, <1>3, <2>1 DEF TypeOK
    <3>3. QED
      BY <1>2, <2>1, <3>1, <3>2
  <2>2. ASSUME NEW j \in 0..(Len(calls) - 1)
        PROVE  j \in objArray' \/ \E k \in 1..Len(log') : log'[k] = [page |-> doc.n, id |-> j]
    <3>1. CASE j = id
      BY <3>1, DispatchLogs
    <3>2. CASE j # id /\ j \in objArray
      BY <1>2, <3>2
    <3>3. CASE j \notin objArray
      <4>1. PICK k \in 1..Len(log) : log[k] = [page |-> doc.n, id |-> j]
        BY <1>1, <3>3 DEF Prefix
      <4>2. k \in 1..Len(log') /\ log'[k] = log[k]
        BY <4>1, DispatchLogs DEF LogGrows
      <4>3. QED
        BY <4>1, <4>2
    <3>4. QED
      BY <3>1, <3>2, <3>3
  <2>3. QED
    BY <2>1, <2>2 DEF Prefix
<1>7. QED
  BY <1>4, <1>5, <1>6

\* Every step preserves the order of the first page.
LEMMA FirstPageStep ==
    TypeOK /\ PageOrder /\ NoPage /\ FirstPage /\ [Next]_vars => FirstPage'
<1> SUFFICES ASSUME TypeOK, PageOrder, NoPage, FirstPage, [Next]_vars PROVE FirstPage'
  OBVIOUS
<1>1. CASE LoadHTML
  BY <1>1, FirstPageFrame DEF LoadHTML, ResetForLoad, page, history
<1>2. CASE LoadRequest \/ ExecuteJS
  BY <1>2, FirstPageFrame DEF LoadRequest, ExecuteJS, native, page, history
<1>3. CASE StartLoad \/ FailLoad
  BY <1>3, FirstPageFrame DEF StartLoad, FailLoad, native, page, history
<1>4. CASE FinishLoad
  <2>1. doc'.n = doc.n
    BY <1>4 DEF FinishLoad, TypeOK
  <2>2. QED
    BY <1>4, <2>1, FirstPageFrame DEF FinishLoad, page
<1>5. CASE CommitLoad
  BY <1>5, FirstPageCommit
<1>6. ASSUME NEW k \in Kinds, Send(k) PROVE FirstPage'
  BY <1>6, FirstPageSend
<1>7. CASE ShouldStartLoad
  <2>1. /\ delivering = {} /\ delivering' = nav
        /\ UNCHANGED <<doc, calls, pendingObjIDs, objArray, usedIDs, open, log>>
    BY <1>7 DEF ShouldStartLoad, MainIdle, native, history
  <2>2. QED
    BY <2>1 DEF FirstPage
<1>8. ASSUME NEW h \in open, AnswerSuccess(h) \/ AnswerError(h) PROVE FirstPage'
  <2>1. /\ UNCHANGED <<doc, calls, objArray, nav, delivering, usedIDs, log>>
        /\ UseClosure(h)
    BY <1>8 DEF AnswerSuccess, AnswerError, native
  <2>2. pendingObjIDs' \in {pendingObjIDs, pendingObjIDs \ {h.id}}
    BY <1>8 DEF AnswerSuccess, AnswerError, Success, SetResponse
  <2>3. \A g \in open' : \E f \in open : g.id = f.id
    BY <2>1 DEF UseClosure, TypeOK
  <2>4. QED
    BY <2>1, <2>2, <2>3 DEF FirstPage
<1>9. CASE Deliver
  <2>1. PICK id \in delivering :
        /\ IsNext(id) /\ delivering' = delivering \ {id}
        /\ \/ SkipUsed(id)    \/ Reread(id)
           \/ DispatchAsk(id) \/ DispatchNotify(id)
           \/ DispatchReload(id) \/ DispatchSync(id)
    BY <1>9 DEF Deliver
  <2>2. doc' = doc /\ calls' = calls /\ nav' = nav
    BY <1>9 DEF Deliver
  <2>3. ASSUME Success(id, NoRef)
        PROVE  pendingObjIDs' \in {pendingObjIDs, pendingObjIDs \ {id}}
    BY <2>3 DEF Success, SetResponse
  <2>4. CASE SkipUsed(id)
    <3>1. CASE doc.n <= 1
      <4>1. id \notin objArray
        BY <2>4, <3>1 DEF SkipUsed, FirstPage
      <4>2. QED
        BY <2>1, <2>2, <2>4, <4>1, FirstPagePass DEF SkipUsed, native
    <3>2. QED
      BY <2>2, <3>1 DEF FirstPage
  <2>5. CASE Reread(id)
    BY <2>1, <2>2, <2>3, <2>5, FirstPagePass DEF Reread
  <2>6. CASE DispatchAsk(id)
    <3>1. \A h \in open' : h \in open \/ h.id = id
      BY <2>6 DEF DispatchAsk
    <3>2. QED
      BY <2>1, <2>2, <2>6, <3>1, FirstPageDispatch DEF DispatchAsk
  <2>7. CASE DispatchNotify(id) \/ DispatchSync(id)
    BY <2>1, <2>2, <2>3, <2>7, FirstPageDispatch DEF DispatchNotify, DispatchSync
  <2>8. CASE DispatchReload(id)
    BY <2>1, <2>2, <2>8, FirstPageDispatch DEF DispatchReload, ResetForLoad
  <2>9. QED
    BY <2>1, <2>4, <2>5, <2>6, <2>7, <2>8
<1>10. CASE UNCHANGED vars
  BY <1>10, FirstPageFrame DEF vars
<1>11. QED
  BY <1>1, <1>2, <1>3, <1>4, <1>5, <1>6, <1>7, <1>8, <1>9, <1>10
     DEF Next, WebView, App, Handler

-----------------------------------------------------------------------------
\* The invariant the refinement rests on.
ChannelInv == TypeOK /\ PageOrder /\ LogInv /\ FiredInv /\ NoPage /\ FirstPage

\* Neither history has a new entry and the page stays: the channel sees the
\* same calls handed over and the same answers.
LEMMA HandledFrame ==
    ASSUME log' = log, doc'.n = doc.n
    PROVE  Handled' = Handled
BY DEF Handled, OfThisPage

LEMMA AnsweredFrame ==
    ASSUME fired' = fired, doc'.n = doc.n
    PROVE  Answered' = Answered /\ Settled' = Settled
BY DEF Answered, Settled, OfThisPage

\* A step the channel does not see, but for the end of the app.
LEMMA ChannelIdle ==
    ASSUME ~raised, raised' \in BOOLEAN, UNCHANGED <<calls, log, fired>>, doc'.n = doc.n
    PROVE  Channel!Next
<1>1. Handled' = Handled /\ Answered' = Answered /\ Settled' = Settled
  BY HandledFrame, AnsweredFrame
<1>2. QED
  BY <1>1 DEF Channel!Next, Handled, Answered, Settled

\* bridge.js stores a call.
LEMMA ChannelMakes ==
    ASSUME ChannelInv, ~raised, NEW k \in Kinds, Send(k)
    PROVE  Channel!Next
<1>1. /\ Len(calls') = Len(calls) + 1
      /\ UNCHANGED <<doc, log, fired, raised>>
  BY DEF Send, ChannelInv, TypeOK, history
<1>2. Handled' = Handled /\ Answered' = Answered /\ Settled' = Settled
  BY <1>1, HandledFrame, AnsweredFrame
<1>3. Channel!Make
  BY <1>1, <1>2 DEF Channel!Make, Handled, Answered, Settled
<1>4. raised' \in BOOLEAN
  BY <1>1 DEF ChannelInv, TypeOK
<1>5. QED
  BY <1>3, <1>4 DEF Channel!Next

\* The delegate is handed an object.
LEMMA ChannelHandles ==
    ASSUME ChannelInv, ~raised, raised' \in BOOLEAN, NEW id \in delivering, Dispatch(id),
           UNCHANGED <<doc, calls, fired>>
    PROVE  Channel!Next
<1>1. Handled' = Handled + 1
  BY HandledOneMore DEF ChannelInv
<1>2. Handled < Len(calls)
  BY HandledBelowMade DEF ChannelInv, Dispatch, ReadObject
<1>3. Answered' = Answered /\ Settled' = Settled
  BY AnsweredFrame
<1>4. Channel!Handle
  BY <1>1, <1>2, <1>3 DEF Channel!Handle, Handled, Answered, Settled
<1>5. QED
  BY <1>4 DEF Channel!Next

\* JSBridge_setResponseWithId runs the callback of an id that was read if the
\* page is the first, and of any pending id otherwise.
LEMMA ChannelAnswers ==
    ASSUME ChannelInv, ~raised, raised' \in BOOLEAN, NEW id \in Nat, NEW from \in Ref,
           SetResponse(id, from), doc.n <= 1 => id \notin objArray,
           UNCHANGED <<doc, calls, log>>
    PROVE  Channel!Next
<1>1. CASE fired' = fired
  BY <1>1, ChannelIdle
<1>2. ASSUME NEW b \in BOOLEAN, Awaits(id), fired' = Append(fired, CallbackRun(id, from, b))
      PROVE  Channel!Next
  <2> DEFINE e == CallbackRun(id, from, b)
  <2>1. e \in Fired /\ fired \in Seq(Fired) /\ Len(fired) \in Nat
    BY CallbackRunType DEF ChannelInv, TypeOK
  <2>2. /\ e.page = doc.n /\ e.id = id /\ e.returned = b
        /\ id \in 0..(Len(calls) - 1) /\ Len(calls) \in Nat /\ doc.n \in Nat
    BY <1>2 DEF ChannelInv, TypeOK, CallbackRun, Awaits
  <2> HIDE DEF e
  <2>3. /\ Len(fired') = Len(fired) + 1
        /\ \A i \in 1..Len(fired) : fired'[i] = fired[i]
        /\ fired'[Len(fired) + 1] = e
    BY <1>2, <2>1 DEF e
  <2>4. \A i \in 1..Len(fired') : i \in 1..Len(fired) \/ i = Len(fired) + 1
    BY <2>1, <2>3
  <2>5. OfThisPage(fired)' = OfThisPage(fired) \cup {Len(fired) + 1}
    BY <2>1, <2>2, <2>3, <2>4 DEF OfThisPage
  <2>6. \A i \in OfThisPage(fired) : fired'[i] = fired[i]
    BY <2>3 DEF OfThisPage
  <2>7. Answered' = Answered \cup {id}
    BY <2>2, <2>3, <2>5, <2>6 DEF Answered
  <2>8. Settled' \in {Settled, Settled \cup {id}}
    <3>1. {k \in OfThisPage(fired)' : fired'[k].returned}
              = {k \in OfThisPage(fired) : fired[k].returned}
                    \cup (IF b THEN {Len(fired) + 1} ELSE {})
      BY <2>2, <2>3, <2>5, <2>6
    <3>2. CASE b
      BY <2>2, <2>3, <2>6, <3>1, <3>2 DEF Settled
    <3>3. CASE ~b
      BY <2>6, <3>1, <3>3 DEF Settled
    <3>4. QED
      BY <3>2, <3>3
  <2>9. id \notin Settled
    BY <1>2 DEF Settled, OfThisPage, ChannelInv, FiredInv, Awaits
  <2>10. id < (IF doc.n > 1 THEN Len(calls) ELSE Handled)
    BY <2>2, ReadIsBelowHandled DEF ChannelInv
  <2>11. Handled' = Handled
    BY HandledFrame
  <2>12. Channel!Answer(id)
    BY <2>7, <2>8, <2>9, <2>10, <2>11 DEF Channel!Answer, Handled, Answered, Settled
  <2>13. QED
    BY <2>2, <2>12 DEF Channel!Next
<1>3. QED
  BY <1>1, <1>2, ResponseRuns

\* A document is replaced: the channel starts anew, or nothing had happened.
LEMMA ChannelReplaced ==
    ASSUME ChannelInv, ~raised, CommitLoad
    PROVE  Channel!Next
<1>1. /\ UNCHANGED <<log, fired, raised>> /\ calls' = <<>> /\ Len(calls') = 0
      /\ doc.n \in Nat /\ doc'.n \in Nat /\ doc.n < doc'.n
  BY DEF CommitLoad, PageOrder, ChannelInv, TypeOK, history
<1>2. \A i \in 1..Len(log) : log[i].page # doc'.n
  BY <1>1, LogTypes DEF ChannelInv, LogInv
<1>3. \A i \in 1..Len(fired) : fired[i].page # doc'.n
  BY <1>1, FiredTypes DEF ChannelInv, FiredInv
<1>4. OfThisPage(log)' = {} /\ OfThisPage(fired)' = {}
  BY <1>1, <1>2, <1>3 DEF OfThisPage
<1>5. Handled' = 0 /\ Answered' = {} /\ Settled' = {}
  BY <1>4, FS_EmptySet DEF Handled, Answered, Settled
<1>6. CASE doc'.n > 1
  <2>1. Channel!Replace
    BY <1>1, <1>5, <1>6 DEF Channel!Replace, Handled, Answered, Settled
  <2>2. QED
    BY <1>1, <2>1 DEF Channel!Next, ChannelInv, TypeOK
<1>7. CASE doc'.n <= 1
  <2>1. doc.n = 0 /\ ~(doc.n > 1) /\ ~(doc'.n > 1)
    BY <1>1, <1>7
  <2>2. calls = <<>> /\ Len(calls) = 0
    BY <2>1 DEF ChannelInv, NoPage
  <2>3. OfThisPage(log) = {} /\ OfThisPage(fired) = {}
    BY <2>1 DEF OfThisPage, ChannelInv, NoPage
  <2>4. Handled = 0 /\ Answered = {} /\ Settled = {}
    BY <2>3, FS_EmptySet DEF Handled, Answered, Settled
  <2>5. UNCHANGED <<Len(calls), Handled, Answered, Settled, doc.n > 1>>
    BY <1>1, <1>5, <2>1, <2>2, <2>4
  <2>6. raised' \in BOOLEAN
    BY <1>1 DEF ChannelInv, TypeOK
  <2>7. QED
    BY <2>5, <2>6 DEF Channel!Next, Handled, Answered, Settled
<1>8. QED
  BY <1>1, <1>6, <1>7

\* Every step of the bridge is a step of the channel, or none.
LEMMA ChannelStep ==
    ChannelInv /\ [Next]_vars => [Channel!Next]_(Channel!vars)
<1> SUFFICES ASSUME ChannelInv, [Next]_vars PROVE [Channel!Next]_(Channel!vars)
  OBVIOUS
<1>1. CASE UNCHANGED vars
  <2>1. Handled' = Handled /\ Answered' = Answered /\ Settled' = Settled
    BY <1>1, HandledFrame, AnsweredFrame DEF vars
  <2>2. QED
    BY <1>1, <2>1 DEF vars, Channel!vars, Handled, Answered, Settled
<1>2. ASSUME Next PROVE Channel!Next
  <2>1. ~raised /\ raised \in BOOLEAN
    BY <1>2 DEF Next, ChannelInv, TypeOK
  <2>2. CASE LoadHTML \/ LoadRequest \/ ExecuteJS \/ StartLoad \/ FailLoad \/ ShouldStartLoad
    BY <2>1, <2>2, ChannelIdle
       DEF LoadHTML, LoadRequest, ExecuteJS, StartLoad, FailLoad, ShouldStartLoad, page,
           history
  <2>3. CASE FinishLoad
    <3>1. doc'.n = doc.n
      BY <2>3 DEF FinishLoad, ChannelInv, TypeOK
    <3>2. raised' \in BOOLEAN /\ UNCHANGED <<calls, log, fired>>
      BY <2>1, <2>3 DEF FinishLoad, FlushQueue, FlushInterrupted, page
    <3>3. QED
      BY <2>1, <3>1, <3>2, ChannelIdle
  <2>4. CASE CommitLoad
    BY <2>1, <2>4, ChannelReplaced
  <2>5. ASSUME NEW k \in Kinds, Send(k) PROVE Channel!Next
    BY <2>1, <2>5, ChannelMakes
  <2>6. ASSUME NEW h \in open, AnswerSuccess(h) \/ AnswerError(h) PROVE Channel!Next
    <3>1. h.id \in Nat /\ [page |-> h.page, id |-> h.id] \in Ref
      BY DEF ChannelInv, TypeOK, Ref
    <3>2. doc.n <= 1 => h.id \notin objArray
      BY DEF ChannelInv, FirstPage
    <3>3. UNCHANGED <<doc, calls, log>> /\ raised' \in BOOLEAN
      BY <2>1, <2>6 DEF AnswerSuccess, AnswerError
    <3>4. fired' = fired \/ SetResponse(h.id, [page |-> h.page, id |-> h.id])
      BY <2>6 DEF AnswerSuccess, AnswerError, Success
    <3>5. QED
      BY <2>1, <3>1, <3>2, <3>3, <3>4, ChannelIdle, ChannelAnswers
  <2>7. CASE Deliver
    <3>1. PICK id \in delivering :
          \/ SkipUsed(id)    \/ Reread(id)
          \/ DispatchAsk(id) \/ DispatchNotify(id)
          \/ DispatchReload(id) \/ DispatchSync(id)
      BY <2>7 DEF Deliver
    <3>2. doc' = doc /\ calls' = calls
      BY <2>7 DEF Deliver
    <3>3. id \in Nat /\ NoRef \in Ref
      BY DEF ChannelInv, TypeOK, NoRef, Ref
    <3>4. CASE SkipUsed(id)
      BY <2>1, <3>2, <3>4, ChannelIdle DEF SkipUsed
    <3>5. CASE Reread(id)
      <4>1. id \notin objArray /\ UNCHANGED <<log, raised>>
        BY <3>5 DEF Reread
      <4>2. fired' = fired \/ SetResponse(id, NoRef)
        BY <3>5 DEF Reread, Success
      <4>3. QED
        BY <2>1, <3>2, <3>3, <4>1, <4>2, ChannelIdle, ChannelAnswers
    <3>6. CASE DispatchAsk(id) \/ DispatchReload(id)
      BY <2>1, <3>2, <3>6, ChannelHandles DEF DispatchAsk, DispatchReload
    <3>7. CASE DispatchNotify(id)
      <4>1. fired' = fired
        BY <3>7, AcknowledgeFiresNothing DEF DispatchNotify
      <4>2. QED
        BY <2>1, <3>2, <3>7, <4>1, ChannelHandles DEF DispatchNotify
    <3>8. CASE DispatchSync(id)
      <4>1. fired' = fired
        BY <3>8, AcknowledgeFiresNothing DEF DispatchSync
      <4>2. raised' \in BOOLEAN
        BY <3>8 DEF DispatchSync, ChannelInv, TypeOK
      <4>3. QED
        BY <2>1, <3>2, <3>8, <4>1, <4>2, ChannelHandles DEF DispatchSync
    <3>9. QED
      BY <3>1, <3>4, <3>5, <3>6, <3>7, <3>8
  <2>8. QED
    BY <1>2, <2>2, <2>3, <2>4, <2>5, <2>6, <2>7 DEF Next, WebView, App, Handler
<1>3. QED
  BY <1>1, <1>2

\* The bridge implements the channel: whatever loads, fails or is replaced,
\* the page's calls are handed over one by one and at most once, a callback that
\* returned settles its call, and on the first page callbacks run only after the
\* call was handed over.
\* With its liveness, which TLC checks, this is the property ImplementsChannel.
THEOREM BridgeIsAChannel == Spec => Channel!Safety
<1>1. Init => ChannelInv
  <2>1. Init => TypeOK
    BY TypeInit
  <2>2. Init => PageOrder /\ LogInv /\ FiredInv /\ NoPage
    BY DEF Init, PageOrder, LogInv, HandedOverOnce, FiredInv, CallbackReturnsOnce, NoPage
  <2>3. Init => FirstPage
    BY DEF Init, FirstPage
  <2>4. QED
    BY <2>1, <2>2, <2>3 DEF ChannelInv
<1>2. Init => Channel!Init
  <2> SUFFICES ASSUME Init PROVE Channel!Init
    OBVIOUS
  <2>1. Len(calls) = 0 /\ ~(doc.n > 1) /\ raised = FALSE
    BY DEF Init
  <2>2. OfThisPage(log) = {} /\ OfThisPage(fired) = {}
    BY DEF Init, OfThisPage
  <2>3. QED
    BY <2>1, <2>2, FS_EmptySet DEF Channel!Init
<1>3. ChannelInv /\ [Next]_vars => ChannelInv'
  BY TypeStep, PageOrderStep, LogStep, FiredStep, NoPageStep, FirstPageStep DEF ChannelInv
<1>4. QED
  BY <1>1, <1>2, <1>3, ChannelStep, PTL DEF Spec, Channel!Safety
=============================================================================
