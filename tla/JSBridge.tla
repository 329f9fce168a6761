------------------------------ MODULE JSBridge ------------------------------
(***************************************************************************)
(* The bridge between Objective-C and the wallet page: JSBridgeWebView     *)
(* (native side) and js/bridge.js (page side).                             *)
(*                                                                         *)
(* The page calls native code by storing a JSON object under a numeric id  *)
(* and navigating to a fake URL that lists every id still without a        *)
(* response.  The web view intercepts the navigation, reads each object it *)
(* has not used yet, invokes the delegate's selector, and the delegate     *)
(* answers through a closure that captured only the id.  Native code runs  *)
(* JavaScript at once when the page is loaded and queues it otherwise.     *)
(* loadHTMLString replaces the page, and everything of it, at any time.    *)
(*                                                                         *)
(* The page is served by UIKit's UIWebView (not in this repository): a     *)
(* load is requested, asks its policy callback, commits (the new document  *)
(* replaces the old one) and finishes; a superseded load never finishes.   *)
(***************************************************************************)
EXTENDS Integers, Sequences, FiniteSets

CONSTANTS
    LoadKinds,       \* "html": loadHTMLString, "remote": loadRequest
    RunsUntilCommit, \* does the old document run between policy and commit?
    MaxLoads,        \* bound on page loads
    MaxCalls,        \* bound on bridge calls of one page
    MaxCommands      \* bound on JavaScript commands of native code

ASSUME JSBridgeAssumption ==
    /\ LoadKinds \subseteq {"html", "remote"}
    /\ RunsUntilCommit \in BOOLEAN
    /\ MaxLoads \in Nat /\ MaxCalls \in Nat /\ MaxCommands \in Nat

VARIABLES
    isLoaded,          \* JSBridgeWebView.isLoaded
    pending_commands,  \* commands queued until the page is loaded
    usedIDs,           \* ids already read since the last cleared set
    load,              \* the last load requested from the web view
    doc,               \* the document now in the web view
    calls,             \* kind of each object sent by doc (JSBridge_objCount = Len)
    pendingObjIDs,     \* ids of doc without a response
    objArray,          \* ids of doc whose JSON was not read yet
    nav,               \* ids listed in the navigation not yet seen by the delegate
    delivering,        \* ids the loop of shouldStartLoadWithRequest has left
    open,              \* success/error closures held by native handlers
    raised,            \* an NSException left the bridge
    issued,            \* number of commands issued so far
    ran,               \* history: commands evaluated, with the page they met
    log,               \* history: objects handed to the delegate
    fired              \* history: page callbacks run, with the closure used,
                       \* the kind of the last load and whether they returned

native  == <<isLoaded, pending_commands, usedIDs>>
page    == <<calls, pendingObjIDs, objArray, nav>>
history == <<ran, log, fired>>
vars == <<isLoaded, pending_commands, usedIDs, load, doc, calls, pendingObjIDs,
          objArray, nav, delivering, open, raised, issued, ran, log, fired>>

-----------------------------------------------------------------------------
\* The three shapes of a call: no callback (acknowledged by the bridge), with
\* callbacks, and without callbacks but with a handler that evaluates
\* JavaScript synchronously (did_decrypt).
Kinds  == {"notify", "ask", "sync"}
Stages == {"requested", "started", "committed", "finished", "failed"}

DocKinds == {"none", "html", "remote"}

\* A command is issued for the last load requested, which is of some kind, and
\* evaluated on a page; a callback runs on a page with the answer of a closure.
Command  == [cmd : Nat, for : Nat, kind : DocKinds]
Ran      == [cmd : Nat, for : Nat, kind : DocKinds, page : Nat, shown : DocKinds]
Ref      == [page : Nat, id : Nat]
Fired    == [page : Nat, id : Nat, from : Ref, during : DocKinds, returned : BOOLEAN]
NoRef   == [page |-> 0, id |-> 0]   \* page 0 never sends

\* The loop takes the ids as Object.keys lists them: in ascending order.
IsNext(id) == \A j \in delivering : id <= j

Kind(id) == calls[id + 1]

\* The document still runs: it is the latest one, or the next was not started.
DocRuns == doc.kind = "html" /\ (RunsUntilCommit \/ load.stage # "started")

\* The main thread is inside no loop over delivered ids.
MainIdle == delivering = {}

Init ==
    /\ isLoaded = FALSE /\ pending_commands = <<>> /\ usedIDs = {}
    /\ load = [n |-> 0, kind |-> "none", stage |-> "finished"]
    /\ doc = [n |-> 0, kind |-> "none", ready |-> FALSE]
    /\ calls = <<>> /\ pendingObjIDs = {} /\ objArray = {} /\ nav = {}
    /\ delivering = {} /\ open = {} /\ raised = FALSE /\ issued = 0
    /\ ran = <<>> /\ log = <<>> /\ fired = <<>>

-----------------------------------------------------------------------------
\* Loading.

\* Mutant of ResetForLoad: the queue of the replaced page survives.
ResetKeepingQueue ==
    /\ isLoaded' = FALSE
    /\ usedIDs' = {}
    /\ load' = [n |-> load.n + 1, kind |-> "html", stage |-> "requested"]
    /\ UNCHANGED pending_commands

\* loadHTMLString:baseURL: forgets what was queued and used, then loads.
ResetForLoad ==
    /\ isLoaded' = FALSE
    /\ pending_commands' = <<>>
    /\ usedIDs' = {}
    /\ load' = [n |-> load.n + 1, kind |-> "html", stage |-> "requested"]

LoadHTML ==
    /\ "html" \in LoadKinds /\ load.n < MaxLoads
    /\ ResetForLoad
    /\ UNCHANGED <<doc, page, delivering, open, raised, issued, history>>

\* loadRequest: is inherited from UIWebView: the bridge's own state stays.
LoadRequest ==
    /\ "remote" \in LoadKinds /\ load.n < MaxLoads
    /\ load' = [n |-> load.n + 1, kind |-> "remote", stage |-> "requested"]
    /\ UNCHANGED <<native, doc, page, delivering, open, raised, issued, history>>

\* shouldStartLoadWithRequest: for any URL that is not a bridge URL.
StartLoad ==
    /\ load.stage = "requested" /\ MainIdle
    /\ usedIDs' = {}
    /\ load' = [load EXCEPT !.stage = "started"]
    /\ UNCHANGED <<isLoaded, pending_commands, doc, page, delivering, open,
                   raised, issued, history>>

\* The new document replaces the old one and bridge.js starts afresh.
CommitLoad ==
    /\ load.stage = "started" /\ MainIdle
    /\ load' = [load EXCEPT !.stage = "committed"]
    /\ doc' = [n |-> load.n, kind |-> load.kind, ready |-> FALSE]
    /\ calls' = <<>> /\ pendingObjIDs' = {} /\ objArray' = {} /\ nav' = {}
    /\ UNCHANGED <<native, delivering, open, raised, issued, history>>

\* didFailLoadWithError: is only forwarded; the old document stays.
FailLoad ==
    /\ load.kind = "remote" /\ load.stage = "started" /\ MainIdle
    /\ load' = [load EXCEPT !.stage = "failed"]
    /\ UNCHANGED <<native, doc, page, delivering, open, raised, issued, history>>

\* The effect of evaluating a sequence of commands on the current document.
Evaluated(cmds) ==
    ran \o [i \in 1..Len(cmds) |->
               [cmd |-> cmds[i].cmd, for |-> cmds[i].for, kind |-> cmds[i].kind,
                page |-> doc.n, shown |-> doc.kind]]

\* The next command of native code.
NewCommand == [cmd |-> issued + 1, for |-> load.n, kind |-> load.kind]

\* Mutant of FlushQueue: the queue is not run.
FlushNothing == isLoaded' = TRUE /\ UNCHANGED <<ran, pending_commands, raised, issued>>

\* The loop of webViewDidFinishLoad: over the queue: each command is evaluated,
\* then its callback is run; the queue is emptied and the page is loaded.
FlushQueue ==
    /\ ran' = Evaluated(pending_commands)
    /\ pending_commands' = <<>>
    /\ isLoaded' = TRUE
    /\ UNCHANGED <<raised, issued>>

\* A callback that calls executeJS meanwhile appends to the queue the loop
\* enumerates, which raises: what follows is neither run nor removed.
FlushInterrupted ==
    /\ issued < MaxCommands
    /\ \E n \in 1..Len(pending_commands) :
           ran' = Evaluated(SubSeq(pending_commands, 1, n))
    /\ issued' = issued + 1
    /\ pending_commands' = Append(pending_commands, NewCommand)
    /\ raised' = TRUE
    /\ UNCHANGED isLoaded

\* webViewDidFinishLoad: runs what was queued and only then is loaded.
FinishLoad ==
    /\ load.stage = "committed" /\ MainIdle
    /\ load' = [load EXCEPT !.stage = "finished"]
    /\ doc' = [doc EXCEPT !.ready = TRUE]
    /\ FlushQueue \/ FlushInterrupted
    /\ UNCHANGED <<usedIDs, page, delivering, open, log, fired>>

\* executeJS and executeJSWithCallback.
ExecuteJS ==
    /\ issued < MaxCommands
    /\ issued' = issued + 1
    /\ \/ /\ isLoaded
          /\ ran' = Evaluated(<<NewCommand>>)
          /\ UNCHANGED pending_commands
       \/ /\ ~isLoaded
          /\ pending_commands' = Append(pending_commands, NewCommand)
          /\ UNCHANGED ran
    /\ UNCHANGED <<isLoaded, usedIDs, load, doc, page, delivering, open, raised,
                   log, fired>>

-----------------------------------------------------------------------------
\* Calls of the page.

\* Mutants of NextNavigation and of JSBridge_objCount.
OnlyTheNewest(pending) == {Len(calls)}
JSBridge_objCount == Len(calls)

\* The URL names every id still pending; assigning location.href again
\* replaces a navigation that has not been seen yet.
NextNavigation(pending) == pending

\* device.execute / sendBridgeObject.  A password is set, hence a wallet
\* decrypted, only on a document that finished loading.
Send(kind) ==
    /\ DocRuns /\ Len(calls) < MaxCalls
    /\ kind = "sync" => doc.ready
    /\ LET id == JSBridge_objCount IN
         /\ calls' = Append(calls, kind)
         /\ objArray' = objArray \cup {id}
         /\ pendingObjIDs' = pendingObjIDs \cup {id}
         /\ nav' = NextNavigation(pendingObjIDs \cup {id})
    /\ UNCHANGED <<native, load, doc, delivering, open, raised, issued, history>>

\* shouldStartLoadWithRequest: for a bridge URL: the loop over its ids begins.
ShouldStartLoad ==
    /\ DocRuns /\ MainIdle /\ nav # {}
    /\ delivering' = nav
    /\ nav' = {}
    /\ UNCHANGED <<native, load, doc, calls, pendingObjIDs, objArray, open,
                   raised, issued, history>>

\* The object is pending and has a callback; the run of it.
Awaits(id) == id \in pendingObjIDs /\ Kind(id) = "ask"
CallbackRun(id, from, returned) ==
    [page |-> doc.n, id |-> id, from |-> from, during |-> load.kind,
     returned |-> returned]

\* Mutant of SetResponse: the id stays pending.
RespondAndKeep(id, from) ==
    /\ fired' = IF Awaits(id) THEN Append(fired, CallbackRun(id, from, TRUE)) ELSE fired
    /\ UNCHANGED pendingObjIDs

\* JSBridge_setResponseWithId(id, ...): the page's callback runs if the id is
\* pending and has one, and then the id is no longer pending; a callback that
\* throws leaves the function before that.
SetResponse(id, from) ==
    \/ /\ fired' = IF Awaits(id) THEN Append(fired, CallbackRun(id, from, TRUE)) ELSE fired
       /\ pendingObjIDs' = pendingObjIDs \ {id}
    \/ /\ Awaits(id)
       /\ fired' = Append(fired, CallbackRun(id, from, FALSE))
       /\ UNCHANGED pendingObjIDs

\* Mutant of Success: isLoaded is not looked at.
SuccessUnchecked(id, from) == SetResponse(id, from)

\* container.success does nothing while the page is not loaded.
Success(id, from) ==
    \/ isLoaded /\ SetResponse(id, from)
    \/ ~isLoaded /\ UNCHANGED <<pendingObjIDs, fired>>

\* An id met before is skipped.
SkipUsed(id) ==
    /\ id \in usedIDs
    /\ UNCHANGED <<native, load, pendingObjIDs, objArray, open, raised, log, fired>>

\* A second reading of an object yields "null": no function to invoke and no
\* callbacks announced, so the bridge itself reports success.
Reread(id) ==
    /\ id \notin usedIDs /\ id \notin objArray
    /\ usedIDs' = usedIDs \cup {id}
    /\ Success(id, NoRef)
    /\ UNCHANGED <<isLoaded, pending_commands, load, objArray, open, raised, log>>

\* Mutant of ReadObject: the object stays in JSBridge_objArray.
ReadAndKeep(id) == id \in objArray /\ UNCHANGED objArray

\* JSBridge_getJsonStringForObjectWithId nulls the object it returns.
ReadObject(id) == id \in objArray /\ objArray' = objArray \ {id}

Dispatch(id) ==
    /\ id \notin usedIDs
    /\ ReadObject(id)
    /\ log' = Append(log, [page |-> doc.n, id |-> id])

\* The handler keeps the closures; a key reader may call them twice.
DispatchAsk(id) ==
    /\ Dispatch(id) /\ Kind(id) = "ask"
    /\ usedIDs' = usedIDs \cup {id}
    /\ \E n \in {1, 2} : open' = open \cup {[page |-> doc.n, id |-> id, left |-> n]}
    /\ UNCHANGED <<isLoaded, pending_commands, load, pendingObjIDs, raised, fired>>

\* A handler without callbacks returns and the bridge acknowledges the id.
DispatchNotify(id) ==
    /\ Dispatch(id) /\ Kind(id) = "notify"
    /\ usedIDs' = usedIDs \cup {id}
    /\ Success(id, NoRef)
    /\ UNCHANGED <<isLoaded, pending_commands, load, open, raised>>

\* A handler that reloads the wallet (didCreateNewAccount, didParsePairingCode,
\* didGetPinSuccess) replaces usedIDs under the loop; the acknowledgement then
\* finds the page not loaded.
DispatchReload(id) ==
    /\ Dispatch(id) /\ Kind(id) = "notify"
    /\ load.n < MaxLoads /\ "html" \in LoadKinds
    /\ ResetForLoad
    /\ UNCHANGED <<pendingObjIDs, open, raised, fired>>

\* did_decrypt evaluates JavaScript synchronously, which raises when the page
\* is not loaded.
DispatchSync(id) ==
    /\ Dispatch(id) /\ Kind(id) = "sync"
    /\ usedIDs' = usedIDs \cup {id}
    /\ raised' = ~isLoaded
    /\ Success(id, NoRef)
    /\ UNCHANGED <<isLoaded, pending_commands, load, open>>

\* One round of the loop over the ids of a bridge URL, in ascending order.
Deliver ==
    /\ \E id \in delivering :
         /\ IsNext(id)
         /\ delivering' = delivering \ {id}
         /\ \/ SkipUsed(id)    \/ Reread(id)
            \/ DispatchAsk(id) \/ DispatchNotify(id)
            \/ DispatchReload(id) \/ DispatchSync(id)
    /\ UNCHANGED <<doc, calls, nav, issued, ran>>

\* One use of a closure kept by a handler.
UseClosure(h) ==
    open' = (open \ {h}) \cup (IF h.left = 2 THEN {[h EXCEPT !.left = 1]} ELSE {})

\* A handler answers: the user, the camera or the scrypt queue is done.
AnswerSuccess(h) ==
    /\ MainIdle
    /\ UseClosure(h)
    /\ Success(h.id, [page |-> h.page, id |-> h.id])
    /\ UNCHANGED <<native, load, doc, calls, objArray, nav, delivering, raised,
                   issued, ran, log>>

\* container.error has no check of isLoaded: executeJSSynchronous raises.
AnswerError(h) ==
    /\ MainIdle
    /\ UseClosure(h)
    /\ \/ isLoaded /\ SetResponse(h.id, [page |-> h.page, id |-> h.id]) /\ UNCHANGED raised
       \/ ~isLoaded /\ raised' = TRUE /\ UNCHANGED <<pendingObjIDs, fired>>
    /\ UNCHANGED <<native, load, doc, calls, objArray, nav, delivering, issued,
                   ran, log>>

WebView == StartLoad \/ CommitLoad \/ FailLoad \/ FinishLoad
App     == LoadHTML \/ LoadRequest \/ ExecuteJS
Handler == \E h \in open : AnswerSuccess(h) \/ AnswerError(h)

\* An uncaught exception ends the app.
Next ==
    /\ ~raised
    /\ \/ WebView \/ App \/ Handler
       \/ ShouldStartLoad \/ Deliver
       \/ \E k \in Kinds : Send(k)

Spec == Init /\ [][Next]_vars

\* UIKit delivers every navigation and finishes every load; the app, the page
\* and the people and cameras behind the handlers owe nothing.
Fairness ==
    /\ WF_vars(~raised /\ ShouldStartLoad) /\ WF_vars(~raised /\ Deliver)
    /\ WF_vars(~raised /\ StartLoad) /\ WF_vars(~raised /\ (CommitLoad \/ FailLoad))
    /\ WF_vars(~raised /\ FinishLoad)

FairSpec == Spec /\ Fairness
-----------------------------------------------------------------------------
(***************************************************************************)
(* Properties.                                                             *)
(***************************************************************************)

\* The variables hold what their declarations in the code allow.
TypeOK ==
    /\ isLoaded \in BOOLEAN /\ raised \in BOOLEAN
    /\ pending_commands \in Seq(Command)
    /\ usedIDs \subseteq Nat
    /\ load \in [n : Nat, kind : DocKinds, stage : Stages]
    /\ doc \in [n : Nat, kind : DocKinds, ready : BOOLEAN]
    /\ calls \in Seq(Kinds)
    /\ pendingObjIDs \subseteq 0..(Len(calls) - 1)
    /\ objArray \subseteq 0..(Len(calls) - 1)
    /\ nav \subseteq 0..(Len(calls) - 1)
    /\ delivering \subseteq 0..(Len(calls) - 1)
    /\ open \subseteq [page : Nat, id : Nat, left : {1, 2}]
    /\ issued \in Nat
    /\ ran \in Seq(Ran)
    /\ log \in Seq(Ref)
    /\ fired \in Seq(Fired)

\* The delegate is handed each object of each page at most once: clearing
\* usedIDs in loadHTMLString and in shouldStartLoadWithRequest while ids are
\* pending, and listing every pending id in each URL, repeat no call.
HandedOverOnce ==
    \A i, j \in 1..Len(log) : i # j => log[i] # log[j]

\* A callback that has returned is never run again, although a URL lists the
\* object again, a closure may be called twice and a closure of an earlier page
\* may answer it: JSBridge_setResponseWithId runs it a second time only if it
\* threw, which leaves the id in JSBridge_pendingObjIDs.
CallbackReturnsOnce ==
    \A i, j \in 1..Len(fired) :
        i < j /\ fired[i].page = fired[j].page /\ fired[i].id = fired[j].id
            => ~fired[i].returned

\* The queue of executeJS neither reorders nor repeats commands, and a command
\* never runs on a wallet page other than the one that was being loaded when it
\* was issued: loadHTMLString empties the queue of the page it replaces.  Only
\* loadRequest, which neither empties the queue nor clears isLoaded, lets the
\* page it requests and the page it replaces run each other's commands.
CommandsRunOnTheirPage ==
    /\ \A i \in 1..Len(ran) :
          ran[i].page = ran[i].for \/ "remote" \in {ran[i].kind, ran[i].shown}
    /\ \A i, j \in 1..Len(ran) : i < j => ran[i].cmd < ran[j].cmd

\* A closure answers an object only under that object's id: the value a page
\* callback receives was given by a handler for the object of the same number.
\* The "null" made up by a second reading of an object reaches a callback only
\* while loadRequest is replacing the page, which it leaves marked as loaded.
AnswerComesFromAHandler ==
    \A i \in 1..Len(fired) :
        \/ /\ fired[i].from.id = fired[i].id
           /\ \E k \in 1..Len(log) : log[k] = fired[i].from
        \/ fired[i].from = NoRef /\ fired[i].during = "remote"

\* bridge.js: an id leaves pendingObjIDs because its response was received;
\* the callback of a page's object runs with a response to that very object.
AnswerIsForThisPage ==
    \A i \in 1..Len(fired) : fired[i].from.page = fired[i].page

\* The assertion of executeJSSynchronous never fires: no synchronous
\* evaluation is made while the web view is not fully loaded.
NeverRaised == ~raised

\* Commands queued for a page that is being loaded do not wait forever: the
\* queue is flushed when the load finishes, or dropped with the page, unless the
\* load is a request that fails.  (Before any load there is nothing to wait for:
\* see the README on such commands.)
QueueIsFlushed ==
    pending_commands # <<>> /\ load.n > 0
        ~> pending_commands = <<>> \/ raised \/ load.stage = "failed"
=============================================================================
