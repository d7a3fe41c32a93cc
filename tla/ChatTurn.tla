------------------------------- MODULE ChatTurn -------------------------------
(***************************************************************************)
(* Chat turns of the AI gateway.  The handler of a turn drives an agent    *)
(* over ACP and streams events to a browser.  Two other parties write to   *)
(* that stream: the agent's session updates, and the calls of the          *)
(* browser's own tools that an agent makes over the MCP endpoint of the    *)
(* turn.  The handler registers the turn for the latter, and publishes its *)
(* tools under the ACP session, and has to take both back.                 *)
(***************************************************************************)
EXTENDS Integers, Sequences

CONSTANTS
    Turns,        \* requests to the chat endpoint
    Tools,        \* the names that MCP calls use
    UITools,      \* the tools that the browser of each turn declares
    SessionIds,   \* what the agent names sessions
    Calls,        \* MCP requests of agents
    None,         \* no session, no turn
    MaxActs       \* bound: session updates, MCP requests, browsers that leave and
                  \* connections that are lost, in all

ASSUME ChatAssumption ==
    /\ None \notin Turns \cup SessionIds \cup Calls \cup {"agent"}
    /\ Turns \cap (Calls \cup {"agent"}) = {} /\ "agent" \notin Calls
    /\ UITools \in [Turns -> SUBSET Tools] /\ MaxActs \in Nat

VARIABLES
    pc,           \* where ServeHTTP of each turn is
    gone,         \* the turns whose request context is done
    lost,         \* the turns whose connection to the agent was lost
    session,      \* sess.SessionId of each turn
    answered,     \* the turns whose prompt the agent has answered
    turns,        \* the turnRegistry
    bySession,    \* the ContextualToolsStore: whose tools a session has
    inUse,        \* the turn for which the agent has a session of each name
    lock,         \* who holds c.mu of the streamingClient of each turn
    queue,        \* the events that the holder has still to emit
    closed,       \* c.closed
    textOpen,     \* c.textOpen
    events,       \* what each browser was sent: kinds, and calls
    call,         \* what each MCP request does, for which turn and tool
    misjudged,    \* history: turns whose tool calls were judged wrongly
    contested,    \* history: turns given a session's name that a lost turn still had
    acts          \* the acts so far that MaxActs bounds

stream == <<lock, queue, closed, textOpen, events>>
stores == <<turns, bySession, inUse>>
vars == <<pc, gone, lost, session, answered, stores, stream, call, misjudged, contested, acts>>

Init ==
    /\ pc = [t \in Turns |-> "idle"] /\ gone = {} /\ lost = {} /\ answered = {}
    /\ session = [t \in Turns |-> None]
    /\ turns = {} /\ bySession = [id \in SessionIds |-> None]
    /\ inUse = [id \in SessionIds |-> None]
    /\ lock = [t \in Turns |-> None] /\ queue = [t \in Turns |-> <<>>]
    /\ closed = [t \in Turns |-> FALSE] /\ textOpen = [t \in Turns |-> FALSE]
    /\ events = [t \in Turns |-> <<>>]
    /\ call = [c \in Calls |-> [pc |-> "new", turn |-> None, tool |-> None]]
    /\ misjudged = {} /\ contested = {} /\ acts = 0

Step(t, from, to) == pc[t] = from /\ pc' = [pc EXCEPT ![t] = to]

----------------------------------------------------------------------------
(* The stream.  Whoever holds c.mu emits all of its events. *)

Event(kind) == <<kind, None>>

\* Takes the lock to emit events, and says whether text is open afterwards.
Emitting(t, who, list, open) ==
    /\ lock[t] = None
    /\ lock' = [lock EXCEPT ![t] = who] /\ queue' = [queue EXCEPT ![t] = list]
    /\ textOpen' = [textOpen EXCEPT ![t] = open]
    /\ UNCHANGED <<closed, events>>

\* Seeded fault: the stream goes on after a write has failed.
EmitRegardless(t) ==
    /\ queue[t] # <<>>
    /\ queue' = [queue EXCEPT ![t] = Tail(@)]
    /\ \/ events' = [events EXCEPT ![t] = Append(@, Head(queue[t]))]
       \/ UNCHANGED events
    /\ UNCHANGED <<pc, gone, lost, session, answered, stores, lock, closed, textOpen,
                   call, misjudged, contested, acts>>

\* emit: writes the next event, unless the stream is closed; the end of the
\* request or a write that fails closes it.
Emit(t) ==
    /\ queue[t] # <<>>
    /\ queue' = [queue EXCEPT ![t] = Tail(@)]
    /\ \/ /\ ~closed[t] /\ t \notin gone
          /\ events' = [events EXCEPT ![t] = Append(@, Head(queue[t]))]
          /\ UNCHANGED closed
       \/ closed' = [closed EXCEPT ![t] = TRUE] /\ UNCHANGED events
    /\ UNCHANGED <<pc, gone, lost, session, answered, stores, lock, textOpen,
                   call, misjudged, contested, acts>>

\* Seeded fault: the lock covers one event, not all.
UnlockEarly(t) ==
    /\ lock[t] # None
    /\ lock' = [lock EXCEPT ![t] = None]
    /\ call' = [c \in Calls |-> IF c = lock[t] THEN [call[c] EXCEPT !.pc = "acked"] ELSE call[c]]
    /\ UNCHANGED <<pc, gone, lost, session, answered, stores, queue, closed, textOpen, events,
                   misjudged, contested, acts>>

\* The entry point returns, and a call answers that it was dispatched.
Unlock(t) ==
    /\ lock[t] # None /\ queue[t] = <<>>
    /\ lock' = [lock EXCEPT ![t] = None]
    /\ call' = [c \in Calls |-> IF c = lock[t] THEN [call[c] EXCEPT !.pc = "acked"] ELSE call[c]]
    /\ UNCHANGED <<pc, gone, lost, session, answered, stores, queue, closed, textOpen, events,
                   misjudged, contested, acts>>

\* An open message is closed before the run is.
Ending(t, kind) ==
    IF textOpen[t] THEN <<Event("TextEnd"), Event(kind)>> ELSE <<Event(kind)>>

----------------------------------------------------------------------------
(* The handler of a turn, ServeHTTP.  What it defers it does last to first. *)

\* The agent is dialled, and the turn registered.
Dial(t) ==
    /\ Step(t, "idle", "initialize")
    /\ turns' = turns \cup {t}
    /\ UNCHANGED <<gone, lost, session, answered, bySession, inUse, stream,
                   call, misjudged, contested, acts>>

Initialize(t) ==
    /\ Step(t, "initialize", "newSession") /\ t \notin lost
    /\ UNCHANGED <<gone, lost, session, answered, stores, stream, call, misjudged, contested, acts>>

\* Seeded fault: an early return leaves the turn registered.
RequestFailsUnclosed(t) ==
    /\ Step(t, "initialize", "hangUp") \/ Step(t, "newSession", "hangUp")
    /\ UNCHANGED <<gone, lost, session, answered, stores, stream, call, misjudged, contested, acts>>

\* The agent does not answer, or refuses; then nothing was published.
RequestFails(t) ==
    /\ Step(t, "initialize", "closeTurn") \/ Step(t, "newSession", "closeTurn")
    /\ UNCHANGED <<gone, lost, session, answered, stores, stream, call, misjudged, contested, acts>>

\* The turns of a session that has tools, or is about to have them.
Holding == {"publish", "startRun", "prompt", "finishRun", "failRun", "unpublish"}

\* The agent names the session.  It does not use a name again before the session
\* or its connection is closed, or the connection is lost; in the last case the
\* handler of the other turn may still be on its way to DeleteForSession.
NewSession(t, id) ==
    /\ Step(t, "newSession", "publish") /\ t \notin lost /\ inUse[id] = None
    /\ session' = [session EXCEPT ![t] = id] /\ inUse' = [inUse EXCEPT ![id] = t]
    /\ contested' = IF \E u \in Turns : session[u] = id /\ pc[u] \in Holding
                    THEN contested \cup {t} ELSE contested
    /\ UNCHANGED <<gone, lost, answered, turns, bySession, stream, call, misjudged, acts>>

\* SetForSession, when there are tools.
Publish(t) ==
    /\ Step(t, "publish", "startRun")
    /\ bySession' = IF UITools[t] = {} THEN bySession ELSE [bySession EXCEPT ![session[t]] = t]
    /\ UNCHANGED <<gone, lost, session, answered, turns, inUse, stream,
                   call, misjudged, contested, acts>>

StartRun(t) ==
    /\ Step(t, "startRun", "prompt")
    /\ Emitting(t, t, <<Event("RunStarted")>>, textOpen[t])
    /\ UNCHANGED <<gone, lost, session, answered, stores, call, misjudged, contested, acts>>

\* The agent answers the prompt.  Its updates up to there have been processed.
PromptReturns(t) ==
    /\ Step(t, "prompt", "finishRun") /\ lock[t] \notin {t, "agent"}
    /\ answered' = answered \cup {t}
    /\ UNCHANGED <<gone, lost, session, stores, stream, call, misjudged, contested, acts>>

\* The agent answers with an error, after its updates; or there is no answer, as
\* the connection is lost or the browser has gone.  Then updates that were received
\* may still be waiting, or one be in progress: nothing waits for those.
PromptFails(t) ==
    /\ Step(t, "prompt", "failRun") /\ lock[t] # t
    /\ \/ lock[t] # "agent" /\ answered' = answered \cup {t}
       \/ t \in gone \cup lost /\ UNCHANGED answered
    /\ UNCHANGED <<gone, lost, session, stores, stream, call, misjudged, contested, acts>>

\* Seeded fault: the run ends within its message.
EndRunAtOnce(t) ==
    /\ \/ Step(t, "finishRun", "unpublish") /\ Emitting(t, t, <<Event("RunFinished")>>, textOpen[t])
       \/ Step(t, "failRun", "unpublish") /\ Emitting(t, t, <<Event("RunError")>>, textOpen[t])
    /\ UNCHANGED <<gone, lost, session, answered, stores, call, misjudged, contested, acts>>

\* finishRun, failRun
EndRun(t) ==
    /\ \/ Step(t, "finishRun", "unpublish") /\ Emitting(t, t, Ending(t, "RunFinished"), FALSE)
       \/ Step(t, "failRun", "unpublish") /\ Emitting(t, t, Ending(t, "RunError"), FALSE)
    /\ UNCHANGED <<gone, lost, session, answered, stores, call, misjudged, contested, acts>>

\* What the store has when the session of the turn is taken out of it.
Released(t) == [id \in SessionIds |-> IF id = session[t] THEN None ELSE bySession[id]]

\* DeleteForSession
Unpublish(t) ==
    /\ Step(t, "unpublish", "closeSession") /\ lock[t] # t
    /\ bySession' = IF UITools[t] = {} THEN bySession ELSE Released(t)
    /\ UNCHANGED <<gone, lost, session, answered, turns, inUse, stream,
                   call, misjudged, contested, acts>>

\* The agent gives up what it has for the turn.
Freed(t) == [id \in SessionIds |-> IF inUse[id] = t THEN None ELSE inUse[id]]

\* closeACPSession: the agent may be unable to, or may not answer in time.
CloseSession(t) ==
    /\ Step(t, "closeSession", "closeTurn")
    /\ inUse' \in {inUse, Freed(t)}
    /\ UNCHANGED <<gone, lost, session, answered, turns, bySession, stream,
                   call, misjudged, contested, acts>>

CloseTurn(t) ==
    /\ Step(t, "closeTurn", "hangUp")
    /\ turns' = turns \ {t}
    /\ UNCHANGED <<gone, lost, session, answered, bySession, inUse, stream,
                   call, misjudged, contested, acts>>

\* Seeded fault: the tools are deleted last, when the session is closed.
HangUpDeleting(t) ==
    /\ Step(t, "hangUp", "returned")
    /\ inUse' = Freed(t) /\ session' = [session EXCEPT ![t] = None]
    /\ gone' = gone \cup {t} /\ answered' = answered \ {t}
    /\ bySession' = Released(t)
    /\ UNCHANGED <<lost, turns, stream, call, misjudged, contested, acts>>

\* adapter.Close; ServeHTTP returns, which ends the request context and
\* the session.
HangUp(t) ==
    /\ Step(t, "hangUp", "returned")
    /\ inUse' = Freed(t) /\ session' = [session EXCEPT ![t] = None]
    /\ gone' = gone \cup {t} /\ answered' = answered \ {t}
    /\ UNCHANGED <<lost, turns, bySession, stream, call, misjudged, contested, acts>>

\* The agent cannot be dialled.
DialFails(t) ==
    /\ Step(t, "idle", "returned")
    /\ UNCHANGED <<gone, lost, session, answered, stores, stream, call, misjudged, contested, acts>>

BrowserLeaves(t) ==
    /\ pc[t] \notin {"idle", "returned"} /\ t \notin gone
    /\ gone' = gone \cup {t} /\ acts < MaxActs /\ acts' = acts + 1
    /\ UNCHANGED <<pc, lost, session, answered, stores, stream, call, misjudged, contested>>

\* The connection to the agent breaks, which gives up the turn's session on its
\* side.  The handler learns of it from the request that it makes, or next makes.
ConnectionLost(t) ==
    /\ pc[t] \in Holding /\ t \notin lost /\ acts < MaxActs /\ acts' = acts + 1
    /\ lost' = lost \cup {t} /\ inUse' = Freed(t)
    /\ UNCHANGED <<pc, gone, session, answered, turns, bySession, stream,
                   call, misjudged, contested>>

----------------------------------------------------------------------------
(* The agent of a turn: session updates and extension calls. *)

\* SessionUpdate, of a session that the gateway knows, also one that was received
\* before the connection was lost: blank text is dropped, and the first text opens
\* the message.  The updates about the agent's own tools leave that as it is; the
\* one to three events of such an update are taken together.
SessionUpdate(t, kind) ==
    /\ session[t] # None
    /\ t \notin answered /\ acts < MaxActs
    /\ acts' = acts + 1
    /\ CASE kind = "blank" -> Emitting(t, "agent", <<>>, textOpen[t])
         [] kind = "tool"  -> Emitting(t, "agent", <<Event("Tool")>>, textOpen[t])
         [] kind = "text"  -> Emitting(t, "agent",
               IF textOpen[t] THEN <<Event("TextContent")>>
                              ELSE <<Event("TextStart"), Event("TextContent")>>, TRUE)
    /\ UNCHANGED <<pc, gone, lost, session, answered, stores, call, misjudged, contested>>

\* handleJaegerToolCall, during the prompt: whether the tool is one that the
\* session has must be whether the browser declared it.
ExtToolCall(t, tool) ==
    /\ pc[t] = "prompt"
    /\ LET owner == bySession[session[t]]
           known == owner # None /\ tool \in UITools[owner]
       IN misjudged' = IF known = (tool \in UITools[t]) THEN misjudged ELSE misjudged \cup {t}
    /\ UNCHANGED <<pc, gone, lost, session, answered, stores, stream, call, contested, acts>>

----------------------------------------------------------------------------
(* Tool calls over the MCP endpoint of a turn, whose address the agent has    *)
(* known since it was asked for a session.                                    *)

\* Answered without the browser: not found, by a telemetry tool, or as an error.
Answered == [pc |-> "answered", turn |-> None, tool |-> None]

\* ServeHTTP of the endpoint: a turn that is not registered is not found.
Admit(c, t, tool) ==
    /\ call[c].pc = "new" /\ acts < MaxActs /\ acts' = acts + 1
    /\ pc[t] \notin {"idle", "initialize"}
    /\ call' = [call EXCEPT ![c] =
                  IF t \in turns THEN [pc |-> "admitted", turn |-> t, tool |-> tool] ELSE Answered]
    /\ UNCHANGED <<pc, gone, lost, session, answered, stores, stream, misjudged, contested>>

Resolved(c) == [call[c] EXCEPT !.pc = "resolved"]

\* Seeded fault: every tool is taken for the browser's.
ResolveEvery(c) ==
    /\ call[c].pc = "admitted"
    /\ call' = [call EXCEPT ![c] = IF call[c].turn \in turns THEN Resolved(c) ELSE Answered]
    /\ UNCHANGED <<pc, gone, lost, session, answered, stores, stream, misjudged, contested, acts>>

\* uiToolsMiddleware looks the turn up again, and has the telemetry tools answer
\* when it has ended or did not declare the tool.
Resolve(c) ==
    /\ call[c].pc = "admitted"
    /\ LET t == call[c].turn
       IN call' = [call EXCEPT ![c] =
                     IF t \in turns /\ call[c].tool \in UITools[t] THEN Resolved(c) ELSE Answered]
    /\ UNCHANGED <<pc, gone, lost, session, answered, stores, stream, misjudged, contested, acts>>

\* emitUIToolCall, on the stream that the middleware found: the turn may have
\* ended since.
EmitContextualToolCall(c) ==
    /\ call[c].pc = "resolved"
    /\ \E list \in {<<<<"UIStart", c>>, <<"UIEnd", c>>>>,
                    <<<<"UIStart", c>>, <<"UIArgs", c>>, <<"UIEnd", c>>>>} :
          Emitting(call[c].turn, c, list, textOpen[call[c].turn])
    /\ call' = [call EXCEPT ![c].pc = "emitting"]
    /\ UNCHANGED <<pc, gone, lost, session, answered, stores, misjudged, contested, acts>>

\* The arguments are not JSON.
RejectArguments(c) ==
    /\ call[c].pc = "resolved"
    /\ call' = [call EXCEPT ![c] = Answered]
    /\ UNCHANGED <<pc, gone, lost, session, answered, stores, stream, misjudged, contested, acts>>

----------------------------------------------------------------------------

Handle(t) ==
    \/ Dial(t) \/ DialFails(t) \/ Initialize(t) \/ RequestFails(t)
    \/ \E id \in SessionIds : NewSession(t, id)
    \/ Publish(t) \/ StartRun(t) \/ PromptReturns(t) \/ PromptFails(t) \/ EndRun(t)
    \/ Unpublish(t) \/ CloseSession(t) \/ CloseTurn(t) \/ HangUp(t)

Next ==
    \/ \E t \in Turns :
          \/ Handle(t) \/ Emit(t) \/ Unlock(t) \/ BrowserLeaves(t) \/ ConnectionLost(t)
          \/ \E kind \in {"blank", "text", "tool"} : SessionUpdate(t, kind)
          \/ \E tool \in Tools : ExtToolCall(t, tool)
    \/ \E c \in Calls :
          \/ \E t \in Turns, tool \in Tools : Admit(c, t, tool)
          \/ Resolve(c) \/ EmitContextualToolCall(c) \/ RejectArguments(c)

Spec == Init /\ [][Next]_vars

----------------------------------------------------------------------------

Handler == {"idle", "initialize", "newSession", "publish", "startRun", "prompt", "finishRun",
            "failRun", "unpublish", "closeSession", "closeTurn", "hangUp", "returned"}

Kinds == {"RunStarted", "TextStart", "TextContent", "TextEnd", "Tool", "RunFinished", "RunError"}

Events == (Kinds \X {None}) \cup ({"UIStart", "UIArgs", "UIEnd"} \X Calls)

\* Types; and whoever has events to emit holds the lock.
TypeOK ==
    /\ pc \in [Turns -> Handler] /\ gone \subseteq Turns /\ lost \subseteq Turns
    /\ answered \subseteq Turns
    /\ session \in [Turns -> SessionIds \cup {None}]
    /\ turns \subseteq Turns /\ misjudged \subseteq Turns /\ contested \subseteq Turns
    /\ bySession \in [SessionIds -> Turns \cup {None}]
    /\ inUse \in [SessionIds -> Turns \cup {None}]
    /\ lock \in [Turns -> Turns \cup Calls \cup {"agent", None}]
    /\ queue \in [Turns -> Seq(Events)] /\ events \in [Turns -> Seq(Events)]
    /\ closed \in [Turns -> BOOLEAN] /\ textOpen \in [Turns -> BOOLEAN]
    /\ call \in [Calls -> [pc : {"new", "admitted", "resolved", "emitting", "acked", "answered"},
                           turn : Turns \cup {None}, tool : Tools \cup {None}]]
    /\ acts \in 0..MaxActs
    /\ \A t \in Turns : lock[t] = None => queue[t] = <<>>

Kind(t, i) == events[t][i][1]

\* What follows the event, in the stream and then in the queue of the holder; or
\* nothing does, in a stream that was closed.
FollowedBy(t, i, wanted) ==
    LET all == events[t] \o queue[t]
    IN \/ i < Len(all) /\ all[i + 1] \in wanted
       \/ i = Len(events[t]) /\ closed[t]

\* A message is open after the first n events.
OpenAfter(t, n) ==
    \E i \in 1..n : Kind(t, i) = "TextStart" /\ \A j \in i..n : Kind(t, j) # "TextEnd"

\* The browser renders a message only as START, CONTENT+, END (streaming_client.go
\* 231-240): content and end come within a message, a message does not start within
\* another, and a start is followed by its content at once, whatever the agent, its
\* MCP calls and the handler do between each other's events, unless the stream was
\* closed there.
TextBracketed ==
    \A t \in Turns : \A i \in DOMAIN events[t] :
       /\ Kind(t, i) \in {"TextContent", "TextEnd"} => OpenAfter(t, i - 1)
       /\ Kind(t, i) = "TextStart" =>
             /\ ~OpenAfter(t, i - 1)
             /\ FollowedBy(t, i, {Event("TextContent")})

Terminal == {"RunFinished", "RunError"}

UIKinds == {"UIStart", "UIArgs", "UIEnd"}

\* What an agent's updates start with, or are made of.
AgentKinds == {"TextStart", "TextContent", "Tool"}

\* A run starts at most once, and what ends it comes once, after that, with no
\* message open; nothing of the agent comes after it, but for updates that had
\* been received when the connection was lost and the run failed.
RunBracketed ==
    \A t \in Turns : \A i \in DOMAIN events[t] :
       /\ Kind(t, i) = "RunStarted" => \A j \in DOMAIN events[t] : Kind(t, j) = "RunStarted" => j = i
       /\ Kind(t, i) \in Terminal =>
             /\ ~OpenAfter(t, i)
             /\ \E j \in 1..i : Kind(t, j) = "RunStarted"
             /\ \A j \in i + 1..Len(events[t]) :
                   \/ Kind(t, j) \in UIKinds
                   \/ Kind(t, i) = "RunError" /\ t \in lost /\ Kind(t, j) \in AgentKinds

\* A call of a browser's tool reaches only the browser that declared the tool, and
\* its events arrive together: no text, run or other call comes between.
UICallsWhole ==
    \A t \in Turns : \A i \in DOMAIN events[t] :
       LET c == events[t][i][2]
       IN c \in Calls =>
             /\ call[c].turn = t /\ call[c].tool \in UITools[t]
             /\ Kind(t, i) = "UIEnd" \/ FollowedBy(t, i, {<<"UIArgs", c>>, <<"UIEnd", c>>})

\* What the comment on emitUIToolCall (mcp_ui_tools.go:182-184) and its test
\* (mcp_ui_tools_test.go:101-103) say: when the turn has ended since the call was
\* looked up, so that its stream is closed, the agent is answered with an error.
EndedTurnsAreReported ==
    [][\A c \in Calls :
          call[c].pc = "resolved" /\ pc[call[c].turn] = "returned" /\ call'[c] # call[c] =>
             call'[c] = Answered]_vars

\* While its prompt runs a tool that a browser declared is known, and one that it
\* did not declare is not, even when the agent reuses the names of sessions; unless
\* it reused the name of one whose connection was lost, before the gateway had
\* taken the tools of that one back.
DeclaredToolsAreKnown == misjudged \subseteq contested \cup lost

\* However a turn ends, it leaves nothing behind: not its route in the registry,
\* not its tools under a session.
NothingLeftBehind ==
    \A t \in Turns : pc[t] = "returned" => t \notin turns /\ \A id \in SessionIds : bySession[id] # t

=============================================================================
