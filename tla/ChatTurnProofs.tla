--------------------------- MODULE ChatTurnProofs ---------------------------
(***************************************************************************)
(* Proofs about module ChatTurn, for any number of turns, sessions, calls, *)
(* tools and acts of the agents.                                           *)
(***************************************************************************)
EXTENDS ChatTurn, SequenceTheorems, TLAPS

----------------------------------------------------------------------------
(* Types, by the part of the state that an action changes. *)

StoreTypes ==
    /\ pc \in [Turns -> Handler] /\ gone \subseteq Turns /\ lost \subseteq Turns
    /\ answered \subseteq Turns /\ session \in [Turns -> SessionIds \cup {None}]
    /\ turns \subseteq Turns /\ misjudged \subseteq Turns /\ contested \subseteq Turns
    /\ bySession \in [SessionIds -> Turns \cup {None}] /\ inUse \in [SessionIds -> Turns \cup {None}]

StreamTypes ==
    /\ lock \in [Turns -> Turns \cup Calls \cup {"agent", None}]
    /\ queue \in [Turns -> Seq(Events)] /\ events \in [Turns -> Seq(Events)]
    /\ closed \in [Turns -> BOOLEAN] /\ textOpen \in [Turns -> BOOLEAN]
    /\ \A t \in Turns : lock[t] = None => queue[t] = <<>>

CallStates == [pc : {"new", "admitted", "resolved", "emitting", "acked", "answered"},
               turn : Turns \cup {None}, tool : Tools \cup {None}]

CallTypes == call \in [Calls -> CallStates]

\* The parts make up the type invariant.
LEMMA TypeParts == TypeOK <=> StoreTypes /\ StreamTypes /\ CallTypes /\ acts \in 0..MaxActs
BY DEF TypeOK, StoreTypes, StreamTypes, CallTypes, CallStates

\* Types hold at the start.
LEMMA TypeInit == Init => TypeOK
<1> SUFFICES ASSUME Init PROVE TypeOK
  OBVIOUS
<1>1. StoreTypes
  BY DEF Init, StoreTypes, Handler
<1>2. StreamTypes
  BY DEF Init, StreamTypes
<1>3. CallTypes /\ acts \in 0..MaxActs
  BY ChatAssumption DEF Init, CallTypes, CallStates
<1> QED
  BY <1>1, <1>2, <1>3, TypeParts

\* A stream into which a list of events is queued has types still.
LEMMA EmittingTypes ==
    ASSUME StreamTypes, NEW t \in Turns, NEW who \in Turns \cup Calls \cup {"agent"},
           NEW list \in Seq(Events), NEW open \in BOOLEAN, Emitting(t, who, list, open)
    PROVE  StreamTypes'
<1>1. who # None
  BY ChatAssumption
<1> QED
  BY <1>1 DEF Emitting, StreamTypes

\* What is emitted, is an event.
LEMMA EventTypes ==
    /\ \A kind \in Kinds : Event(kind) \in Events /\ <<Event(kind)>> \in Seq(Events)
    /\ \A k1, k2 \in Kinds : <<Event(k1), Event(k2)>> \in Seq(Events)
    /\ \A c \in Calls : /\ <<<<"UIStart", c>>, <<"UIEnd", c>>>> \in Seq(Events)
                        /\ <<<<"UIStart", c>>, <<"UIArgs", c>>, <<"UIEnd", c>>>> \in Seq(Events)
<1>1. \A kind \in Kinds : Event(kind) \in Events
  BY DEF Event, Events
<1>2. \A c \in Calls : \A kind \in {"UIStart", "UIArgs", "UIEnd"} : <<kind, c>> \in Events
  BY DEF Events
<1>3. /\ \A e \in Events : <<e>> \in Seq(Events)
      /\ \A e, f \in Events : <<e, f>> \in Seq(Events)
      /\ \A e, f, g \in Events : <<e, f, g>> \in Seq(Events)
  OBVIOUS
<1>4. \A c \in Calls : /\ <<"UIStart", c>> \in Events /\ <<"UIArgs", c>> \in Events
                       /\ <<"UIEnd", c>> \in Events
  BY <1>2
<1> HIDE DEF Event, Events
<1>5. \A kind \in Kinds : <<Event(kind)>> \in Seq(Events)
  BY <1>1, <1>3
<1>6. \A k1, k2 \in Kinds : <<Event(k1), Event(k2)>> \in Seq(Events)
  BY <1>1, <1>3
<1>7. ASSUME NEW c \in Calls
      PROVE  /\ <<<<"UIStart", c>>, <<"UIEnd", c>>>> \in Seq(Events)
             /\ <<<<"UIStart", c>>, <<"UIArgs", c>>, <<"UIEnd", c>>>> \in Seq(Events)
  BY <1>4, <1>3
<1> QED
  BY <1>1, <1>5, <1>6, <1>7

\* What the handler does keeps the types.
LEMMA HandleTypes ==
    ASSUME TypeOK, NEW t \in Turns, Handle(t)
    PROVE  TypeOK'
<1>0. StoreTypes /\ StreamTypes /\ CallTypes /\ acts \in 0..MaxActs
  BY TypeParts
<1>1. CallTypes' /\ acts' \in 0..MaxActs
  BY <1>0 DEF Handle, Dial, DialFails, Initialize, RequestFails, NewSession, Publish, StartRun, PromptReturns,
     PromptFails, EndRun, Unpublish, CloseSession, CloseTurn, HangUp, CallTypes
<1>2. StoreTypes'
  <2>1. pc' \in [Turns -> Handler]
    BY <1>0 DEF Handle, Dial, DialFails, Initialize, RequestFails, NewSession, Publish, StartRun, PromptReturns,
       PromptFails, EndRun, Unpublish, CloseSession, CloseTurn, HangUp, Step, StoreTypes, Handler
  <2>2. /\ gone' \subseteq Turns /\ lost' \subseteq Turns /\ answered' \subseteq Turns
        /\ turns' \subseteq Turns /\ misjudged' \subseteq Turns
    BY <1>0 DEF Handle, Dial, DialFails, Initialize, RequestFails, NewSession, Publish, StartRun, PromptReturns,
       PromptFails, EndRun, Unpublish, CloseSession, CloseTurn, HangUp, StoreTypes, stores
  <2>5. contested' \subseteq Turns
    <3>1. contested' \in {contested, contested \cup {t}}
      BY DEF Handle, Dial, DialFails, Initialize, RequestFails, NewSession, Publish, StartRun, PromptReturns,
         PromptFails, EndRun, Unpublish, CloseSession, CloseTurn, HangUp
    <3> QED
      BY <1>0, <3>1 DEF StoreTypes
  <2>3. session' \in [Turns -> SessionIds \cup {None}]
    BY <1>0 DEF Handle, Dial, DialFails, Initialize, RequestFails, NewSession, Publish, StartRun, PromptReturns,
       PromptFails, EndRun, Unpublish, CloseSession, CloseTurn, HangUp, StoreTypes, stores
  <2>4. /\ bySession' \in [SessionIds -> Turns \cup {None}]
        /\ inUse' \in [SessionIds -> Turns \cup {None}]
    <3>1. CASE \E id \in SessionIds : NewSession(t, id)
      BY <1>0, <3>1 DEF NewSession, StoreTypes
    <3>2. CASE ~\E id \in SessionIds : NewSession(t, id)
      BY <1>0, <3>2 DEF Handle, Dial, DialFails, Initialize, RequestFails, Publish, StartRun, PromptReturns,
         PromptFails, EndRun, Unpublish, CloseSession, CloseTurn, HangUp, StoreTypes, stores, Released, Freed
    <3> QED
      BY <3>1, <3>2
  <2> QED
    BY <2>1, <2>2, <2>3, <2>4, <2>5 DEF StoreTypes
<1>3. StreamTypes'
  <2>1. CASE UNCHANGED stream
    BY <1>0, <2>1 DEF StreamTypes, stream
  <2>2. CASE StartRun(t)
    <3>1. <<Event("RunStarted")>> \in Seq(Events)
      BY EventTypes DEF Kinds
    <3> QED
      BY <1>0, <2>2, <3>1, EmittingTypes DEF StartRun, StreamTypes
  <2>3. CASE EndRun(t)
    <3>1. \A kind \in {"RunFinished", "RunError"} : Ending(t, kind) \in Seq(Events)
      BY EventTypes DEF Kinds, Ending
    <3> QED
      BY <1>0, <2>3, <3>1, EmittingTypes DEF EndRun
  <2> QED
    BY <2>1, <2>2, <2>3 DEF Handle, Dial, DialFails, Initialize, RequestFails, NewSession, Publish, PromptReturns,
       PromptFails, Unpublish, CloseSession, CloseTurn, HangUp
<1> QED
  BY <1>1, <1>2, <1>3 DEF TypeOK, StoreTypes, StreamTypes, CallTypes, CallStates

\* So does what writes to a stream, and what the agent and its calls do.
LEMMA StreamStepTypes ==
    ASSUME TypeOK, NEW t \in Turns, Emit(t) \/ Unlock(t)
    PROVE  TypeOK'
<1>0. StoreTypes /\ StreamTypes /\ CallTypes /\ acts \in 0..MaxActs
  BY TypeParts
<1>1. StoreTypes' /\ acts' \in 0..MaxActs
  <2>1. StoreTypes'
    BY <1>0 DEF Emit, Unlock, StoreTypes, stores
  <2>2. acts' = acts \/ (acts < MaxActs /\ acts' = acts + 1)
    BY DEF Emit, Unlock
  <2> QED
    BY <1>0, <2>1, <2>2, ChatAssumption
<1>2. CASE Emit(t)
  <2>1. queue[t] \in Seq(Events) /\ queue[t] # <<>> /\ events[t] \in Seq(Events)
    BY <1>0, <1>2 DEF Emit, StreamTypes
  <2>2. Head(queue[t]) \in Events /\ Tail(queue[t]) \in Seq(Events)
    BY <2>1
  <2>3. Append(events[t], Head(queue[t])) \in Seq(Events)
    BY <2>1, <2>2
  <2>4. lock[t] # None
    BY <1>0, <2>1 DEF StreamTypes
  <2>5. queue' \in [Turns -> Seq(Events)] /\ events' \in [Turns -> Seq(Events)]
    BY <1>0, <1>2, <2>2, <2>3 DEF Emit, StreamTypes
  <2>6. /\ lock' = lock /\ closed' \in [Turns -> BOOLEAN] /\ textOpen' = textOpen
        /\ \A u \in Turns : u # t => queue'[u] = queue[u]
    BY <1>0, <1>2 DEF Emit, StreamTypes
  <2>7. StreamTypes'
    BY <1>0, <2>4, <2>5, <2>6 DEF StreamTypes
  <2>8. CallTypes'
    BY <1>0, <1>2 DEF Emit, CallTypes
  <2> QED
    BY <1>1, <2>7, <2>8 DEF TypeOK, StoreTypes, StreamTypes, CallTypes, CallStates
<1>3. CASE Unlock(t)
  <2>1. StreamTypes'
    BY <1>0, <1>3 DEF Unlock, StreamTypes
  <2>2. \A c \in Calls : [call[c] EXCEPT !.pc = "acked"] \in CallStates
    BY <1>0 DEF CallTypes, CallStates
  <2>3. CallTypes'
    BY <1>0, <1>3, <2>2 DEF Unlock, CallTypes
  <2> QED
    BY <1>1, <2>1, <2>3 DEF TypeOK, StoreTypes, StreamTypes, CallTypes, CallStates
<1> QED
  BY <1>2, <1>3

\* The agent's steps keep the types.
LEMMA AgentTypes ==
    ASSUME TypeOK, NEW t \in Turns,
           \/ BrowserLeaves(t) \/ ConnectionLost(t)
           \/ \E kind \in {"blank", "text", "tool"} : SessionUpdate(t, kind)
           \/ \E tool \in Tools : ExtToolCall(t, tool)
    PROVE  TypeOK'
<1>0. StoreTypes /\ StreamTypes /\ CallTypes /\ acts \in 0..MaxActs
  BY TypeParts
<1>1. CallTypes'
  BY <1>0 DEF BrowserLeaves, ConnectionLost, SessionUpdate, ExtToolCall, CallTypes
<1>2. StoreTypes' /\ acts' \in 0..MaxActs
  <2>1. CASE BrowserLeaves(t)
    BY <1>0, <2>1, ChatAssumption DEF BrowserLeaves, StoreTypes, stores
  <2>4. CASE ConnectionLost(t)
    BY <1>0, <2>4, ChatAssumption DEF ConnectionLost, StoreTypes, Freed
  <2>2. CASE \E kind \in {"blank", "text", "tool"} : SessionUpdate(t, kind)
    <3>1. acts' = acts + 1 /\ acts < MaxActs
      BY <2>2 DEF SessionUpdate
    <3>2. UNCHANGED <<pc, gone, lost, session, answered, stores, misjudged, contested>>
      BY <2>2 DEF SessionUpdate
    <3> QED
      BY <1>0, <3>1, <3>2, ChatAssumption DEF StoreTypes, stores
  <2>3. CASE \E tool \in Tools : ExtToolCall(t, tool)
    <3>1. misjudged' \in {misjudged, misjudged \cup {t}}
      BY <2>3, Zenon DEF ExtToolCall
    <3>2. UNCHANGED <<pc, gone, lost, session, answered, stores, contested, acts>>
      BY <2>3 DEF ExtToolCall
    <3> QED
      BY <1>0, <3>1, <3>2 DEF StoreTypes, stores
  <2> QED
    BY <2>1, <2>2, <2>3, <2>4
<1>3. StreamTypes'
  <2>1. CASE BrowserLeaves(t) \/ ConnectionLost(t) \/ \E tool \in Tools : ExtToolCall(t, tool)
    BY <1>0, <2>1 DEF BrowserLeaves, ConnectionLost, ExtToolCall, StreamTypes, stream
  <2>2. CASE \E kind \in {"blank", "text", "tool"} : SessionUpdate(t, kind)
    <3>1. /\ <<>> \in Seq(Events) /\ <<Event("Tool")>> \in Seq(Events)
          /\ <<Event("TextContent")>> \in Seq(Events)
          /\ <<Event("TextStart"), Event("TextContent")>> \in Seq(Events)
      BY EventTypes DEF Kinds
    <3>2. textOpen[t] \in BOOLEAN
      BY <1>0 DEF StreamTypes
    <3>3. PICK list \in Seq(Events), open \in BOOLEAN : Emitting(t, "agent", list, open)
      BY <2>2, <3>1, <3>2 DEF SessionUpdate
    <3> QED
      BY <1>0, <3>3, EmittingTypes
  <2> QED
    BY <2>1, <2>2
<1> QED
  BY <1>1, <1>2, <1>3 DEF TypeOK, StoreTypes, StreamTypes, CallTypes, CallStates

CallStep(c) ==
    \/ \E t \in Turns, tool \in Tools : Admit(c, t, tool)
    \/ Resolve(c) \/ EmitContextualToolCall(c) \/ RejectArguments(c)

\* Calls that go on to the browser are for a turn that declared their tool.
Routed ==
    \A c \in Calls :
       /\ call[c].pc \in {"admitted", "resolved", "emitting", "acked"} => call[c].turn \in Turns
       /\ call[c].pc \in {"resolved", "emitting", "acked"} => call[c].tool \in UITools[call[c].turn]

\* The steps of tool calls keep the types.
LEMMA CallStepTypes ==
    ASSUME TypeOK, Routed, NEW c \in Calls, CallStep(c)
    PROVE  TypeOK'
<1>0. StoreTypes /\ StreamTypes /\ CallTypes /\ acts \in 0..MaxActs
  BY TypeParts
<1>1. StoreTypes' /\ acts' \in 0..MaxActs
  BY <1>0, ChatAssumption
     DEF CallStep, Admit, Resolve, EmitContextualToolCall, RejectArguments, StoreTypes, stores
<1>2. CallTypes'
  <2>1. Answered \in CallStates
    BY DEF Answered, CallStates
  <2>2. \A t \in Turns, tool \in Tools : [pc |-> "admitted", turn |-> t, tool |-> tool] \in CallStates
    BY DEF CallStates
  <2>3. /\ [call[c] EXCEPT !.pc = "resolved"] \in CallStates
        /\ [call[c] EXCEPT !.pc = "emitting"] \in CallStates
    BY <1>0 DEF CallTypes, CallStates
  <2> HIDE DEF CallStates
  <2> QED
    BY <1>0, <2>1, <2>2, <2>3
       DEF CallStep, Admit, Resolve, Resolved, EmitContextualToolCall, RejectArguments, CallTypes
<1>3. StreamTypes'
  <2>1. CASE UNCHANGED stream
    BY <1>0, <2>1 DEF StreamTypes, stream
  <2>2. CASE EmitContextualToolCall(c)
    <3>1. call[c].turn \in Turns
      BY <2>2 DEF EmitContextualToolCall, Routed
    <3>2. PICK list \in Seq(Events) : Emitting(call[c].turn, c, list, textOpen[call[c].turn])
      BY <2>2, EventTypes DEF EmitContextualToolCall
    <3>3. textOpen[call[c].turn] \in BOOLEAN
      BY <1>0, <3>1 DEF StreamTypes
    <3> QED
      BY <1>0, <3>1, <3>2, <3>3, EmittingTypes
  <2> QED
    BY <2>1, <2>2 DEF CallStep, Admit, Resolve, RejectArguments
<1> QED
  BY <1>1, <1>2, <1>3 DEF TypeOK, StoreTypes, StreamTypes, CallTypes, CallStates

----------------------------------------------------------------------------
(* Calls and the streams. *)

\* A call holds the lock of its turn's stream exactly while it emits.
CallInv ==
    /\ Routed
    /\ \A t \in Turns : lock[t] \in Calls => call[lock[t]].pc = "emitting" /\ call[lock[t]].turn = t
    /\ \A c \in Calls : call[c].pc = "emitting" => lock[call[c].turn] = c

\* No call has begun at the start.
LEMMA CallInvInit == Init => CallInv
BY ChatAssumption DEF Init, CallInv, Routed

\* An action of another party that queues events leaves the calls as they are.
LEMMA OthersEmit ==
    ASSUME TypeOK, CallInv, NEW t \in Turns, NEW who \in Turns \cup {"agent"},
           NEW list \in Seq(Events), NEW open \in BOOLEAN, Emitting(t, who, list, open), call' = call
    PROVE  CallInv'
<1>1. who \notin Calls /\ None \notin Calls
  BY ChatAssumption
<1>2. lock[t] = None /\ lock' = [lock EXCEPT ![t] = who]
  BY DEF Emitting
<1>3. lock \in [Turns -> Turns \cup Calls \cup {"agent", None}]
  BY DEF TypeOK
<1>4. Routed'
  BY DEF CallInv, Routed
<1>5. ASSUME NEW u \in Turns, lock'[u] \in Calls
      PROVE  call[lock'[u]].pc = "emitting" /\ call[lock'[u]].turn = u
  BY <1>1, <1>2, <1>3, <1>5 DEF CallInv
<1>6. ASSUME NEW c \in Calls, call[c].pc = "emitting"
      PROVE  call[c].turn # t /\ call[c].turn \in Turns
  BY <1>1, <1>2, <1>6 DEF CallInv, Routed
<1>7. ASSUME NEW c \in Calls, call[c].pc = "emitting"
      PROVE  lock'[call[c].turn] = c
  BY <1>2, <1>3, <1>6, <1>7 DEF CallInv
<1> QED
  BY <1>4, <1>5, <1>7 DEF CallInv

\* A step that touches neither locks nor calls keeps the invariant of calls.
LEMMA QuietCalls ==
    ASSUME CallInv, UNCHANGED <<lock, call>>
    PROVE  CallInv'
BY DEF CallInv, Routed

\* An unlock acknowledges the call that held the lock.
LEMMA UnlockCalls ==
    ASSUME TypeOK, CallInv, NEW t \in Turns, Unlock(t)
    PROVE  CallInv'
<1>1. /\ lock \in [Turns -> Turns \cup Calls \cup {"agent", None}]
      /\ call \in [Calls -> CallStates]
  BY DEF TypeOK, CallStates
<1>2. lock' = [lock EXCEPT ![t] = None] /\ None \notin Calls
  BY ChatAssumption DEF Unlock
<1>3. \A c \in Calls : c = lock[t] => call'[c].turn = call[c].turn /\ call'[c].tool = call[c].tool
                                       /\ call'[c].pc = "acked"
  BY <1>1 DEF Unlock, CallStates
<1>8. \A c \in Calls : c # lock[t] => call'[c] = call[c]
  BY DEF Unlock
<1>4. \A c \in Calls : c = lock[t] => call[c].pc = "emitting" /\ call[c].turn = t
  BY DEF CallInv
<1>9. Routed'
  <2> SUFFICES ASSUME NEW c \in Calls
               PROVE  /\ call'[c].pc \in {"admitted", "resolved", "emitting", "acked"} => call'[c].turn \in Turns
                      /\ call'[c].pc \in {"resolved", "emitting", "acked"}
                            => call'[c].tool \in UITools[call'[c].turn]
    BY DEF Routed
  <2>1. CASE c = lock[t]
    BY <1>3, <1>4, <2>1 DEF CallInv, Routed
  <2>2. CASE c # lock[t]
    <3>1. call'[c] = call[c]
      BY <1>8, <2>2
    <3> QED
      BY <3>1 DEF CallInv, Routed
  <2> QED
    BY <2>1, <2>2
<1>5. ASSUME NEW u \in Turns, lock'[u] \in Calls
      PROVE  call'[lock'[u]].pc = "emitting" /\ call'[lock'[u]].turn = u
  <2>1. u # t /\ lock'[u] = lock[u] /\ lock[u] \in Calls
    BY <1>1, <1>2, <1>5
  <2>2. call[lock[u]].pc = "emitting" /\ call[lock[u]].turn = u
    BY <1>5, <2>1 DEF CallInv
  <2>3. lock[u] # lock[t]
    BY <1>4, <2>1, <2>2
  <2>4. call'[lock[u]] = call[lock[u]]
    BY <1>8, <2>1, <2>3
  <2> QED
    BY <2>1, <2>2, <2>4
<1>7. ASSUME NEW c \in Calls, call'[c].pc = "emitting"
      PROVE  lock'[call'[c].turn] = c
  <2>1. c # lock[t] /\ call'[c] = call[c]
    BY <1>3, <1>7, <1>8
  <2>2. call[c].turn \in Turns /\ call[c].turn # t
    BY <1>7, <2>1 DEF CallInv, Routed
  <2> QED
    BY <1>1, <1>2, <1>7, <2>1, <2>2 DEF CallInv
<1> QED
  BY <1>9, <1>5, <1>7 DEF CallInv

\* A call that goes on, and does not emit yet, disturbs none that does.
LEMMA RouteCalls ==
    ASSUME TypeOK, CallInv, NEW c \in Calls, call[c].pc \in {"new", "admitted", "resolved"},
           lock' = lock, NEW state \in CallStates, call' = [call EXCEPT ![c] = state],
           state.pc \in {"admitted", "resolved", "answered"},
           state.pc \in {"admitted", "resolved"} => state.turn \in Turns,
           state.pc = "resolved" => state.tool \in UITools[state.turn]
    PROVE  CallInv'
<1>1. call \in [Calls -> CallStates]
  BY DEF TypeOK, CallStates
<1>2. call'[c] = state /\ \A d \in Calls \ {c} : call'[d] = call[d]
  BY <1>1
<1>4. Routed'
  <2> SUFFICES ASSUME NEW d \in Calls
               PROVE  /\ call'[d].pc \in {"admitted", "resolved", "emitting", "acked"} => call'[d].turn \in Turns
                      /\ call'[d].pc \in {"resolved", "emitting", "acked"}
                            => call'[d].tool \in UITools[call'[d].turn]
    BY DEF Routed
  <2>1. CASE d = c
    BY <1>2, <2>1
  <2>2. CASE d # c
    <3>1. call'[d] = call[d]
      BY <1>2, <2>2
    <3> QED
      BY <3>1 DEF CallInv, Routed
  <2> QED
    BY <2>1, <2>2
<1>5. ASSUME NEW u \in Turns, lock[u] \in Calls
      PROVE  call'[lock[u]].pc = "emitting" /\ call'[lock[u]].turn = u
  <2>1. call[lock[u]].pc = "emitting" /\ call[lock[u]].turn = u
    BY <1>5 DEF CallInv
  <2>2. lock[u] # c
    BY <2>1
  <2>3. call'[lock[u]] = call[lock[u]]
    BY <1>2, <1>5, <2>2
  <2> QED
    BY <2>1, <2>3
<1>6. ASSUME NEW d \in Calls, call'[d].pc = "emitting"
      PROVE  lock[call'[d].turn] = d
  <2>1. d # c
    BY <1>2, <1>6
  <2>2. call'[d] = call[d]
    BY <1>2, <2>1
  <2> QED
    BY <1>6, <2>2 DEF CallInv
<1> QED
  BY <1>4, <1>5, <1>6 DEF CallInv

\* A call that starts to emit takes the lock.
LEMMA EmitOfCall ==
    ASSUME TypeOK, CallInv, NEW c \in Calls, EmitContextualToolCall(c)
    PROVE  CallInv'
<1> DEFINE t == call[c].turn
<1>1. call \in [Calls -> CallStates] /\ call[c].pc = "resolved" /\ t \in Turns /\ call[c].tool \in UITools[t]
  BY DEF TypeOK, CallStates, EmitContextualToolCall, CallInv, Routed
<1>2. call' = [call EXCEPT ![c].pc = "emitting"]
  BY DEF EmitContextualToolCall
<1>3. /\ call'[c].pc = "emitting" /\ call'[c].turn = t /\ call'[c].tool = call[c].tool
      /\ \A d \in Calls \ {c} : call'[d] = call[d]
  BY <1>1, <1>2 DEF CallStates
<1>4. PICK list : Emitting(t, c, list, textOpen[t])
  BY DEF EmitContextualToolCall
<1>6. /\ lock \in [Turns -> Turns \cup Calls \cup {"agent", None}]
      /\ lock[t] = None /\ lock' = [lock EXCEPT ![t] = c]
  BY <1>4 DEF TypeOK, Emitting
<1>7. lock'[t] = c /\ None \notin Calls /\ \A u \in Turns \ {t} : lock'[u] = lock[u]
  BY <1>1, <1>6, ChatAssumption
<1> HIDE DEF t
<1>8. Routed'
  <2> SUFFICES ASSUME NEW d \in Calls
               PROVE  /\ call'[d].pc \in {"admitted", "resolved", "emitting", "acked"} => call'[d].turn \in Turns
                      /\ call'[d].pc \in {"resolved", "emitting", "acked"}
                            => call'[d].tool \in UITools[call'[d].turn]
    BY DEF Routed
  <2>1. CASE d = c
    BY <1>1, <1>3, <2>1
  <2>2. CASE d # c
    <3>1. call'[d] = call[d]
      BY <1>3, <2>2
    <3> QED
      BY <3>1 DEF CallInv, Routed
  <2> QED
    BY <2>1, <2>2
<1>9. ASSUME NEW u \in Turns, lock'[u] \in Calls
      PROVE  call'[lock'[u]].pc = "emitting" /\ call'[lock'[u]].turn = u
  <2>1. CASE u = t
    BY <1>3, <1>7, <2>1
  <2>2. CASE u # t
    <3>1. lock'[u] = lock[u]
      BY <1>7, <2>2
    <3>2. call[lock[u]].pc = "emitting" /\ call[lock[u]].turn = u
      BY <1>9, <3>1 DEF CallInv
    <3>3. lock[u] # c
      BY <1>1, <3>2
    <3>4. call'[lock[u]] = call[lock[u]]
      BY <1>3, <1>9, <3>1, <3>3
    <3> QED
      BY <3>1, <3>2, <3>4
  <2> QED
    BY <2>1, <2>2
<1>10. ASSUME NEW d \in Calls, call'[d].pc = "emitting"
       PROVE  lock'[call'[d].turn] = d
  <2>1. CASE d = c
    BY <1>3, <1>7, <2>1
  <2>2. CASE d # c
    <3>1. call'[d] = call[d]
      BY <1>3, <2>2
    <3>2. call[d].turn \in Turns /\ lock[call[d].turn] = d
      BY <1>10, <3>1 DEF CallInv, Routed
    <3>3. call[d].turn # t
      BY <1>6, <1>7, <3>2
    <3> QED
      BY <1>7, <3>1, <3>2, <3>3
  <2> QED
    BY <2>1, <2>2
<1> QED
  BY <1>8, <1>9, <1>10 DEF CallInv

\* The steps of tool calls keep the invariant of calls.
LEMMA CallStepCalls ==
    ASSUME TypeOK, CallInv, NEW c \in Calls, CallStep(c)
    PROVE  CallInv'
<1>0. /\ Answered \in CallStates /\ Answered.pc = "answered"
      /\ call \in [Calls -> CallStates]
  BY DEF Answered, CallStates, TypeOK
<1>1. CASE \E t \in Turns, tool \in Tools : Admit(c, t, tool)
  <2>1. PICK t \in Turns, tool \in Tools : Admit(c, t, tool)
    BY <1>1
  <2>2. [pc |-> "admitted", turn |-> t, tool |-> tool] \in CallStates
    BY DEF CallStates
  <2> DEFINE state == IF t \in turns THEN [pc |-> "admitted", turn |-> t, tool |-> tool] ELSE Answered
  <2>3. state \in CallStates /\ state.pc \in {"admitted", "answered"} /\ (state.pc = "admitted" => state.turn = t)
    BY <1>0, <2>2
  <2>4. call[c].pc = "new" /\ call' = [call EXCEPT ![c] = state] /\ lock' = lock
    BY <2>1 DEF Admit, stream
  <2> HIDE DEF state
  <2> QED
    BY <2>3, <2>4, RouteCalls
<1>2. CASE Resolve(c)
  <2>1. CASE call[c].turn \in turns /\ call[c].tool \in UITools[call[c].turn]
    <3>1. /\ Resolved(c) \in CallStates /\ Resolved(c).pc = "resolved"
          /\ Resolved(c).turn = call[c].turn /\ Resolved(c).tool = call[c].tool
      BY <1>0 DEF Resolved, CallStates
    <3>2. call[c].pc = "admitted" /\ call' = [call EXCEPT ![c] = Resolved(c)] /\ lock' = lock
      BY <1>2, <2>1 DEF Resolve, stream
    <3>3. call[c].turn \in Turns
      BY <3>2 DEF CallInv, Routed
    <3> QED
      BY <2>1, <3>1, <3>2, <3>3, RouteCalls
  <2>2. CASE ~(call[c].turn \in turns /\ call[c].tool \in UITools[call[c].turn])
    <3>1. call[c].pc = "admitted" /\ call' = [call EXCEPT ![c] = Answered] /\ lock' = lock
      BY <1>2, <2>2 DEF Resolve, stream
    <3> QED
      BY <1>0, <3>1, RouteCalls
  <2> QED
    BY <2>1, <2>2
<1>3. CASE EmitContextualToolCall(c)
  BY <1>3, EmitOfCall
<1>4. CASE RejectArguments(c)
  <2>1. call[c].pc = "resolved" /\ call' = [call EXCEPT ![c] = Answered] /\ lock' = lock
    BY <1>4 DEF RejectArguments, stream
  <2> QED
    BY <1>0, <2>1, RouteCalls
<1> QED
  BY <1>1, <1>2, <1>3, <1>4 DEF CallStep

\* What the handler and the agent emit is no call of a browser's tool.
Plain == {<<>>, <<Event("RunStarted")>>, <<Event("RunFinished")>>, <<Event("RunError")>>,
          <<Event("TextEnd"), Event("RunFinished")>>, <<Event("TextEnd"), Event("RunError")>>,
          <<Event("Tool")>>, <<Event("TextContent")>>, <<Event("TextStart"), Event("TextContent")>>}

\* What the handler and the agent emit are sequences of events.
LEMMA PlainTypes == Plain \subseteq Seq(Events)
BY EventTypes DEF Plain, Kinds

\* Every step of the handler or the agent leaves the calls, and either leaves the
\* stream or queues such events.
LEMMA OtherStep ==
    ASSUME TypeOK, NEW t \in Turns,
           \/ Handle(t) \/ BrowserLeaves(t) \/ ConnectionLost(t)
           \/ \E kind \in {"blank", "text", "tool"} : SessionUpdate(t, kind)
           \/ \E tool \in Tools : ExtToolCall(t, tool)
    PROVE  /\ call' = call
           /\ \/ UNCHANGED stream
              \/ \E who \in {t, "agent"}, list \in Plain, open \in BOOLEAN : Emitting(t, who, list, open)
<1>1. textOpen[t] \in BOOLEAN
  BY DEF TypeOK
<1>2. CASE StartRun(t)
  BY <1>1, <1>2 DEF StartRun, Plain
<1>3. CASE EndRun(t)
  <2>1. \A kind \in {"RunFinished", "RunError"} : Ending(t, kind) \in Plain
    BY DEF Ending, Plain
  <2> QED
    BY <1>3, <2>1 DEF EndRun
<1>4. CASE \E kind \in {"blank", "text", "tool"} : SessionUpdate(t, kind)
  <2>1. PICK kind \in {"blank", "text", "tool"} : SessionUpdate(t, kind)
    BY <1>4
  <2>2. CASE kind = "blank"
    BY <1>1, <2>1, <2>2 DEF SessionUpdate, Plain
  <2>3. CASE kind = "tool"
    BY <1>1, <2>1, <2>3 DEF SessionUpdate, Plain
  <2>4. CASE kind = "text"
    BY <2>1, <2>4 DEF SessionUpdate, Plain
  <2> QED
    BY <2>2, <2>3, <2>4
<1>5. CASE BrowserLeaves(t) \/ ConnectionLost(t) \/ \E tool \in Tools : ExtToolCall(t, tool)
  BY <1>5 DEF BrowserLeaves, ConnectionLost, ExtToolCall
<1>6. CASE Handle(t) /\ ~StartRun(t) /\ ~EndRun(t)
  BY <1>6 DEF Handle, Dial, DialFails, Initialize, RequestFails, NewSession, Publish, PromptReturns,
     PromptFails, Unpublish, CloseSession, CloseTurn, HangUp
<1> QED
  BY <1>2, <1>3, <1>4, <1>5, <1>6

\* The handler and the agent take a free lock, and disturb no call.
LEMMA OtherCalls ==
    ASSUME TypeOK, CallInv, NEW t \in Turns,
           \/ Handle(t) \/ BrowserLeaves(t) \/ ConnectionLost(t)
           \/ \E kind \in {"blank", "text", "tool"} : SessionUpdate(t, kind)
           \/ \E tool \in Tools : ExtToolCall(t, tool)
    PROVE  CallInv'
<1>1. CASE UNCHANGED stream
  BY <1>1, OtherStep, QuietCalls DEF stream
<1>2. CASE \E who \in {t, "agent"}, list \in Plain, open \in BOOLEAN : Emitting(t, who, list, open)
  BY <1>2, OtherStep, OthersEmit, PlainTypes
<1> QED
  BY <1>1, <1>2, OtherStep

\* The invariant of the calls and the types, from step to step.
LEMMA CallsStep ==
    ASSUME TypeOK, CallInv, [Next]_vars
    PROVE  TypeOK' /\ CallInv'
<1>1. CASE UNCHANGED vars
  <2>1. TypeOK'
    BY <1>1 DEF vars, stream, stores, TypeOK
  <2> QED
    BY <1>1, <2>1, QuietCalls DEF vars, stream
<1>2. ASSUME NEW t \in Turns, Emit(t) \/ Unlock(t)
      PROVE  TypeOK' /\ CallInv'
  <2>1. Emit(t) => UNCHANGED <<lock, call>>
    BY DEF Emit
  <2> QED
    BY <1>2, <2>1, StreamStepTypes, QuietCalls, UnlockCalls
<1>3. ASSUME NEW t \in Turns,
             \/ Handle(t) \/ BrowserLeaves(t) \/ ConnectionLost(t)
             \/ \E kind \in {"blank", "text", "tool"} : SessionUpdate(t, kind)
             \/ \E tool \in Tools : ExtToolCall(t, tool)
      PROVE  TypeOK' /\ CallInv'
  BY <1>3, HandleTypes, AgentTypes, OtherCalls
<1>4. ASSUME NEW c \in Calls, CallStep(c)
      PROVE  TypeOK' /\ CallInv'
  BY <1>4, CallStepTypes, CallStepCalls DEF CallInv
<1> QED
  BY <1>1, <1>2, <1>3, <1>4 DEF Next, CallStep

----------------------------------------------------------------------------
(* The registry of turns and the store of tools. *)

Registered == Handler \ {"idle", "hangUp", "returned"}
Published == {"startRun", "prompt", "finishRun", "failRun", "unpublish"}

\* The turns that may share their session's name, since a connection was lost.
Shared == lost \cup contested

\* A turn is registered from the dial to its end.  It has a name of the agent's for
\* itself, unless a connection was lost, and its tools are there as long as it runs.
StoreInv ==
    /\ turns = {t \in Turns : pc[t] \in Registered}
    /\ \A t \in Turns : pc[t] \in Holding =>
          session[t] \in SessionIds /\ (t \notin lost => inUse[session[t]] = t)
    /\ \A t, u \in Turns : pc[t] \in Holding /\ pc[u] \in Holding /\ session[t] = session[u] /\ t # u =>
          t \in Shared
    /\ \A id \in SessionIds : bySession[id] # None =>
          /\ pc[bySession[id]] \in Published /\ session[bySession[id]] = id
          /\ UITools[bySession[id]] # {}
    /\ \A t \in Turns : pc[t] \in Published /\ UITools[t] # {} /\ t \notin Shared =>
          bySession[session[t]] = t
    /\ misjudged \subseteq Shared

\* At the start nothing is registered or published.
LEMMA StoreInit == Init => StoreInv
BY DEF Init, StoreInv, Registered, Holding, Published, Shared, Handler

\* A step of the handler that leaves the session and the store of tools.
LEMMA PassOn ==
    ASSUME TypeOK, StoreInv, NEW t \in Turns, NEW from, NEW to \in Handler, Step(t, from, to),
           turns' = (IF to \in Registered THEN turns \cup {t} ELSE turns \ {t}),
           to \in Holding => from \in Holding, from \in Published <=> to \in Published,
           UNCHANGED <<session, bySession, inUse, lost, misjudged, contested>>
    PROVE  StoreInv'
<1>1. pc \in [Turns -> Handler] /\ pc[t] = from /\ pc' = [pc EXCEPT ![t] = to] /\ turns \subseteq Turns
      /\ bySession \in [SessionIds -> Turns \cup {None}]
  BY DEF TypeOK, Step
<1>2. turns' = {u \in Turns : pc'[u] \in Registered}
  BY <1>1 DEF StoreInv
<1>3. \A u \in Turns : /\ pc'[u] \in Holding => pc[u] \in Holding
                        /\ pc'[u] \in Published <=> pc[u] \in Published
  BY <1>1
<1> QED
  BY <1>1, <1>2, <1>3 DEF StoreInv, Shared

\* The handler's steps keep the registry and the store in step with it.
LEMMA HandleStore ==
    ASSUME TypeOK, StoreInv, NEW t \in Turns, Handle(t)
    PROVE  StoreInv'
<1>0. /\ pc \in [Turns -> Handler] /\ session \in [Turns -> SessionIds \cup {None}]
      /\ bySession \in [SessionIds -> Turns \cup {None}] /\ inUse \in [SessionIds -> Turns \cup {None}]
      /\ turns \subseteq Turns /\ None \notin Turns
  BY ChatAssumption DEF TypeOK
<1>1. CASE Dial(t) \/ Initialize(t) \/ DialFails(t) \/ RequestFails(t) \/ StartRun(t) \/ PromptReturns(t)
           \/ PromptFails(t) \/ EndRun(t) \/ CloseTurn(t)
  <2> DEFINE Arrows == {<<"idle", "returned">>, <<"initialize", "newSession">>, <<"initialize", "closeTurn">>,
                        <<"newSession", "closeTurn">>, <<"startRun", "prompt">>, <<"prompt", "finishRun">>,
                        <<"prompt", "failRun">>, <<"finishRun", "unpublish">>, <<"failRun", "unpublish">>}
  <2>2. UNCHANGED <<session, bySession, inUse, lost, misjudged, contested>>
    BY <1>1 DEF Dial, Initialize, DialFails, RequestFails, StartRun, PromptReturns, PromptFails, EndRun,
       CloseTurn, stores
  <2>3. CASE Dial(t)
    <3>1. Step(t, "idle", "initialize") /\ turns' = turns \cup {t}
      BY <2>3 DEF Dial
    <3> QED
      BY <3>1, <2>2, PassOn DEF Registered, Holding, Published, Handler
  <2>4. CASE CloseTurn(t)
    <3>1. Step(t, "closeTurn", "hangUp") /\ turns' = turns \ {t}
      BY <2>4 DEF CloseTurn
    <3> QED
      BY <3>1, <2>2, PassOn DEF Registered, Holding, Published, Handler
  <2>5. CASE ~Dial(t) /\ ~CloseTurn(t)
    <3>1. turns' = turns /\ \E a \in Arrows : Step(t, a[1], a[2])
      BY <1>1, <2>5 DEF Initialize, DialFails, RequestFails, StartRun, PromptReturns, PromptFails, EndRun, stores
    <3>2. PICK from \in Handler, to \in Handler : <<from, to>> \in Arrows /\ Step(t, from, to)
      BY <3>1 DEF Handler
    <3>3. /\ to \in Holding => from \in Holding
          /\ from \in Published <=> to \in Published
          /\ from \in Registered <=> to \in Registered
      BY <3>2 DEF Registered, Holding, Published, Handler
    <3>4. turns' = (IF to \in Registered THEN turns \cup {t} ELSE turns \ {t})
      BY <3>1, <3>2, <3>3 DEF Step, StoreInv
    <3> HIDE DEF Arrows
    <3> QED
      BY <3>2, <3>3, <3>4, <2>2, PassOn
  <2> QED
    BY <2>3, <2>4, <2>5
<1>2. CASE \E id \in SessionIds : NewSession(t, id)
  <2>1. PICK id \in SessionIds : NewSession(t, id)
    BY <1>2
  <2>2. /\ pc[t] = "newSession" /\ pc' = [pc EXCEPT ![t] = "publish"] /\ inUse[id] = None
        /\ session' = [session EXCEPT ![t] = id] /\ inUse' = [inUse EXCEPT ![id] = t]
        /\ turns' = turns /\ bySession' = bySession /\ misjudged' = misjudged /\ lost' = lost
        /\ contested' = IF \E u \in Turns : session[u] = id /\ pc[u] \in Holding
                        THEN contested \cup {t} ELSE contested
    BY <2>1 DEF NewSession, Step
  <2>3. Shared \subseteq Shared'
    BY <2>2 DEF Shared
  <2>4. \A u \in Turns : pc[u] \in Holding /\ session[u] = id => u \in Shared /\ t \in Shared'
    BY <1>0, <2>2 DEF StoreInv, Shared
  <2>5. pc'[t] = "publish" /\ session'[t] = id /\ \A u \in Turns \ {t} : pc'[u] = pc[u] /\ session'[u] = session[u]
    BY <1>0, <2>2
  <2>6. turns' = {u \in Turns : pc'[u] \in Registered}
    BY <2>2, <2>5 DEF StoreInv, Registered, Handler
  <2>7. ASSUME NEW u \in Turns, pc'[u] \in Holding
        PROVE  session'[u] \in SessionIds /\ (u \notin lost' => inUse'[session'[u]] = u)
    BY <1>0, <2>2, <2>5, <2>7 DEF StoreInv
  <2>8. ASSUME NEW u \in Turns, NEW v \in Turns, u # v, pc'[u] \in Holding, pc'[v] \in Holding,
               session'[u] = session'[v]
        PROVE  u \in Shared'
    <3>1. CASE u = t
      BY <2>4, <2>5, <2>8, <3>1
    <3>2. CASE v = t
      BY <2>3, <2>4, <2>5, <2>8, <3>2
    <3>3. CASE u # t /\ v # t
      BY <2>3, <2>5, <2>8, <3>3 DEF StoreInv
    <3> QED
      BY <3>1, <3>2, <3>3
  <2>9. \A i \in SessionIds : bySession'[i] # None =>
           /\ pc'[bySession'[i]] \in Published /\ session'[bySession'[i]] = i
           /\ UITools[bySession'[i]] # {}
    BY <1>0, <2>2, <2>5 DEF StoreInv, Published
  <2>10. \A u \in Turns : pc'[u] \in Published /\ UITools[u] # {} /\ u \notin Shared' =>
            bySession'[session'[u]] = u
    BY <2>2, <2>3, <2>5 DEF StoreInv, Published
  <2>11. misjudged' \subseteq Shared'
    BY <2>2, <2>3 DEF StoreInv
  <2> QED
    BY <2>6, <2>7, <2>8, <2>9, <2>10, <2>11 DEF StoreInv
<1>3. CASE Publish(t)
  <2>1. /\ pc[t] = "publish" /\ pc' = [pc EXCEPT ![t] = "startRun"]
        /\ turns' = turns /\ session' = session /\ inUse' = inUse /\ misjudged' = misjudged
        /\ lost' = lost /\ contested' = contested
        /\ bySession' = IF UITools[t] = {} THEN bySession ELSE [bySession EXCEPT ![session[t]] = t]
    BY <1>3 DEF Publish, Step
  <2>2. session[t] \in SessionIds
    BY <2>1 DEF StoreInv, Holding
  <2>3. \A u \in Turns : u # t /\ pc[u] \in Published /\ u \notin Shared =>
           session[u] \in SessionIds /\ session[u] # session[t]
    BY <1>0, <2>1 DEF StoreInv, Holding, Published
  <2>4. pc'[t] = "startRun" /\ \A u \in Turns \ {t} : pc'[u] = pc[u]
    BY <1>0, <2>1
  <2>5. /\ \A u \in Turns : pc'[u] \in Holding <=> pc[u] \in Holding
        /\ \A u \in Turns : pc'[u] \in Registered <=> pc[u] \in Registered
    BY <1>0, <2>1, <2>4 DEF Holding, Registered, Handler
  <2>6. \A i \in SessionIds : bySession'[i] # None =>
           /\ pc'[bySession'[i]] \in Published /\ session[bySession'[i]] = i
           /\ UITools[bySession'[i]] # {}
    BY <1>0, <2>1, <2>2, <2>4 DEF StoreInv, Published
  <2>7. \A u \in Turns : pc'[u] \in Published /\ UITools[u] # {} /\ u \notin Shared =>
           bySession'[session[u]] = u
    BY <1>0, <2>1, <2>2, <2>3, <2>4 DEF StoreInv
  <2> QED
    BY <2>1, <2>5, <2>6, <2>7 DEF StoreInv, Shared
<1>4. CASE Unpublish(t)
  <2>1. /\ pc[t] = "unpublish" /\ pc' = [pc EXCEPT ![t] = "closeSession"]
        /\ turns' = turns /\ session' = session /\ inUse' = inUse /\ misjudged' = misjudged
        /\ lost' = lost /\ contested' = contested
        /\ bySession' = IF UITools[t] = {} THEN bySession ELSE Released(t)
    BY <1>4 DEF Unpublish, Step
  <2>2. session[t] \in SessionIds
    BY <2>1 DEF StoreInv, Holding
  <2>3. \A id \in SessionIds : bySession'[id] # None => bySession'[id] = bySession[id] /\ bySession[id] # t
    BY <1>0, <2>1, <2>2 DEF StoreInv, Released
  <2>4. \A u \in Turns : u # t /\ pc[u] \in Published /\ u \notin Shared =>
           session[u] # session[t] /\ session[u] \in SessionIds
    BY <1>0, <2>1 DEF StoreInv, Holding, Published
  <2>5. \A u \in Turns : u # t /\ pc[u] \in Published /\ UITools[u] # {} /\ u \notin Shared =>
           bySession'[session[u]] = u
    BY <2>1, <2>4 DEF StoreInv, Released
  <2>6. pc'[t] = "closeSession" /\ \A u \in Turns \ {t} : pc'[u] = pc[u]
    BY <1>0, <2>1
  <2>7. /\ \A u \in Turns : pc'[u] \in Holding => pc[u] \in Holding
        /\ \A u \in Turns : pc'[u] \in Registered <=> pc[u] \in Registered
    BY <1>0, <2>1, <2>6 DEF Holding, Registered, Handler
  <2>8. \A i \in SessionIds : bySession'[i] # None =>
           /\ pc'[bySession'[i]] \in Published /\ session[bySession'[i]] = i
           /\ UITools[bySession'[i]] # {}
    BY <1>0, <2>3, <2>6 DEF StoreInv
  <2>9. \A u \in Turns : pc'[u] \in Published /\ UITools[u] # {} /\ u \notin Shared =>
           bySession'[session[u]] = u
    BY <2>5, <2>6 DEF Published
  <2> QED
    BY <2>1, <2>7, <2>8, <2>9 DEF StoreInv, Shared
<1>5. CASE CloseSession(t) \/ HangUp(t)
  <2>1. /\ \/ pc[t] = "closeSession" /\ pc' = [pc EXCEPT ![t] = "closeTurn"] /\ session' = session
           \/ pc[t] = "hangUp" /\ pc' = [pc EXCEPT ![t] = "returned"] /\ session' = [session EXCEPT ![t] = None]
        /\ turns' = turns /\ bySession' = bySession /\ misjudged' = misjudged
        /\ lost' = lost /\ contested' = contested /\ inUse' \in {inUse, Freed(t)}
    BY <1>5 DEF CloseSession, HangUp, Step
  <2>2. \A id \in SessionIds : inUse[id] # t => inUse'[id] = inUse[id]
    BY <2>1 DEF Freed
  <2>3. \A u \in Turns : u # t => session'[u] = session[u] /\ pc'[u] = pc[u]
    BY <1>0, <2>1
  <2>4. pc'[t] \notin Holding \cup Published /\ pc[t] \notin Published
        /\ (pc'[t] \in Registered <=> pc[t] \in Registered)
    BY <1>0, <2>1 DEF Holding, Published, Registered, Handler
  <2>5. turns' = {u \in Turns : pc'[u] \in Registered}
    BY <2>1, <2>3, <2>4 DEF StoreInv
  <2>6. \A u \in Turns : pc'[u] \in Holding =>
           session'[u] \in SessionIds /\ (u \notin lost => inUse'[session'[u]] = u)
    BY <2>2, <2>3, <2>4 DEF StoreInv
  <2>7. \A id \in SessionIds : bySession[id] # None => bySession[id] \in Turns /\ bySession[id] # t
    BY <1>0, <2>4 DEF StoreInv
  <2> QED
    BY <2>1, <2>3, <2>4, <2>5, <2>6, <2>7 DEF StoreInv, Shared
<1> QED
  BY <1>1, <1>2, <1>3, <1>4, <1>5 DEF Handle

\* A tool is judged rightly in a turn that has its session's name for itself.
LEMMA JudgedRightly ==
    ASSUME TypeOK, StoreInv, NEW t \in Turns, NEW tool \in Tools, ExtToolCall(t, tool), t \notin Shared
    PROVE  misjudged' = misjudged
<1>1. pc[t] = "prompt" /\ None \notin Turns
  BY ChatAssumption DEF ExtToolCall
<1>2. session[t] \in SessionIds
  BY <1>1 DEF StoreInv, Holding
<1>3. UITools[t] # {} => bySession[session[t]] = t
  BY <1>1 DEF StoreInv, Published
<1>4. ASSUME bySession[session[t]] # None PROVE bySession[session[t]] = t
  <2> DEFINE u == bySession[session[t]]
  <2>1. u \in Turns /\ pc[u] \in Published /\ session[u] = session[t]
    BY <1>2, <1>4 DEF StoreInv, TypeOK
  <2>2. pc[u] \in Holding /\ pc[t] \in Holding
    BY <1>1, <2>1 DEF Published, Holding
  <2> HIDE DEF u
  <2>3. u = t
    BY <2>1, <2>2 DEF StoreInv
  <2> QED
    BY <2>3 DEF u
<1>5. (bySession[session[t]] # None /\ tool \in UITools[bySession[session[t]]]) <=> tool \in UITools[t]
  BY <1>1, <1>3, <1>4
<1> QED
  BY <1>5 DEF ExtToolCall

\* Every step does.
LEMMA StoreStep ==
    ASSUME TypeOK, StoreInv, [Next]_vars
    PROVE  StoreInv'
<1>1. CASE UNCHANGED <<pc, session, stores, lost, misjudged, contested>>
  BY <1>1 DEF stores, StoreInv, Shared
<1>2. ASSUME NEW t \in Turns, Handle(t)
      PROVE  StoreInv'
  BY <1>2, HandleStore
<1>3. ASSUME NEW t \in Turns, NEW tool \in Tools, ExtToolCall(t, tool)
      PROVE  StoreInv'
  <2>1. /\ UNCHANGED <<pc, session, stores, lost, contested>>
        /\ misjudged' \in {misjudged, misjudged \cup {t}}
    BY <1>3, Zenon DEF ExtToolCall
  <2>2. misjudged' \subseteq Shared
    BY <1>3, <2>1, JudgedRightly DEF StoreInv
  <2> QED
    BY <2>1, <2>2 DEF StoreInv, Shared, stores
<1>4. ASSUME NEW t \in Turns, ConnectionLost(t)
      PROVE  StoreInv'
  <2>1. /\ UNCHANGED <<pc, session, turns, bySession, misjudged, contested>>
        /\ lost' = lost \cup {t} /\ inUse' = Freed(t)
    BY <1>4 DEF ConnectionLost
  <2>2. Shared \subseteq Shared'
    BY <2>1 DEF Shared
  <2>3. \A u \in Turns : pc[u] \in Holding =>
           session[u] \in SessionIds /\ (u \notin lost' => inUse'[session[u]] = u)
    BY <2>1 DEF StoreInv, Freed
  <2> QED
    BY <2>1, <2>2, <2>3 DEF StoreInv
<1>5. ASSUME NEW t \in Turns,
             \/ Emit(t) \/ Unlock(t) \/ BrowserLeaves(t)
             \/ \E kind \in {"blank", "text", "tool"} : SessionUpdate(t, kind)
      PROVE  UNCHANGED <<pc, session, stores, lost, misjudged, contested>>
  BY <1>5 DEF Emit, Unlock, BrowserLeaves, SessionUpdate
<1>6. ASSUME NEW c \in Calls, CallStep(c)
      PROVE  UNCHANGED <<pc, session, stores, lost, misjudged, contested>>
  BY <1>6 DEF CallStep, Admit, Resolve, EmitContextualToolCall, RejectArguments
<1>7. CASE UNCHANGED vars
  BY <1>1, <1>7 DEF vars
<1> QED
  BY <1>1, <1>2, <1>3, <1>4, <1>5, <1>6, <1>7 DEF Next, CallStep

----------------------------------------------------------------------------
(* The events of the browser's tools. *)

\* An event after which the events of its call go on, and one after which none must.
Ends(e) == e[2] \in Calls => e[1] = "UIEnd"
Follows(f, e) == Ends(e) \/ f \in {<<"UIArgs", e[2]>>, <<"UIEnd", e[2]>>}

\* The event is of a call of turn t, which emits or has emitted, or of none.
Mine(calls, t, e) ==
    e[2] \in Calls => calls[e[2]].turn = t /\ calls[e[2]].pc \in {"emitting", "acked"}

Chained(s) == \A i \in 1..Len(s) - 1 : Follows(s[i + 1], s[i])

Ended(s) == s # <<>> => Ends(s[Len(s)])

\* What was written and what is still to be written make up whole calls.
WholeInv ==
    \A t \in Turns :
       /\ \A i \in DOMAIN events[t] : Mine(call, t, events[t][i])
       /\ \A i \in DOMAIN queue[t] : Mine(call, t, queue[t][i])
       /\ Chained(events[t]) /\ Chained(queue[t]) /\ Ended(queue[t])
       /\ ~closed[t] /\ events[t] # <<>> =>
             IF queue[t] = <<>> THEN Ended(events[t])
             ELSE Follows(queue[t][1], events[t][Len(events[t])])

\* Empty streams are made up of whole calls.
LEMMA WholeInit == Init => WholeInv
<1>1. Chained(<<>>) /\ Ended(<<>>) /\ DOMAIN <<>> = {}
  BY DEF Chained, Ended
<1> QED
  BY <1>1 DEF Init, WholeInv

\* What the handler and the agent queue is chained, and is no call's.
LEMMA PlainWhole ==
    ASSUME NEW list \in Plain
    PROVE  Chained(list) /\ Ended(list) /\ \A i \in DOMAIN list : list[i][2] \notin Calls
<1>1. None \notin Calls
  BY ChatAssumption
<1>2. ASSUME NEW e, e[2] \notin Calls PROVE Ends(e)
  BY <1>2 DEF Ends
<1>3. \A kind : Event(kind)[2] \notin Calls
  BY <1>1 DEF Event
<1>4. \A i \in DOMAIN list : list[i][2] \notin Calls
  BY <1>3 DEF Plain
<1>5. list \in Seq(Events)
  BY PlainTypes
<1>6. Len(list) \in Nat /\ DOMAIN list = 1..Len(list) /\ (list # <<>> => Len(list) \in DOMAIN list)
  BY <1>5
<1> QED
  BY <1>2, <1>4, <1>6 DEF Chained, Ended, Follows

\* So is what a call queues, and it is the call's.
LEMMA CallWhole ==
    ASSUME NEW c \in Calls,
           NEW list \in {<<<<"UIStart", c>>, <<"UIEnd", c>>>>,
                         <<<<"UIStart", c>>, <<"UIArgs", c>>, <<"UIEnd", c>>>>}
    PROVE  Chained(list) /\ Ended(list) /\ \A i \in DOMAIN list : list[i][2] = c
<1>1. CASE list = <<<<"UIStart", c>>, <<"UIEnd", c>>>>
  BY <1>1 DEF Chained, Ended, Follows, Ends
<1>2. CASE list = <<<<"UIStart", c>>, <<"UIArgs", c>>, <<"UIEnd", c>>>>
  BY <1>2 DEF Chained, Ended, Follows, Ends
<1> QED
  BY <1>1, <1>2

\* A list of whole calls is queued.
LEMMA QueueWhole ==
    ASSUME TypeOK, WholeInv, NEW t \in Turns, NEW who, NEW list \in Seq(Events), NEW open,
           Emitting(t, who, list, open), Chained(list), Ended(list),
           \A i \in DOMAIN list : Mine(call', t, list[i]),
           \A u \in Turns, e \in Events : Mine(call, u, e) => Mine(call', u, e)
    PROVE  WholeInv'
<1>1. /\ queue \in [Turns -> Seq(Events)] /\ events \in [Turns -> Seq(Events)] /\ queue[t] = <<>>
      /\ queue' = [queue EXCEPT ![t] = list] /\ events' = events /\ closed' = closed
  BY DEF TypeOK, Emitting
<1>2. \A u \in Turns : /\ \A i \in DOMAIN events[u] : events[u][i] \in Events
                       /\ \A i \in DOMAIN queue[u] : queue[u][i] \in Events
  BY <1>1
<1>3. /\ queue'[t] = list
      /\ \A u \in Turns \ {t} : queue'[u] = queue[u]
  BY <1>1
<1>4. ASSUME NEW u \in Turns
      PROVE  /\ \A i \in DOMAIN events[u] : Mine(call', u, events[u][i])
             /\ \A i \in DOMAIN queue'[u] : Mine(call', u, queue'[u][i])
  <2>1. /\ \A i \in DOMAIN events[u] : Mine(call, u, events[u][i])
        /\ \A i \in DOMAIN queue[u] : Mine(call, u, queue[u][i])
    BY DEF WholeInv
  <2>2. \A i \in DOMAIN events[u] : Mine(call', u, events[u][i])
    BY <1>1, <1>2, <2>1
  <2>3. CASE u = t
    BY <1>3, <2>2, <2>3
  <2>4. CASE u # t
    BY <1>1, <1>2, <1>3, <2>1, <2>2, <2>4
  <2> QED
    BY <2>3, <2>4
<1>5. ASSUME NEW u \in Turns
      PROVE  /\ Chained(events[u]) /\ Chained(queue'[u]) /\ Ended(queue'[u])
             /\ ~closed[u] /\ events[u] # <<>> =>
                   IF queue'[u] = <<>> THEN Ended(events[u])
                   ELSE Follows(queue'[u][1], events[u][Len(events[u])])
  <2>1. CASE u # t
    BY <1>3, <2>1 DEF WholeInv
  <2>2. CASE u = t
    <3>1. ~closed[t] /\ events[t] # <<>> => Ended(events[t])
      BY <1>1 DEF WholeInv
    <3>2. ~closed[t] /\ events[t] # <<>> => \A f : Follows(f, events[t][Len(events[t])])
      BY <3>1 DEF Ended, Follows
    <3> QED
      BY <1>3, <2>2, <3>1, <3>2 DEF WholeInv
  <2> QED
    BY <2>1, <2>2
<1> QED
  BY <1>1, <1>4, <1>5 DEF WholeInv

\* A write keeps the stream and the queue together whole.
LEMMA EmitWhole ==
    ASSUME TypeOK, WholeInv, NEW t \in Turns, Emit(t)
    PROVE  WholeInv'
<1> DEFINE q == queue[t]
           w == events[t]
<1>1. /\ queue \in [Turns -> Seq(Events)] /\ events \in [Turns -> Seq(Events)]
      /\ closed \in [Turns -> BOOLEAN] /\ q \in Seq(Events) /\ w \in Seq(Events) /\ q # <<>>
  BY DEF TypeOK, Emit
<1>2. /\ call' = call /\ queue' = [queue EXCEPT ![t] = Tail(q)]
      /\ \/ ~closed[t] /\ events' = [events EXCEPT ![t] = Append(w, q[1])] /\ closed' = closed
         \/ closed' = [closed EXCEPT ![t] = TRUE] /\ events' = events
  BY <1>1 DEF Emit
<1>3. \A u \in Turns \ {t} : queue'[u] = queue[u] /\ events'[u] = events[u] /\ closed'[u] = closed[u]
  BY <1>1, <1>2
<1>4. \A u \in Turns : \A e : Mine(call', u, e) <=> Mine(call, u, e)
  BY <1>2 DEF Mine
<1>5. /\ Len(q) \in Nat \ {0} /\ DOMAIN q = 1..Len(q) /\ Len(Tail(q)) = Len(q) - 1
      /\ DOMAIN Tail(q) = 1..Len(q) - 1 /\ (\A i \in 1..Len(q) - 1 : Tail(q)[i] = q[i + 1])
      /\ (Tail(q) = <<>> <=> Len(q) = 1)
  <2> SUFFICES ASSUME NEW s \in Seq(Events), s # <<>>
               PROVE  /\ Len(s) \in Nat \ {0} /\ DOMAIN s = 1..Len(s) /\ Len(Tail(s)) = Len(s) - 1
                      /\ DOMAIN Tail(s) = 1..Len(s) - 1 /\ (\A i \in 1..Len(s) - 1 : Tail(s)[i] = s[i + 1])
                      /\ (Tail(s) = <<>> <=> Len(s) = 1)
    BY <1>1
  <2>1. Len(s) \in Nat \ {0} /\ DOMAIN s = 1..Len(s)
    OBVIOUS
  <2>2. Tail(s) \in Seq(Events) /\ Len(Tail(s)) = Len(s) - 1
    OBVIOUS
  <2>3. \A i \in 1..Len(s) - 1 : Tail(s)[i] = s[i + 1]
    OBVIOUS
  <2>4. DOMAIN Tail(s) = 1..Len(s) - 1
    BY <2>2
  <2>5. Tail(s) = <<>> <=> Len(s) = 1
    <3>1. \A r \in Seq(Events) : r = <<>> <=> Len(r) = 0
      BY EmptySeq
    <3>2. Tail(s) = <<>> <=> Len(Tail(s)) = 0
      BY <2>2, <3>1
    <3>3. Len(s) - 1 = 0 <=> Len(s) = 1
      BY <2>1
    <3> QED
      BY <2>2, <3>2, <3>3
  <2> QED
    BY <2>1, <2>2, <2>3, <2>4, <2>5
<1>6. /\ Len(w) \in Nat /\ DOMAIN w = 1..Len(w) /\ Len(Append(w, q[1])) = Len(w) + 1
      /\ DOMAIN Append(w, q[1]) = 1..Len(w) + 1
      /\ (\A i \in 1..Len(w) : Append(w, q[1])[i] = w[i])
      /\ Append(w, q[1])[Len(w) + 1] = q[1] /\ (w = <<>> <=> Len(w) = 0)
  <2>1. q[1] \in Events
    BY <1>1, <1>5
  <2>2. Append(w, q[1]) \in Seq(Events) /\ Len(Append(w, q[1])) = Len(w) + 1 /\ Len(w) \in Nat
    BY <1>1, <2>1
  <2>3. DOMAIN w = 1..Len(w) /\ DOMAIN Append(w, q[1]) = 1..Len(w) + 1
    BY <1>1, <2>2
  <2>4. (\A i \in 1..Len(w) : Append(w, q[1])[i] = w[i]) /\ Append(w, q[1])[Len(w) + 1] = q[1]
    BY <1>1, <2>1
  <2>5. w = <<>> <=> Len(w) = 0
    BY <1>1, EmptySeq
  <2> QED
    BY <2>2, <2>3, <2>4, <2>5
<1>7. /\ \A i \in DOMAIN w : Mine(call, t, w[i])
      /\ \A i \in DOMAIN q : Mine(call, t, q[i])
      /\ Chained(w) /\ Chained(q) /\ Ended(q)
      /\ ~closed[t] /\ w # <<>> => Follows(q[1], w[Len(w)])
  BY <1>1 DEF WholeInv
<1>8. queue'[t] = Tail(q)
  BY <1>1, <1>2
<1>9. \/ ~closed'[t] /\ ~closed[t] /\ events'[t] = Append(w, q[1])
      \/ closed'[t] /\ events'[t] = w
  BY <1>1, <1>2
<1> HIDE DEF q, w
<1>10. /\ \A i \in DOMAIN Tail(q) : Mine(call, t, Tail(q)[i])
       /\ Chained(Tail(q))
  BY <1>5, <1>7 DEF Chained
<1>11. Ended(Tail(q))
  <2>1. Tail(q) # <<>> => Len(q) - 1 \in 1..Len(q) - 1 /\ Tail(q)[Len(Tail(q))] = q[Len(q)]
    BY <1>5
  <2> QED
    BY <1>5, <1>7, <2>1 DEF Ended
<1>12. /\ \A i \in DOMAIN Append(w, q[1]) : Mine(call, t, Append(w, q[1])[i])
  BY <1>5, <1>6, <1>7
<1>13. ASSUME ~closed[t] PROVE Chained(Append(w, q[1]))
  <2>0. Len(Append(w, q[1])) - 1 = Len(w)
    BY <1>6
  <2> SUFFICES ASSUME NEW i \in 1..Len(w)
               PROVE  Follows(Append(w, q[1])[i + 1], Append(w, q[1])[i])
    BY <2>0 DEF Chained
  <2>3. i < Len(w) \/ i = Len(w)
    <3> DEFINE n == Len(w)
    <3>1. n \in Nat /\ i \in 1..n
      BY <1>6
    <3> HIDE DEF n
    <3>2. i < n \/ i = n
      BY <3>1
    <3> QED
      BY <3>2 DEF n
  <2>1. CASE i < Len(w)
    <3>1. i \in 1..Len(w) - 1 /\ i + 1 \in 1..Len(w)
      BY <1>6, <2>1
    <3> QED
      BY <1>6, <1>7, <3>1 DEF Chained
  <2>2. CASE i = Len(w)
    BY <1>6, <1>7, <1>13, <2>2
  <2> QED
    BY <2>1, <2>2, <2>3
<1>14. ~closed[t] => IF Tail(q) = <<>> THEN Ended(Append(w, q[1]))
                     ELSE Follows(Tail(q)[1], Append(w, q[1])[Len(Append(w, q[1]))])
  <2>1. CASE Tail(q) = <<>>
    BY <1>5, <1>6, <1>7, <2>1 DEF Ended
  <2>2. CASE Tail(q) # <<>>
    <3>1. 1 \in 1..Len(q) - 1
      BY <1>5, <2>2
    <3> QED
      BY <1>5, <1>6, <1>7, <2>2, <3>1 DEF Chained
  <2> QED
    BY <2>1, <2>2
<1>15. ASSUME NEW u \in Turns
       PROVE  /\ \A i \in DOMAIN events'[u] : Mine(call', u, events'[u][i])
              /\ \A i \in DOMAIN queue'[u] : Mine(call', u, queue'[u][i])
              /\ Chained(events'[u]) /\ Chained(queue'[u]) /\ Ended(queue'[u])
              /\ ~closed'[u] /\ events'[u] # <<>> =>
                    IF queue'[u] = <<>> THEN Ended(events'[u])
                    ELSE Follows(queue'[u][1], events'[u][Len(events'[u])])
  <2>1. CASE u # t
    BY <1>3, <1>4, <2>1 DEF WholeInv
  <2>2. CASE u = t
    BY <1>4, <1>7, <1>8, <1>9, <1>10, <1>11, <1>12, <1>13, <1>14, <2>2
  <2> QED
    BY <2>1, <2>2
<1> QED
  BY <1>15 DEF WholeInv

\* So does a step that touches no stream, and no call whose events are in one.
LEMMA QuietWhole ==
    ASSUME TypeOK, WholeInv, UNCHANGED <<queue, events, closed>>,
           \A u \in Turns, e \in Events : Mine(call, u, e) => Mine(call', u, e)
    PROVE  WholeInv'
<1>1. \A u \in Turns : queue[u] \in Seq(Events) /\ events[u] \in Seq(Events)
  BY DEF TypeOK
<1>2. \A u \in Turns : /\ \A i \in DOMAIN events[u] : events[u][i] \in Events
                       /\ \A i \in DOMAIN queue[u] : queue[u][i] \in Events
  BY <1>1
<1> QED
  BY <1>2 DEF WholeInv

\* An unlock leaves every event its browser's.
LEMMA UnlockMine ==
    ASSUME TypeOK, NEW t \in Turns, Unlock(t), NEW u \in Turns, NEW e \in Events, Mine(call, u, e)
    PROVE  Mine(call', u, e)
<1>1. call \in [Calls -> CallStates]
  BY DEF TypeOK, CallStates
<1>2. \A c \in Calls : call'[c] = call[c] \/ (call'[c].turn = call[c].turn /\ call'[c].pc = "acked")
  BY <1>1 DEF Unlock, CallStates
<1> QED
  BY <1>2 DEF Mine

\* A step of a call leaves every event its browser's.
LEMMA CallMine ==
    ASSUME TypeOK, NEW c \in Calls, CallStep(c), NEW u \in Turns, NEW e \in Events, Mine(call, u, e)
    PROVE  Mine(call', u, e)
<1>1. call \in [Calls -> CallStates]
  BY DEF TypeOK, CallStates
<1>2. call[c].pc \in {"new", "admitted", "resolved"} /\ \A d \in Calls \ {c} : call'[d] = call[d]
  BY <1>1 DEF CallStep, Admit, Resolve, EmitContextualToolCall, RejectArguments
<1> QED
  BY <1>2 DEF Mine

\* A call queues all of its events at once, for its own turn.
LEMMA EmitOfCallWhole ==
    ASSUME TypeOK, CallInv, WholeInv, NEW c \in Calls, EmitContextualToolCall(c)
    PROVE  WholeInv'
<1>1. PICK list \in {<<<<"UIStart", c>>, <<"UIEnd", c>>>>,
                     <<<<"UIStart", c>>, <<"UIArgs", c>>, <<"UIEnd", c>>>>} :
         Emitting(call[c].turn, c, list, textOpen[call[c].turn])
  BY DEF EmitContextualToolCall
<1>2. call[c].turn \in Turns /\ list \in Seq(Events)
  BY <1>1, EventTypes DEF EmitContextualToolCall, CallInv, Routed
<1>3. Chained(list) /\ Ended(list) /\ \A i \in DOMAIN list : list[i][2] = c
  BY <1>1, CallWhole
<1>4. call'[c].turn = call[c].turn /\ call'[c].pc = "emitting"
  BY DEF EmitContextualToolCall, TypeOK
<1>5. \A i \in DOMAIN list : Mine(call', call[c].turn, list[i])
  BY <1>3, <1>4 DEF Mine
<1>6. \A u \in Turns, e \in Events : Mine(call, u, e) => Mine(call', u, e)
  BY CallMine DEF CallStep
<1> QED
  BY <1>1, <1>2, <1>3, <1>5, <1>6, QueueWhole

\* Every step keeps streams made up of whole calls.
LEMMA WholeStep ==
    ASSUME TypeOK, CallInv, WholeInv, [Next]_vars
    PROVE  WholeInv'
<1>1. CASE UNCHANGED vars
  BY <1>1, QuietWhole DEF vars, stream
<1>2. ASSUME NEW t \in Turns, Emit(t)
      PROVE  WholeInv'
  BY <1>2, EmitWhole
<1>3. ASSUME NEW t \in Turns, Unlock(t)
      PROVE  WholeInv'
  BY <1>3, UnlockMine, QuietWhole DEF Unlock
<1>4. ASSUME NEW t \in Turns,
             \/ Handle(t) \/ BrowserLeaves(t) \/ ConnectionLost(t)
             \/ \E kind \in {"blank", "text", "tool"} : SessionUpdate(t, kind)
             \/ \E tool \in Tools : ExtToolCall(t, tool)
      PROVE  WholeInv'
  <2>1. call' = call
    BY <1>4, OtherStep
  <2>2. CASE UNCHANGED stream
    BY <2>1, <2>2, QuietWhole DEF stream
  <2>3. CASE \E who \in {t, "agent"}, list \in Plain, open \in BOOLEAN : Emitting(t, who, list, open)
    <3>1. PICK who \in {t, "agent"}, list \in Plain, open \in BOOLEAN : Emitting(t, who, list, open)
      BY <2>3
    <3>2. list \in Seq(Events)
      BY PlainTypes
    <3>3. Chained(list) /\ Ended(list) /\ \A i \in DOMAIN list : Mine(call', t, list[i])
      BY PlainWhole DEF Mine
    <3>4. \A u \in Turns, e \in Events : Mine(call, u, e) => Mine(call', u, e)
      BY <2>1
    <3> QED
      BY <3>1, <3>2, <3>3, <3>4, QueueWhole
  <2> QED
    BY <1>4, <2>2, <2>3, OtherStep
<1>5. ASSUME NEW c \in Calls, CallStep(c)
      PROVE  WholeInv'
  <2>1. CASE EmitContextualToolCall(c)
    BY <2>1, EmitOfCallWhole
  <2>2. CASE UNCHANGED stream
    BY <1>5, <2>2, CallMine, QuietWhole DEF stream
  <2> QED
    BY <1>5, <2>1, <2>2 DEF CallStep, Admit, Resolve, RejectArguments
<1> QED
  BY <1>1, <1>2, <1>3, <1>4, <1>5 DEF Next, CallStep

----------------------------------------------------------------------------
(* What holds in every run. *)

\* Every value has its type, and who has events to emit holds the lock.
THEOREM TypeCorrect == Spec => []TypeOK
<1>1. Init => TypeOK /\ CallInv
  BY TypeInit, CallInvInit
<1>2. TypeOK /\ CallInv /\ [Next]_vars => (TypeOK /\ CallInv)'
  BY CallsStep
<1> QED
  BY <1>1, <1>2, PTL DEF Spec

\* The calls and the locks agree: the inductive invariant of the streams.
THEOREM CallInvariant == Spec => []CallInv
<1>1. Init => TypeOK /\ CallInv
  BY TypeInit, CallInvInit
<1>2. TypeOK /\ CallInv /\ [Next]_vars => (TypeOK /\ CallInv)'
  BY CallsStep
<1> QED
  BY <1>1, <1>2, PTL DEF Spec

\* The registry and the store of tools follow the turns: their inductive invariant.
THEOREM StoreInvariant == Spec => []StoreInv
<1>1. Init => StoreInv
  BY StoreInit
<1>2. TypeOK /\ StoreInv /\ [Next]_vars => StoreInv'
  BY StoreStep
<1> QED
  BY <1>1, <1>2, TypeCorrect, PTL DEF Spec

\* During a prompt the tools of the browser are known, and no others, but for turns
\* that share a name since a connection was lost.
THEOREM ToolsKnown == Spec => []DeclaredToolsAreKnown
<1>1. StoreInv => DeclaredToolsAreKnown
  BY DEF StoreInv, Shared, DeclaredToolsAreKnown
<1> QED
  BY <1>1, StoreInvariant, PTL

\* A turn that has ended left nothing in the registry or in the store.
THEOREM NothingLeft == Spec => []NothingLeftBehind
<1>1. TypeOK /\ StoreInv => NothingLeftBehind
  <2> SUFFICES ASSUME TypeOK, StoreInv, NEW t \in Turns, pc[t] = "returned"
               PROVE  t \notin turns /\ \A id \in SessionIds : bySession[id] # t
    BY DEF NothingLeftBehind
  <2>1. t # None
    BY ChatAssumption
  <2> QED
    BY <2>1 DEF StoreInv, Registered, Published
<1> QED
  BY <1>1, TypeCorrect, StoreInvariant, PTL

\* What stands after an event when a queue is put behind the stream.
LEMMA Joined ==
    ASSUME NEW w \in Seq(Events), NEW q \in Seq(Events), NEW i \in 1..Len(w)
    PROVE  /\ i < Len(w) => i < Len(w \o q) /\ (w \o q)[i + 1] = w[i + 1]
           /\ i = Len(w) /\ q # <<>> => i < Len(w \o q) /\ (w \o q)[i + 1] = q[1]
<1> DEFINE n == Len(w)
           m == Len(q)
<1>1. n \in Nat /\ m \in Nat /\ i \in 1..n /\ Len(w \o q) = n + m /\ (q # <<>> => m > 0)
  BY EmptySeq
<1>2. \A j \in 1..n + m : (w \o q)[j] = IF j <= n THEN w[j] ELSE q[j - n]
  OBVIOUS
<1>5. m > 0 => (w \o q)[n + 1] = q[1]
  <2>1. m > 0 => n + 1 \in 1..n + m /\ ~(n + 1 <= n) /\ n + 1 - n = 1
    BY <1>1
  <2> QED
    BY <1>2, <2>1
<1> HIDE DEF n, m
<1>3. ASSUME i < n PROVE i < n + m /\ (w \o q)[i + 1] = w[i + 1]
  <2>1. i + 1 \in 1..n + m /\ i + 1 <= n /\ i < n + m
    BY <1>1, <1>3
  <2> QED
    BY <1>2, <2>1
<1>4. ASSUME i = n, q # <<>> PROVE i < n + m /\ (w \o q)[i + 1] = q[1]
  BY <1>1, <1>4, <1>5
<1> QED
  BY <1>1, <1>3, <1>4 DEF n

\* What a browser is sent of its tools is made up of whole calls of its own tools.
THEOREM CallsWhole == Spec => []UICallsWhole
<1>1. TypeOK /\ CallInv /\ WholeInv => UICallsWhole
  <2> SUFFICES ASSUME TypeOK, CallInv, WholeInv, NEW t \in Turns, NEW i \in DOMAIN events[t],
                      NEW c \in Calls, events[t][i][2] = c
               PROVE  /\ call[c].turn = t /\ call[c].tool \in UITools[t]
                      /\ Kind(t, i) = "UIEnd" \/ FollowedBy(t, i, {<<"UIArgs", c>>, <<"UIEnd", c>>})
    BY DEF UICallsWhole
  <2>1. call[c].turn = t /\ call[c].pc \in {"emitting", "acked"}
    BY DEF WholeInv, Mine
  <2>2. call[c].tool \in UITools[t]
    BY <2>1 DEF CallInv, Routed
  <2>3. /\ events[t] \in Seq(Events) /\ queue[t] \in Seq(Events) /\ closed[t] \in BOOLEAN
    BY DEF TypeOK
  <2>4. DOMAIN events[t] = 1..Len(events[t]) /\ Len(events[t]) \in Nat /\ events[t] # <<>>
    BY <2>3
  <2>5. CASE Ends(events[t][i])
    BY <2>1, <2>2, <2>5 DEF Ends, Kind
  <2>6. ASSUME ~Ends(events[t][i]), NEW f, Follows(f, events[t][i])
        PROVE  f \in {<<"UIArgs", c>>, <<"UIEnd", c>>}
    BY <2>6 DEF Follows
  <2>7. CASE i < Len(events[t]) /\ ~Ends(events[t][i])
    <3>1. i \in 1..Len(events[t]) - 1
      BY <2>4, <2>7
    <3>2. Follows(events[t][i + 1], events[t][i])
      BY <3>1 DEF WholeInv, Chained
    <3>3. i < Len(events[t] \o queue[t]) /\ (events[t] \o queue[t])[i + 1] = events[t][i + 1]
      BY <2>3, <2>4, <2>7, Joined
    <3> QED
      BY <2>1, <2>2, <2>6, <2>7, <3>2, <3>3 DEF FollowedBy
  <2>8. CASE i = Len(events[t]) /\ closed[t]
    BY <2>1, <2>2, <2>8 DEF FollowedBy
  <2>9. CASE i = Len(events[t]) /\ ~closed[t] /\ ~Ends(events[t][i])
    <3>1. queue[t] # <<>> /\ Follows(queue[t][1], events[t][i])
      BY <2>4, <2>9 DEF WholeInv, Ended
    <3>2. i < Len(events[t] \o queue[t]) /\ (events[t] \o queue[t])[i + 1] = queue[t][1]
      BY <2>3, <2>4, <2>9, <3>1, Joined
    <3> QED
      BY <2>1, <2>2, <2>6, <2>9, <3>1, <3>2 DEF FollowedBy
  <2>10. i < Len(events[t]) \/ i = Len(events[t])
    BY <2>4
  <2> QED
    BY <2>3, <2>5, <2>7, <2>8, <2>9, <2>10
<1>2. Init => WholeInv
  BY WholeInit
<1>3. TypeOK /\ CallInv /\ WholeInv /\ [Next]_vars => WholeInv'
  BY WholeStep
<1> QED
  BY <1>1, <1>2, <1>3, TypeCorrect, CallInvariant, PTL DEF Spec

----------------------------------------------------------------------------
(* Rules about a sequence of events, which make up the two properties.     *)

\* A message is open after the first n events of s.
OpenAt(s, n) == \E i \in 1..n : s[i][1] = "TextStart" /\ \A j \in i..n : s[j][1] # "TextEnd"

HasKind(s, kinds) == \E i \in 1..Len(s) : s[i][1] \in kinds

\* The last event is the start of a message, whose content is due.
Starting(s) == s # <<>> /\ s[Len(s)][1] = "TextStart"

TextRules(s) ==
    \A i \in 1..Len(s) :
       /\ s[i][1] \in {"TextContent", "TextEnd"} => OpenAt(s, i - 1)
       /\ s[i][1] = "TextStart" =>
             ~OpenAt(s, i - 1) /\ (i < Len(s) => s[i + 1] = Event("TextContent"))

\* What may still come after the end of a run: of the agent, only if the run failed
\* and its updates may be late.
After(kind, late) == IF kind = "RunError" /\ late THEN UIKinds \cup AgentKinds ELSE UIKinds

RunRules(s, late) ==
    \A i \in 1..Len(s) :
       /\ s[i][1] = "RunStarted" => \A j \in 1..Len(s) : s[j][1] = "RunStarted" => j = i
       /\ s[i][1] \in Terminal =>
             /\ ~OpenAt(s, i)
             /\ \E j \in 1..i : s[j][1] = "RunStarted"
             /\ \A j \in i + 1..Len(s) : s[j][1] \in After(s[i][1], late)

\* The events of q may come after a run that ended in s.
MayTrail(s, q, late) ==
    \A kind \in Terminal : HasKind(s, {kind}) => \A i \in 1..Len(q) : q[i][1] \in After(kind, late)

\* Event e may come next.
MayFollow(s, e, late) ==
    /\ e[1] \in {"TextContent", "TextEnd"} => OpenAt(s, Len(s))
    /\ e[1] = "TextStart" => ~OpenAt(s, Len(s))
    /\ Starting(s) => e = Event("TextContent")
    /\ e[1] = "RunStarted" => ~HasKind(s, {"RunStarted"})
    /\ e[1] \in Terminal => ~OpenAt(s, Len(s)) /\ HasKind(s, {"RunStarted"})
    /\ \A kind \in Terminal : HasKind(s, {kind}) => e[1] \in After(kind, late)

----------------------------------------------------------------------------
(* The inductive invariant.                                                *)

Early == {"idle", "initialize", "newSession", "publish", "startRun"}
Past == {"unpublish", "closeSession", "closeTurn", "hangUp", "returned"}

\* The browser may still be sent events.
Live(t) == ~closed[t] /\ t \notin gone

\* What is left in a queue, when a message is open before it (was), and what
\* textOpen says of the end of it (is).
Message(q, was, is) ==
    \/ q = <<Event("TextContent")>> /\ was /\ is
    \/ q = <<Event("TextStart"), Event("TextContent")>> /\ ~was /\ is
    \/ \E kind \in Terminal : q = <<Event("TextEnd"), Event(kind)>> /\ was /\ ~is
    \/ \E kind \in Terminal : q = <<Event(kind)>> /\ ~was /\ ~is
    \/ q \in {<<>>, <<Event("RunStarted")>>, <<Event("Tool")>>} /\ (was <=> is)
    \/ (\A i \in 1..Len(q) : q[i][1] \in UIKinds) /\ (was <=> is)

\* The stream of turn t.
StreamOK(t) ==
    /\ TextRules(events[t]) /\ RunRules(events[t], t \in lost)
    /\ ~closed[t] /\ Starting(events[t]) => queue[t] = <<Event("TextContent")>>
    /\ Live(t) => Message(queue[t], OpenAt(events[t], Len(events[t])), textOpen[t])
    /\ Live(t) => MayTrail(events[t], queue[t], t \in lost)

\* Where the handler of turn t is, and how far its stream has come.
RunOK(t) ==
    /\ pc[t] \in Early =>
          ~HasKind(events[t], {"RunStarted"}) /\ ~HasKind(queue[t], {"RunStarted"})
    /\ HasKind(queue[t], {"RunStarted"}) =>
          lock[t] = t /\ pc[t] = "prompt" /\ ~HasKind(events[t], {"RunStarted"})
    /\ HasKind(queue[t], Terminal) => lock[t] = t /\ pc[t] = "unpublish"
    /\ HasKind(events[t], Terminal) => pc[t] \in Past
    /\ Live(t) /\ pc[t] \in {"prompt", "finishRun", "failRun", "unpublish"} =>
          HasKind(events[t], {"RunStarted"}) \/ HasKind(queue[t], {"RunStarted"})

\* The run of turn t fails, or has failed, after its connection was lost.
Failing(t) ==
    /\ t \in lost /\ pc[t] # "finishRun"
    /\ ~HasKind(events[t], {"RunFinished"}) /\ ~HasKind(queue[t], {"RunFinished"})

\* The agent of turn t writes no more once the run is about to end, unless it fails
\* for a lost connection.
AgentOK(t) ==
    /\ pc[t] \in {"idle", "initialize", "newSession"} => session[t] = None
    /\ lock[t] = "agent" => session[t] # None \/ t \in gone
    /\ pc[t] \in {"finishRun", "failRun"} \cup Past =>
          t \in gone \/ (lock[t] # "agent" /\ (t \in answered \/ session[t] = None)) \/ Failing(t)

BracketInv == \A t \in Turns : StreamOK(t) /\ RunOK(t) /\ AgentOK(t)

----------------------------------------------------------------------------
(* Sequences of events.                                                    *)

\* An event is put behind a sequence.
LEMMA Behind ==
    ASSUME NEW s \in Seq(Events), NEW e \in Events
    PROVE  /\ Append(s, e) \in Seq(Events) /\ Len(s) \in Nat /\ Len(Append(s, e)) = Len(s) + 1
           /\ \A i \in 1..Len(s) : Append(s, e)[i] = s[i]
           /\ Append(s, e)[Len(s) + 1] = e
<1>1. Append(s, e) \in Seq(Events) /\ Len(s) \in Nat /\ Len(Append(s, e)) = Len(s) + 1
  OBVIOUS
<1>2. (\A i \in 1..Len(s) : Append(s, e)[i] = s[i]) /\ Append(s, e)[Len(s) + 1] = e
  OBVIOUS
<1> QED
  BY <1>1, <1>2

\* The head of a sequence is taken.
LEMMA Taken ==
    ASSUME NEW s \in Seq(Events), s # <<>>
    PROVE  /\ Head(s) \in Events /\ Head(s) = s[1] /\ Tail(s) \in Seq(Events)
           /\ Len(s) \in Nat \ {0} /\ Len(Tail(s)) = Len(s) - 1
           /\ \A i \in 1..Len(s) - 1 : Tail(s)[i] = s[i + 1]
<1>1. Len(s) \in Nat \ {0} /\ Len(Tail(s)) = Len(s) - 1 /\ Tail(s) \in Seq(Events)
  OBVIOUS
<1>2. Head(s) \in Events /\ Head(s) = s[1]
  OBVIOUS
<1>3. \A i \in 1..Len(s) - 1 : Tail(s)[i] = s[i + 1]
  OBVIOUS
<1> QED
  BY <1>1, <1>2, <1>3

\* Which kinds there are after an append, and in a tail.
LEMMA HasAfterAppend ==
    ASSUME NEW s \in Seq(Events), NEW e \in Events, NEW kinds
    PROVE  HasKind(Append(s, e), kinds) <=> HasKind(s, kinds) \/ e[1] \in kinds
<1> DEFINE n == Len(s)
           r == Append(s, e)
<1>1. n \in Nat /\ Len(r) = n + 1 /\ (\A i \in 1..n : r[i] = s[i]) /\ r[n + 1] = e
  BY Behind
<1>2. HasKind(r, kinds) <=> \E i \in 1..n + 1 : r[i][1] \in kinds
  BY <1>1 DEF HasKind
<1>3. HasKind(s, kinds) <=> \E i \in 1..n : s[i][1] \in kinds
  BY DEF HasKind
<1> HIDE DEF n, r
<1>4. (\E i \in 1..n + 1 : r[i][1] \in kinds) <=> (\E i \in 1..n : s[i][1] \in kinds) \/ e[1] \in kinds
  BY <1>1
<1> QED
  BY <1>2, <1>3, <1>4 DEF r

LEMMA HasInTail ==
    ASSUME NEW s \in Seq(Events), s # <<>>, NEW kinds
    PROVE  HasKind(s, kinds) <=> Head(s)[1] \in kinds \/ HasKind(Tail(s), kinds)
<1>1. Head(s) = s[1] /\ Len(s) \in Nat \ {0} /\ Len(Tail(s)) = Len(s) - 1
      /\ \A i \in 1..Len(s) - 1 : Tail(s)[i] = s[i + 1]
  BY Taken
<1>2. ASSUME NEW i \in 1..Len(s), s[i][1] \in kinds
      PROVE  Head(s)[1] \in kinds \/ HasKind(Tail(s), kinds)
  <2>1. CASE i = 1
    BY <1>1, <1>2, <2>1
  <2>2. CASE i # 1
    <3>1. i - 1 \in 1..Len(s) - 1 /\ Tail(s)[i - 1] = s[i]
      BY <1>1, <2>2
    <3> QED
      BY <1>1, <1>2, <3>1 DEF HasKind
  <2> QED
    BY <2>1, <2>2
<1>3. ASSUME NEW i \in 1..Len(s) - 1, Tail(s)[i][1] \in kinds
      PROVE  HasKind(s, kinds)
  <2>1. i + 1 \in 1..Len(s) /\ Tail(s)[i] = s[i + 1]
    BY <1>1
  <2> QED
    BY <1>3, <2>1 DEF HasKind
<1>4. Head(s)[1] \in kinds => HasKind(s, kinds)
  <2>1. 1 \in 1..Len(s)
    BY <1>1
  <2> QED
    BY <1>1, <2>1 DEF HasKind
<1> QED
  BY <1>1, <1>2, <1>3, <1>4 DEF HasKind

\* Whether a message is open depends on what precedes only; the event that is
\* appended opens it, closes it or leaves it.
LEMMA OpenAfterAppend ==
    ASSUME NEW s \in Seq(Events), NEW e \in Events
    PROVE  /\ \A n \in Int : n <= Len(s) => (OpenAt(Append(s, e), n) <=> OpenAt(s, n))
           /\ OpenAt(Append(s, e), Len(s) + 1) <=>
                 e[1] = "TextStart" \/ (e[1] # "TextEnd" /\ OpenAt(s, Len(s)))
<1> DEFINE m == Len(s)
           r == Append(s, e)
<1>1. m \in Nat /\ (\A i \in 1..m : r[i] = s[i]) /\ r[m + 1] = e
  BY Behind
<1> HIDE DEF m, r
<1>2. ASSUME NEW n \in Int, n <= m PROVE OpenAt(r, n) <=> OpenAt(s, n)
  <2>1. \A i \in 1..n : r[i] = s[i]
    BY <1>1, <1>2
  <2>2. \A i \in 1..n : (\A j \in i..n : r[j][1] # "TextEnd") <=> (\A j \in i..n : s[j][1] # "TextEnd")
    BY <2>1
  <2> QED
    BY <2>1, <2>2 DEF OpenAt
<1>3. ASSUME OpenAt(r, m + 1) PROVE e[1] = "TextStart" \/ (e[1] # "TextEnd" /\ OpenAt(r, m))
  <2>1. PICK i \in 1..m + 1 : r[i][1] = "TextStart" /\ \A j \in i..m + 1 : r[j][1] # "TextEnd"
    BY <1>3 DEF OpenAt
  <2>2. i = m + 1 \/ i \in 1..m
    BY <1>1
  <2>3. m + 1 \in i..m + 1 /\ \A j \in i..m : j \in i..m + 1
    BY <1>1
  <2> QED
    BY <1>1, <2>1, <2>2, <2>3 DEF OpenAt
<1>4. ASSUME e[1] = "TextStart" PROVE OpenAt(r, m + 1)
  <2>1. m + 1 \in 1..m + 1 /\ \A j \in m + 1..m + 1 : j = m + 1
    BY <1>1
  <2>2. r[m + 1][1] = "TextStart" /\ \A j \in m + 1..m + 1 : r[j][1] # "TextEnd"
    BY <1>1, <1>4, <2>1
  <2> QED
    BY <2>1, <2>2 DEF OpenAt
<1>5. ASSUME e[1] # "TextEnd", OpenAt(r, m) PROVE OpenAt(r, m + 1)
  <2>1. PICK i \in 1..m : r[i][1] = "TextStart" /\ \A j \in i..m : r[j][1] # "TextEnd"
    BY <1>5 DEF OpenAt
  <2>2. i \in 1..m + 1 /\ \A j \in i..m + 1 : j \in i..m \/ j = m + 1
    BY <1>1
  <2>3. \A j \in i..m + 1 : r[j][1] # "TextEnd"
    BY <1>1, <1>5, <2>1, <2>2
  <2> QED
    BY <2>1, <2>2, <2>3 DEF OpenAt
<1>6. OpenAt(r, m) <=> OpenAt(s, m)
  BY <1>1, <1>2
<1>7. OpenAt(r, m + 1) <=> e[1] = "TextStart" \/ (e[1] # "TextEnd" /\ OpenAt(s, m))
  BY <1>3, <1>4, <1>5, <1>6
<1> QED
  BY <1>2, <1>7 DEF m, r

\* An event that may follow keeps the rules.
LEMMA TextRulesKept ==
    ASSUME NEW s \in Seq(Events), NEW e \in Events, NEW late, TextRules(s), MayFollow(s, e, late)
    PROVE  TextRules(Append(s, e))
<1> DEFINE n == Len(s)
           r == Append(s, e)
<1>1. n \in Nat /\ Len(r) = n + 1 /\ (\A i \in 1..n : r[i] = s[i]) /\ r[n + 1] = e
  BY Behind
<1>2. \A k \in Int : k <= n => (OpenAt(r, k) <=> OpenAt(s, k))
  BY OpenAfterAppend
<1>3. n = Len(s) /\ (s = <<>> => n = 0)
  OBVIOUS
<1> HIDE DEF n, r
<1>4. ASSUME NEW i \in 1..n
      PROVE  /\ r[i][1] \in {"TextContent", "TextEnd"} => OpenAt(r, i - 1)
             /\ r[i][1] = "TextStart" => ~OpenAt(r, i - 1) /\ r[i + 1] = Event("TextContent")
  <2>1. r[i] = s[i] /\ (OpenAt(r, i - 1) <=> OpenAt(s, i - 1))
    BY <1>1, <1>2
  <2>2. CASE i < n
    <3>1. r[i + 1] = s[i + 1]
      BY <1>1, <2>2
    <3> QED
      BY <1>3, <2>1, <2>2, <3>1 DEF TextRules
  <2>3. CASE i = n
    <3>1. r[i][1] = "TextStart" => Starting(s)
      BY <1>1, <1>3, <2>1, <2>3 DEF Starting
    <3>2. r[i][1] = "TextStart" => r[i + 1] = Event("TextContent")
      BY <1>1, <2>3, <3>1 DEF MayFollow
    <3> QED
      BY <1>3, <2>1, <3>2 DEF TextRules
  <2> QED
    BY <1>1, <2>2, <2>3
<1>5. /\ r[n + 1][1] \in {"TextContent", "TextEnd"} => OpenAt(r, n)
      /\ r[n + 1][1] = "TextStart" => ~OpenAt(r, n)
  BY <1>1, <1>2, <1>3 DEF MayFollow
<1>6. ASSUME NEW i \in 1..Len(r)
      PROVE  /\ r[i][1] \in {"TextContent", "TextEnd"} => OpenAt(r, i - 1)
             /\ r[i][1] = "TextStart" =>
                   ~OpenAt(r, i - 1) /\ (i < Len(r) => r[i + 1] = Event("TextContent"))
  <2>1. CASE i \in 1..n
    BY <1>4, <2>1
  <2>2. CASE i = n + 1
    <3>1. i - 1 = n /\ ~(i < Len(r))
      BY <1>1, <2>2
    <3> QED
      BY <1>5, <2>2, <3>1
  <2> QED
    BY <1>1, <2>1, <2>2
<1> QED
  BY <1>6 DEF TextRules, r

LEMMA RunRulesKept ==
    ASSUME NEW s \in Seq(Events), NEW e \in Events, NEW late, RunRules(s, late), MayFollow(s, e, late)
    PROVE  RunRules(Append(s, e), late)
<1> DEFINE n == Len(s)
           r == Append(s, e)
<1>1. n \in Nat /\ Len(r) = n + 1 /\ (\A i \in 1..n : r[i] = s[i]) /\ r[n + 1] = e
  BY Behind
<1>2. /\ \A k \in Int : k <= n => (OpenAt(r, k) <=> OpenAt(s, k))
      /\ OpenAt(r, n + 1) <=> e[1] = "TextStart" \/ (e[1] # "TextEnd" /\ OpenAt(s, n))
  BY OpenAfterAppend
<1>3. n = Len(s)
  OBVIOUS
<1> HIDE DEF n, r
<1>4. \A kinds : HasKind(s, kinds) <=> \E i \in 1..n : r[i][1] \in kinds
  BY <1>1, <1>3 DEF HasKind
<1>5. ASSUME NEW i \in 1..Len(r), r[i][1] = "RunStarted", NEW j \in 1..Len(r), r[j][1] = "RunStarted"
      PROVE  j = i
  <2>1. i \in 1..n \/ i = n + 1
    BY <1>1
  <2>2. j \in 1..n \/ j = n + 1
    BY <1>1
  <2>3. CASE i \in 1..n /\ j \in 1..n
    BY <1>1, <1>3, <1>5, <2>3 DEF RunRules
  <2>4. ASSUME NEW k \in 1..n, r[k][1] = "RunStarted" PROVE r[n + 1][1] # "RunStarted"
    <3>1. HasKind(s, {"RunStarted"})
      BY <1>4, <2>4
    <3> QED
      BY <1>1, <3>1 DEF MayFollow
  <2> QED
    BY <1>5, <2>1, <2>2, <2>3, <2>4
<1>6. ASSUME NEW i \in 1..Len(r), r[i][1] \in Terminal
      PROVE  /\ ~OpenAt(r, i)
             /\ \E j \in 1..i : r[j][1] = "RunStarted"
             /\ \A j \in i + 1..Len(r) : r[j][1] \in After(r[i][1], late)
  <2>1. CASE i \in 1..n
    <3>1. s[i][1] \in Terminal /\ (OpenAt(r, i) <=> OpenAt(s, i))
      BY <1>1, <1>2, <1>6, <2>1
    <3>2. ~OpenAt(r, i)
      BY <1>3, <2>1, <3>1 DEF RunRules
    <3>3. PICK j \in 1..i : s[j][1] = "RunStarted"
      BY <1>3, <2>1, <3>1 DEF RunRules
    <3>4. r[j][1] = "RunStarted"
      BY <1>1, <2>1, <3>3
    <3>5. e[1] \in After(r[i][1], late)
      <4>1. HasKind(s, {r[i][1]})
        BY <1>4, <2>1
      <4> QED
        BY <1>6, <4>1 DEF MayFollow
    <3>7. s[i] = r[i]
      BY <1>1, <2>1
    <3>6. ASSUME NEW k \in i + 1..Len(r) PROVE r[k][1] \in After(r[i][1], late)
      <4>1. k \in i + 1..n \/ k = n + 1
        BY <1>1, <2>1
      <4>2. CASE k \in i + 1..n
        <5>1. k \in 1..n /\ s[k][1] \in After(r[i][1], late)
          BY <1>1, <1>3, <2>1, <3>1, <3>7, <4>2 DEF RunRules
        <5> QED
          BY <1>1, <5>1
      <4> QED
        BY <1>1, <3>5, <4>1, <4>2
    <3> QED
      BY <3>2, <3>3, <3>4, <3>6
  <2>2. CASE i = n + 1
    <3>1. e[1] \in Terminal
      BY <1>1, <1>6, <2>2
    <3>2. ~OpenAt(s, n) /\ HasKind(s, {"RunStarted"}) /\ e[1] # "TextStart"
      BY <1>3, <3>1 DEF MayFollow, Terminal
    <3>3. ~OpenAt(r, i)
      BY <1>2, <2>2, <3>2
    <3>4. \E j \in 1..i : r[j][1] = "RunStarted"
      BY <1>1, <1>4, <2>2, <3>2
    <3>5. \A j \in i + 1..Len(r) : r[j][1] \in After(r[i][1], late)
      BY <1>1, <2>2
    <3> QED
      BY <3>3, <3>4, <3>5
  <2> QED
    BY <1>1, <2>1, <2>2
<1> QED
  BY <1>5, <1>6 DEF RunRules, r

\* When nothing is left in a queue, textOpen says whether a message is open.
LEMMA NothingLeftOfIt ==
    ASSUME NEW was, NEW is
    PROVE  Message(<<>>, was, is) <=> (was <=> is)
<1>1. Len(<<>>) = 0 /\ \A f, g : <<>> # <<f>> /\ <<>> # <<f, g>>
  OBVIOUS
<1> QED
  BY <1>1 DEF Message

\* A message that is written event by event stays one, and its events may come.
LEMMA MessageStep ==
    ASSUME NEW s \in Seq(Events), NEW q \in Seq(Events), q # <<>>, NEW is \in BOOLEAN, NEW late,
           Message(q, OpenAt(s, Len(s)), is),
           Starting(s) => q = <<Event("TextContent")>>,
           MayTrail(s, q, late),
           HasKind(q, {"RunStarted"}) => ~HasKind(s, {"RunStarted"}),
           HasKind(q, Terminal) => HasKind(s, {"RunStarted"})
    PROVE  /\ MayFollow(s, Head(q), late)
           /\ Message(Tail(q), OpenAt(Append(s, Head(q)), Len(s) + 1), is)
           /\ Starting(Append(s, Head(q))) => Tail(q) = <<Event("TextContent")>>
           /\ MayTrail(Append(s, Head(q)), Tail(q), late)
           /\ ~HasKind(Tail(q), {"RunStarted"})
<1> DEFINE e == Head(q)
           rest == Tail(q)
           open == OpenAt(s, Len(s))
           r == Append(s, e)
<1>1. /\ e \in Events /\ e = q[1] /\ rest \in Seq(Events) /\ Len(q) \in Nat \ {0}
      /\ Len(rest) = Len(q) - 1 /\ \A i \in 1..Len(q) - 1 : rest[i] = q[i + 1]
  BY Taken
<1>2. \A kinds : HasKind(q, kinds) <=> e[1] \in kinds \/ HasKind(rest, kinds)
  BY HasInTail
<1>3. r \in Seq(Events) /\ Len(s) \in Nat /\ Len(r) = Len(s) + 1 /\ r[Len(s) + 1] = e
  BY <1>1, Behind
<1>4. OpenAt(r, Len(s) + 1) <=> e[1] = "TextStart" \/ (e[1] # "TextEnd" /\ open)
  BY <1>1, OpenAfterAppend
<1>5. Starting(r) <=> e[1] = "TextStart"
  <2>1. r # <<>>
    BY <1>3, EmptySeq
  <2> QED
    BY <1>3, <2>1 DEF Starting
<1>6. \A kinds : HasKind(r, kinds) <=> HasKind(s, kinds) \/ e[1] \in kinds
  BY <1>1, HasAfterAppend
<1>7. \A kind : Event(kind)[1] = kind
  BY DEF Event
<1>8. \A f : Head(<<f>>) = f /\ Tail(<<f>>) = <<>> /\ Len(<<f>>) = 1 /\ <<f>>[1] = f
  OBVIOUS
<1>9. \A f, g : Head(<<f, g>>) = f /\ Tail(<<f, g>>) = <<g>> /\ <<f, g>>[1] = f /\ Len(<<f, g>>) = 2
  OBVIOUS
<1>10. \A kinds : ~HasKind(<<>>, kinds)
  BY DEF HasKind
<1>11. Len(<<>>) = 0
  OBVIOUS
<1>12. \A f, g : <<f>> # <<f, g>> /\ <<g>> # <<f, g>>
  OBVIOUS
<1>13. \A kind \in Terminal : HasKind(s, {kind}) => e[1] \in After(kind, late)
  BY <1>1 DEF MayTrail
<1> HIDE DEF e, rest, open, r
<1>15. ASSUME e[1] \notin Terminal PROVE MayTrail(r, rest, late)
  <2> SUFFICES ASSUME NEW kind \in Terminal, HasKind(r, {kind}), NEW i \in 1..Len(rest)
               PROVE  rest[i][1] \in After(kind, late)
    BY DEF MayTrail
  <2>1. HasKind(s, {kind})
    BY <1>6, <1>15
  <2>2. i + 1 \in 1..Len(q) /\ rest[i] = q[i + 1]
    BY <1>1
  <2> QED
    BY <2>1, <2>2 DEF MayTrail
<1>a. ASSUME q = <<Event("TextContent")>>, open, is
      PROVE  /\ MayFollow(s, e, late) /\ Message(rest, OpenAt(r, Len(s) + 1), is)
             /\ Starting(r) => rest = <<Event("TextContent")>>
             /\ MayTrail(r, rest, late)
             /\ ~HasKind(rest, {"RunStarted"})
  <2>1. e = Event("TextContent") /\ rest = <<>>
    BY <1>a, <1>8 DEF e, rest
  <2>2. e[1] = "TextContent"
    BY <1>7, <2>1
  <2>3. MayFollow(s, e, late)
    BY <1>a, <1>13, <2>1, <2>2 DEF MayFollow, Terminal, open
  <2>4. OpenAt(r, Len(s) + 1) <=> is
    BY <1>a, <1>4, <2>2
  <2>5. Message(rest, OpenAt(r, Len(s) + 1), is)
    BY <2>1, <2>4, NothingLeftOfIt
  <2>6. MayTrail(r, rest, late)
    BY <1>15, <2>2 DEF Terminal
  <2> QED
    BY <1>5, <1>10, <2>1, <2>2, <2>3, <2>5, <2>6
<1>b. ASSUME q = <<Event("TextStart"), Event("TextContent")>>, ~open, is
      PROVE  /\ MayFollow(s, e, late) /\ Message(rest, OpenAt(r, Len(s) + 1), is)
             /\ Starting(r) => rest = <<Event("TextContent")>>
             /\ MayTrail(r, rest, late)
             /\ ~HasKind(rest, {"RunStarted"})
  <2>1. e = Event("TextStart") /\ rest = <<Event("TextContent")>>
    BY <1>b, <1>9 DEF e, rest
  <2>2. e[1] = "TextStart" /\ q # <<Event("TextContent")>>
    BY <1>b, <1>7, <1>12, <2>1
  <2>3. MayFollow(s, e, late)
    BY <1>b, <1>13, <2>1, <2>2 DEF MayFollow, Terminal, open
  <2>4. Message(rest, OpenAt(r, Len(s) + 1), is)
    BY <1>b, <1>4, <2>1, <2>2 DEF Message
  <2>5. ~HasKind(rest, {"RunStarted"})
    BY <1>7, <1>8, <2>1 DEF HasKind
  <2>6. MayTrail(r, rest, late)
    BY <1>15, <2>2 DEF Terminal
  <2> QED
    BY <2>1, <2>3, <2>4, <2>5, <2>6
<1>c. ASSUME NEW kind \in Terminal, q = <<Event("TextEnd"), Event(kind)>>, open, ~is
      PROVE  /\ MayFollow(s, e, late) /\ Message(rest, OpenAt(r, Len(s) + 1), is)
             /\ Starting(r) => rest = <<Event("TextContent")>>
             /\ MayTrail(r, rest, late)
             /\ ~HasKind(rest, {"RunStarted"})
  <2>1. e = Event("TextEnd") /\ rest = <<Event(kind)>>
    BY <1>c, <1>9 DEF e, rest
  <2>2. e[1] = "TextEnd" /\ q # <<Event("TextContent")>>
    <3>1. e[1] = "TextEnd" /\ e # Event("TextContent")
      BY <1>7, <2>1
    <3>2. q[1] # Event("TextContent")
      BY <1>1, <3>1
    <3> QED
      BY <1>8, <3>1, <3>2
  <2>3. MayFollow(s, e, late)
    BY <1>c, <1>13, <2>1, <2>2 DEF MayFollow, Terminal, open
  <2>4. ~OpenAt(r, Len(s) + 1)
    BY <1>4, <2>2
  <2>5. Message(rest, OpenAt(r, Len(s) + 1), is)
    BY <1>c, <2>1, <2>4 DEF Message
  <2>6. ~HasKind(rest, {"RunStarted"})
    BY <1>7, <1>8, <2>1 DEF HasKind, Terminal
  <2>7. MayTrail(r, rest, late) /\ ~Starting(r)
    BY <1>5, <1>15, <2>2 DEF Terminal
  <2> QED
    BY <2>3, <2>5, <2>6, <2>7
<1>d. ASSUME NEW kind \in Terminal, q = <<Event(kind)>>, ~open, ~is
      PROVE  /\ MayFollow(s, e, late) /\ Message(rest, OpenAt(r, Len(s) + 1), is)
             /\ Starting(r) => rest = <<Event("TextContent")>>
             /\ MayTrail(r, rest, late)
             /\ ~HasKind(rest, {"RunStarted"})
  <2>1. e = Event(kind) /\ rest = <<>>
    BY <1>d, <1>8 DEF e, rest
  <2>2. e[1] = kind /\ q # <<Event("TextContent")>>
    <3>1. e[1] = kind /\ e # Event("TextContent")
      BY <1>7, <2>1 DEF Terminal
    <3>2. q[1] # Event("TextContent")
      BY <1>1, <3>1
    <3> QED
      BY <1>8, <3>1, <3>2
  <2>3. HasKind(s, {"RunStarted"})
    BY <1>2, <2>2
  <2>4. MayFollow(s, e, late)
    BY <1>d, <1>13, <2>1, <2>2, <2>3 DEF MayFollow, Terminal, open
  <2>5. ~OpenAt(r, Len(s) + 1) /\ ~Starting(r)
    BY <1>d, <1>4, <1>5, <2>2 DEF Terminal
  <2>6. Message(rest, OpenAt(r, Len(s) + 1), is)
    BY <1>d, <2>1, <2>5 DEF Message
  <2>7. MayTrail(r, rest, late)
    BY <1>11, <2>1 DEF MayTrail
  <2> QED
    BY <1>10, <2>1, <2>4, <2>5, <2>6, <2>7
<1>e. ASSUME NEW kind \in {"RunStarted", "Tool"}, q = <<Event(kind)>>, open <=> is
      PROVE  /\ MayFollow(s, e, late) /\ Message(rest, OpenAt(r, Len(s) + 1), is)
             /\ Starting(r) => rest = <<Event("TextContent")>>
             /\ MayTrail(r, rest, late)
             /\ ~HasKind(rest, {"RunStarted"})
  <2>1. e = Event(kind) /\ rest = <<>>
    BY <1>e, <1>8 DEF e, rest
  <2>2. e[1] = kind /\ q # <<Event("TextContent")>>
    <3>1. e[1] = kind /\ e # Event("TextContent")
      BY <1>7, <2>1
    <3>2. q[1] # Event("TextContent")
      BY <1>1, <3>1
    <3> QED
      BY <1>8, <3>1, <3>2
  <2>3. kind = "RunStarted" => ~HasKind(s, {"RunStarted"})
    BY <1>2, <2>2
  <2>4. MayFollow(s, e, late)
    BY <1>e, <1>13, <2>1, <2>2, <2>3 DEF MayFollow, Terminal, open
  <2>5. (OpenAt(r, Len(s) + 1) <=> is) /\ ~Starting(r)
    BY <1>e, <1>4, <1>5, <2>2
  <2>6. Message(rest, OpenAt(r, Len(s) + 1), is)
    BY <2>1, <2>5 DEF Message
  <2>7. MayTrail(r, rest, late)
    BY <1>15, <2>2 DEF Terminal
  <2> QED
    BY <1>10, <2>1, <2>4, <2>5, <2>6, <2>7
<1>f. ASSUME \A i \in 1..Len(q) : q[i][1] \in UIKinds, open <=> is
      PROVE  /\ MayFollow(s, e, late) /\ Message(rest, OpenAt(r, Len(s) + 1), is)
             /\ Starting(r) => rest = <<Event("TextContent")>>
             /\ MayTrail(r, rest, late)
             /\ ~HasKind(rest, {"RunStarted"})
  <2>1. e[1] \in UIKinds
    BY <1>1, <1>f
  <2>2. \A i \in 1..Len(rest) : rest[i][1] \in UIKinds
    <3>1. \A i \in 1..Len(rest) : i + 1 \in 1..Len(q) /\ rest[i] = q[i + 1]
      BY <1>1
    <3> QED
      BY <1>f, <3>1
  <2>3. q # <<Event("TextContent")>>
    <3>1. e # Event("TextContent")
      BY <1>7, <2>1 DEF UIKinds
    <3> QED
      BY <1>1, <1>8, <3>1
  <2>4. MayFollow(s, e, late)
    BY <2>1, <2>3 DEF MayFollow, Terminal, UIKinds, After
  <2>5. (OpenAt(r, Len(s) + 1) <=> is) /\ ~Starting(r)
    BY <1>f, <1>4, <1>5, <2>1 DEF UIKinds
  <2>6. Message(rest, OpenAt(r, Len(s) + 1), is)
    BY <2>2, <2>5 DEF Message
  <2>7. ~HasKind(rest, {"RunStarted"})
    BY <2>2 DEF HasKind, UIKinds
  <2>8. MayTrail(r, rest, late)
    BY <1>15, <2>1 DEF Terminal, UIKinds
  <2> QED
    BY <2>2, <2>4, <2>5, <2>6, <2>7, <2>8
<1>14. \/ q = <<Event("TextContent")>> /\ open /\ is
       \/ q = <<Event("TextStart"), Event("TextContent")>> /\ ~open /\ is
       \/ \E kind \in Terminal : q = <<Event("TextEnd"), Event(kind)>> /\ open /\ ~is
       \/ \E kind \in Terminal : q = <<Event(kind)>> /\ ~open /\ ~is
       \/ \E kind \in {"RunStarted", "Tool"} : q = <<Event(kind)>> /\ (open <=> is)
       \/ (\A i \in 1..Len(q) : q[i][1] \in UIKinds) /\ (open <=> is)
  BY DEF Message, open
<1> QED
  BY <1>14, <1>a, <1>b, <1>c, <1>d, <1>e, <1>f DEF e, rest, r

----------------------------------------------------------------------------
(* The steps.                                                              *)

\* What the proofs need of the types.
LEMMA StreamOfTurn ==
    ASSUME TypeOK, NEW t \in Turns
    PROVE  /\ events[t] \in Seq(Events) /\ queue[t] \in Seq(Events)
           /\ closed[t] \in BOOLEAN /\ textOpen[t] \in BOOLEAN
           /\ lock[t] = None => queue[t] = <<>>
BY DEF TypeOK

\* Streams are empty at the start.
LEMMA BracketInit == Init => BracketInv
<1> SUFFICES ASSUME Init, NEW t \in Turns PROVE StreamOK(t) /\ RunOK(t) /\ AgentOK(t)
  BY DEF BracketInv
<1>1. /\ events[t] = <<>> /\ queue[t] = <<>> /\ textOpen[t] = FALSE /\ pc[t] = "idle"
      /\ session[t] = None /\ lock[t] = None
  BY DEF Init
<1>2. Len(<<>>) = 0
  OBVIOUS
<1>3. ~OpenAt(<<>>, 0) /\ ~Starting(<<>>) /\ \A kinds : ~HasKind(<<>>, kinds)
  BY <1>2 DEF OpenAt, Starting, HasKind
<1>4. TextRules(<<>>) /\ \A late : RunRules(<<>>, late) /\ MayTrail(<<>>, <<>>, late)
  BY <1>2 DEF TextRules, RunRules, MayTrail
<1>5. StreamOK(t)
  BY <1>1, <1>2, <1>3, <1>4, NothingLeftOfIt DEF StreamOK
<1>6. RunOK(t) /\ AgentOK(t)
  BY <1>1, <1>3, ChatAssumption DEF RunOK, AgentOK, Past
<1> QED
  BY <1>5, <1>6

\* Where updates may be late, no less may come after the end of a run.
LEMMA LateOrNot ==
    ASSUME NEW s, NEW q, NEW was, NEW late, was => late
    PROVE  /\ RunRules(s, was) => RunRules(s, late)
           /\ MayTrail(s, q, was) => MayTrail(s, q, late)
<1>1. \A kind : After(kind, was) \subseteq After(kind, late)
  BY DEF After
<1>2. RunRules(s, was) => RunRules(s, late)
  BY <1>1 DEF RunRules
<1>3. MayTrail(s, q, was) => MayTrail(s, q, late)
  BY <1>1 DEF MayTrail
<1> QED
  BY <1>2, <1>3

\* A turn of which nothing changes, but that its browser may have gone, or its
\* connection have been lost.
LEMMA SameStream ==
    ASSUME NEW t, StreamOK(t), events'[t] = events[t], queue'[t] = queue[t],
           closed'[t] = closed[t], textOpen'[t] = textOpen[t],
           t \in gone => t \in gone', t \in lost => t \in lost'
    PROVE  StreamOK(t)'
<1>1. Live(t)' => Live(t)
  BY DEF Live
<1>2. RunRules(events[t], t \in lost) /\ (Live(t) => MayTrail(events[t], queue[t], t \in lost))
  BY DEF StreamOK
<1>3. RunRules(events[t], t \in lost') /\ (Live(t) => MayTrail(events[t], queue[t], t \in lost'))
  BY <1>2, LateOrNot
<1> QED
  BY <1>1, <1>3 DEF StreamOK

LEMMA SameTurn ==
    ASSUME NEW t, StreamOK(t), RunOK(t), AgentOK(t), events'[t] = events[t], queue'[t] = queue[t],
           closed'[t] = closed[t], textOpen'[t] = textOpen[t],
           t \in gone => t \in gone', t \in lost => t \in lost', pc'[t] = pc[t], lock'[t] = lock[t], session'[t] = session[t], t \in answered => t \in answered'
    PROVE  StreamOK(t)' /\ RunOK(t)' /\ AgentOK(t)'
<1>1. Live(t)' => Live(t)
  BY DEF Live
<1>2. RunOK(t)'
  BY <1>1 DEF RunOK
<1>3. AgentOK(t)'
  <2>1. Failing(t) => Failing(t)'
    BY DEF Failing
  <2> QED
    BY <2>1 DEF AgentOK
<1> QED
  BY <1>2, <1>3, SameStream

\* Events are queued that continue the message, and that may come after the end.
LEMMA EmittingStream ==
    ASSUME TypeOK, NEW t \in Turns, StreamOK(t), NEW who, NEW list, NEW open,
           Emitting(t, who, list, open), gone' = gone, lost' = lost,
           Live(t) => Message(list, textOpen[t], open),
           Live(t) => MayTrail(events[t], list, t \in lost)
    PROVE  StreamOK(t)'
<1>1. /\ queue[t] = <<>> /\ events' = events /\ closed' = closed
      /\ queue'[t] = list /\ textOpen'[t] = open
  BY DEF Emitting, TypeOK
<1>2. queue[t] # <<Event("TextContent")>>
  BY <1>1
<1>3. ~(~closed[t] /\ Starting(events[t]))
  BY <1>2 DEF StreamOK
<1>4. Live(t)' <=> Live(t)
  BY <1>1 DEF Live
<1>5. ASSUME Live(t) PROVE Message(list, OpenAt(events[t], Len(events[t])), open)
  <2>1. OpenAt(events[t], Len(events[t])) <=> textOpen[t]
    BY <1>1, <1>5, NothingLeftOfIt DEF StreamOK
  <2>2. Message(list, textOpen[t], open)
    BY <1>5
  <2> QED
    BY <2>1, <2>2 DEF Message
<1> QED
  BY <1>1, <1>3, <1>4, <1>5 DEF StreamOK

\* The next event is written, or the stream is closed.
LEMMA EmitStream ==
    ASSUME TypeOK, NEW t \in Turns, StreamOK(t), RunOK(t), AgentOK(t), Emit(t)
    PROVE  StreamOK(t)' /\ RunOK(t)' /\ AgentOK(t)'
<1> DEFINE s == events[t]
           q == queue[t]
<1>1. s \in Seq(Events) /\ q \in Seq(Events) /\ q # <<>> /\ textOpen[t] \in BOOLEAN
      /\ closed[t] \in BOOLEAN
  BY StreamOfTurn DEF Emit
<1>2. /\ queue'[t] = Tail(q) /\ pc' = pc /\ lock' = lock /\ gone' = gone /\ lost' = lost
      /\ session' = session /\ answered' = answered /\ textOpen' = textOpen
      /\ \/ ~closed[t] /\ t \notin gone /\ events'[t] = Append(s, Head(q)) /\ closed' = closed
         \/ closed'[t] = TRUE /\ events' = events
  BY DEF Emit, TypeOK
<1>3. \A kinds : HasKind(q, kinds) <=> Head(q)[1] \in kinds \/ HasKind(Tail(q), kinds)
  BY <1>1, HasInTail
<1>4. AgentOK(t)'
  <2>1. Head(q) \in Events
    BY <1>1, Taken
  <2>2. \A kinds : HasKind(Append(s, Head(q)), kinds) <=> HasKind(s, kinds) \/ Head(q)[1] \in kinds
    BY <1>1, <2>1, HasAfterAppend
  <2>3. events'[t] \in {s, Append(s, Head(q))}
    BY <1>2
  <2>4. Failing(t) => Failing(t)'
    BY <1>2, <1>3, <2>2, <2>3 DEF Failing
  <2> QED
    BY <1>2, <2>4 DEF AgentOK
<1>5. CASE closed'[t] = TRUE /\ events' = events
  <2>1. ~Live(t)'
    BY <1>5 DEF Live
  <2>2. StreamOK(t)'
    BY <1>2, <1>5, <2>1 DEF StreamOK
  <2>3. RunOK(t)'
    BY <1>2, <1>3, <1>5, <2>1 DEF RunOK
  <2> QED
    BY <1>4, <2>2, <2>3
<1>6. CASE ~closed[t] /\ t \notin gone /\ events'[t] = Append(s, Head(q)) /\ closed' = closed
  <2>1. Live(t) /\ Live(t)'
    BY <1>2, <1>6 DEF Live
  <2>2. /\ HasKind(q, {"RunStarted"}) => ~HasKind(s, {"RunStarted"})
        /\ HasKind(q, Terminal) => HasKind(s, {"RunStarted"})
    BY <2>1 DEF RunOK
  <2>3. /\ TextRules(s) /\ RunRules(s, t \in lost)
        /\ Message(q, OpenAt(s, Len(s)), textOpen[t])
        /\ Starting(s) => q = <<Event("TextContent")>>
        /\ MayTrail(s, q, t \in lost)
    BY <1>6, <2>1 DEF StreamOK
  <2>4. Head(q) \in Events /\ Len(Append(s, Head(q))) = Len(s) + 1
    BY <1>1, Taken, Behind
  <2> HIDE DEF s, q
  <2>5. /\ MayFollow(s, Head(q), t \in lost)
        /\ Message(Tail(q), OpenAt(Append(s, Head(q)), Len(s) + 1), textOpen[t])
        /\ Starting(Append(s, Head(q))) => Tail(q) = <<Event("TextContent")>>
        /\ MayTrail(Append(s, Head(q)), Tail(q), t \in lost)
        /\ ~HasKind(Tail(q), {"RunStarted"})
    BY <1>1, <2>2, <2>3, MessageStep
  <2>6. TextRules(Append(s, Head(q))) /\ RunRules(Append(s, Head(q)), t \in lost)
    BY <1>1, <2>3, <2>4, <2>5, TextRulesKept, RunRulesKept
  <2>7. StreamOK(t)'
    BY <1>2, <1>6, <2>4, <2>5, <2>6 DEF StreamOK
  <2>8. \A kinds : HasKind(Append(s, Head(q)), kinds) <=> HasKind(s, kinds) \/ Head(q)[1] \in kinds
    BY <1>1, <2>4, HasAfterAppend
  <2>9. RunOK(t)'
    <3>1. /\ HasKind(q, Terminal) => pc[t] = "unpublish" /\ lock[t] = t
          /\ HasKind(q, {"RunStarted"}) => pc[t] = "prompt"
          /\ HasKind(s, Terminal) => pc[t] \in Past
          /\ pc[t] \in Early => ~HasKind(s, {"RunStarted"}) /\ ~HasKind(q, {"RunStarted"})
          /\ pc[t] \in {"prompt", "finishRun", "failRun", "unpublish"} =>
                HasKind(s, {"RunStarted"}) \/ HasKind(q, {"RunStarted"})
      BY <2>1 DEF RunOK, s, q
    <3>2. events'[t] = Append(s, Head(q)) /\ queue'[t] = Tail(q)
      BY <1>2, <1>6
    <3> QED
      BY <1>2, <1>3, <2>5, <2>8, <3>1, <3>2 DEF RunOK, Past
  <2> QED
    BY <1>4, <2>7, <2>9
<1> QED
  BY <1>2, <1>5, <1>6

\* The lock is released when the queue is empty.
LEMMA UnlockStream ==
    ASSUME TypeOK, NEW t \in Turns, StreamOK(t), RunOK(t), AgentOK(t), Unlock(t)
    PROVE  StreamOK(t)' /\ RunOK(t)' /\ AgentOK(t)'
<1>1. /\ queue[t] = <<>> /\ lock'[t] = None /\ queue' = queue /\ events' = events /\ pc' = pc
      /\ closed' = closed /\ gone' = gone /\ lost' = lost /\ session' = session
      /\ answered' = answered /\ textOpen' = textOpen
  BY DEF Unlock, TypeOK
<1>2. None # "agent"
  BY ChatAssumption
<1>3. \A kinds : ~HasKind(<<>>, kinds)
  BY DEF HasKind
<1>4. StreamOK(t)'
  BY <1>1, SameStream
<1>5. RunOK(t)'
  BY <1>1, <1>3 DEF RunOK, Live
<1>6. AgentOK(t)'
  BY <1>1, <1>2 DEF AgentOK, Failing
<1> QED
  BY <1>4, <1>5, <1>6

\* What is queued for the agent, or for a call, neither starts a run nor ends one.
LEMMA OthersEmitting ==
    ASSUME TypeOK, NEW t \in Turns, StreamOK(t), RunOK(t), AgentOK(t),
           NEW who, NEW list, NEW open, Emitting(t, who, list, open),
           UNCHANGED <<pc, gone, lost, session, answered>>,
           Live(t) => Message(list, textOpen[t], open),
           \A i \in 1..Len(list) : list[i][1] \in IF who = "agent" THEN AgentKinds ELSE UIKinds,
           who = "agent" => session[t] # None /\ t \notin answered
    PROVE  StreamOK(t)' /\ RunOK(t)' /\ AgentOK(t)'
<1>1. /\ queue[t] = <<>> /\ events' = events /\ closed' = closed
      /\ queue'[t] = list /\ lock'[t] = who
  BY DEF Emitting, TypeOK
<1>2. ASSUME Live(t) PROVE MayTrail(events[t], list, t \in lost)
  <2> SUFFICES ASSUME NEW kind \in Terminal, HasKind(events[t], {kind}), NEW i \in 1..Len(list)
               PROVE  list[i][1] \in After(kind, t \in lost)
    BY DEF MayTrail
  <2>1. CASE who # "agent"
    BY <2>1 DEF After
  <2>2. CASE who = "agent"
    <3>1. HasKind(events[t], Terminal)
      BY DEF HasKind
    <3>2. Failing(t)
      BY <1>2, <2>2, <3>1 DEF Live, RunOK, AgentOK
    <3>3. t \in lost /\ kind = "RunError"
      BY <3>2 DEF Failing, Terminal
    <3> QED
      BY <2>2, <3>3 DEF After
  <2> QED
    BY <2>1, <2>2
<1>8. /\ ~HasKind(list, {"RunStarted"}) /\ ~HasKind(list, Terminal)
      /\ ~HasKind(list, {"RunFinished"})
  BY DEF HasKind, UIKinds, AgentKinds, Terminal
<1>3. StreamOK(t)'
  BY <1>2, EmittingStream
<1>4. \A kinds : ~HasKind(queue[t], kinds)
  <2>1. \A kinds : ~HasKind(<<>>, kinds)
    BY DEF HasKind
  <2> QED
    BY <1>1, <2>1
<1>5. Live(t)' <=> Live(t)
  BY <1>1 DEF Live
<1>6. RunOK(t)'
  BY <1>1, <1>4, <1>5, <1>8 DEF RunOK
<1>7. AgentOK(t)'
  BY <1>1, <1>8 DEF AgentOK, Failing
<1> QED
  BY <1>3, <1>6, <1>7

\* A session update continues the message, or starts one, while the run lasts.
LEMMA UpdateStream ==
    ASSUME TypeOK, NEW t \in Turns, StreamOK(t), RunOK(t), AgentOK(t),
           NEW kind \in {"blank", "text", "tool"}, SessionUpdate(t, kind)
    PROVE  StreamOK(t)' /\ RunOK(t)' /\ AgentOK(t)'
<1>0. /\ session[t] # None /\ t \notin answered /\ UNCHANGED <<pc, gone, lost, session, answered>>
      /\ textOpen[t] \in BOOLEAN
  BY DEF SessionUpdate, TypeOK
<1>1. \A k : Event(k)[1] = k
  BY DEF Event
<1>2. Len(<<>>) = 0
  OBVIOUS
<1>3. \A k, l : /\ 1..Len(<<Event(k)>>) = {1} /\ 1..Len(<<Event(k), Event(l)>>) = {1, 2}
               /\ <<Event(k)>>[1][1] = k
               /\ <<Event(k), Event(l)>>[1][1] = k /\ <<Event(k), Event(l)>>[2][1] = l
  BY <1>1
<1>5. \A k, l \in AgentKinds :
         /\ \A i \in 1..Len(<<Event(k)>>) : <<Event(k)>>[i][1] \in AgentKinds
         /\ \A i \in 1..Len(<<Event(k), Event(l)>>) : <<Event(k), Event(l)>>[i][1] \in AgentKinds
  BY <1>3
<1>4. PICK list, open : /\ Emitting(t, "agent", list, open) /\ Message(list, textOpen[t], open)
                        /\ \A i \in 1..Len(list) : list[i][1] \in AgentKinds
  <2>1. CASE kind = "blank"
    <3>1. Emitting(t, "agent", <<>>, textOpen[t])
      BY <2>1 DEF SessionUpdate
    <3> QED
      BY <1>2, <3>1, NothingLeftOfIt
  <2>2. CASE kind = "tool"
    <3>1. Emitting(t, "agent", <<Event("Tool")>>, textOpen[t])
      BY <2>2 DEF SessionUpdate
    <3>2. Message(<<Event("Tool")>>, textOpen[t], textOpen[t])
      BY DEF Message
    <3>3. "Tool" \in AgentKinds
      BY DEF AgentKinds
    <3> QED
      BY <1>5, <3>1, <3>2, <3>3
  <2>3. CASE kind = "text" /\ textOpen[t]
    <3>1. Emitting(t, "agent", <<Event("TextContent")>>, TRUE)
      BY <2>3 DEF SessionUpdate
    <3>2. Message(<<Event("TextContent")>>, textOpen[t], TRUE)
      BY <2>3 DEF Message
    <3>3. "TextContent" \in AgentKinds
      BY DEF AgentKinds
    <3> QED
      BY <1>5, <3>1, <3>2, <3>3
  <2>4. CASE kind = "text" /\ ~textOpen[t]
    <3> DEFINE two == <<Event("TextStart"), Event("TextContent")>>
    <3>1. Emitting(t, "agent", two, TRUE)
      BY <2>4 DEF SessionUpdate
    <3>2. Message(two, textOpen[t], TRUE)
      BY <2>4 DEF Message
    <3>3. \A i \in 1..Len(two) : two[i][1] \in AgentKinds
      BY <1>5 DEF AgentKinds
    <3> HIDE DEF two
    <3> QED
      BY <3>1, <3>2, <3>3
  <2> QED
    BY <1>0, <2>1, <2>2, <2>3, <2>4
<1> QED
  BY <1>0, <1>4, OthersEmitting

\* A call's events leave the message and the run as they are.
LEMMA CallStream ==
    ASSUME TypeOK, NEW c \in Calls, EmitContextualToolCall(c), NEW t \in Turns, t = call[c].turn,
           StreamOK(t), RunOK(t), AgentOK(t)
    PROVE  StreamOK(t)' /\ RunOK(t)' /\ AgentOK(t)'
<1>1. PICK list \in {<<<<"UIStart", c>>, <<"UIEnd", c>>>>,
                     <<<<"UIStart", c>>, <<"UIArgs", c>>, <<"UIEnd", c>>>>} :
         Emitting(t, c, list, textOpen[t])
  BY DEF EmitContextualToolCall
<1>2. \A i \in 1..Len(list) : list[i][1] \in UIKinds
  <2>1. CASE list = <<<<"UIStart", c>>, <<"UIEnd", c>>>>
    BY <2>1 DEF UIKinds
  <2>2. CASE list = <<<<"UIStart", c>>, <<"UIArgs", c>>, <<"UIEnd", c>>>>
    BY <2>2 DEF UIKinds
  <2> QED
    BY <1>1, <2>1, <2>2
<1>4. c # "agent"
  BY ChatAssumption
<1>5. Message(list, textOpen[t], textOpen[t])
  BY <1>2 DEF Message
<1>6. UNCHANGED <<pc, gone, lost, session, answered>>
  BY DEF EmitContextualToolCall
<1> QED
  BY <1>1, <1>2, <1>4, <1>5, <1>6, OthersEmitting

\* The handler starts the run.
LEMMA StartStream ==
    ASSUME TypeOK, NEW t \in Turns, StreamOK(t), RunOK(t), AgentOK(t), StartRun(t)
    PROVE  StreamOK(t)' /\ RunOK(t)' /\ AgentOK(t)'
<1> DEFINE list == <<Event("RunStarted")>>
<1>1. /\ pc[t] = "startRun" /\ pc'[t] = "prompt" /\ Emitting(t, t, list, textOpen[t])
      /\ gone' = gone /\ lost' = lost /\ session' = session /\ answered' = answered
  BY DEF StartRun, Step, TypeOK
<1>2. queue[t] = <<>> /\ queue'[t] = list /\ events' = events /\ closed' = closed /\ lock'[t] = t
  BY <1>1 DEF Emitting, TypeOK
<1>3. t # "agent" /\ t # None
  BY ChatAssumption
<1>4. HasKind(list, {"RunStarted"}) /\ ~HasKind(list, Terminal)
  <2>1. Len(list) = 1 /\ list[1][1] = "RunStarted"
    BY DEF Event
  <2>2. 1..Len(list) = {1}
    BY <2>1
  <2> HIDE DEF list
  <2> QED
    BY <2>1, <2>2 DEF HasKind, Terminal
<1>5. Message(list, textOpen[t], textOpen[t])
  BY DEF Message
<1>6. ~HasKind(events[t], {"RunStarted"}) /\ ~HasKind(events[t], Terminal)
  BY <1>1 DEF RunOK, Early, Past
<1> HIDE DEF list
<1>10. MayTrail(events[t], list, t \in lost)
  BY <1>6 DEF MayTrail, HasKind
<1>7. StreamOK(t)'
  BY <1>1, <1>5, <1>10, EmittingStream
<1>8. RunOK(t)'
  BY <1>1, <1>2, <1>4, <1>6 DEF RunOK, Early
<1>9. AgentOK(t)'
  BY <1>1, <1>2, <1>3 DEF AgentOK, Past
<1> QED
  BY <1>7, <1>8, <1>9

\* The handler ends the run, and the message that is open.
LEMMA EndStream ==
    ASSUME TypeOK, NEW t \in Turns, StreamOK(t), RunOK(t), AgentOK(t), EndRun(t)
    PROVE  StreamOK(t)' /\ RunOK(t)' /\ AgentOK(t)'
<1>1. PICK kind \in Terminal : /\ Emitting(t, t, Ending(t, kind), FALSE)
                                /\ (pc[t] = "finishRun" \/ kind = "RunError")
  BY DEF EndRun, Terminal, Step
<1> DEFINE list == Ending(t, kind)
<1>2. /\ pc[t] \in {"finishRun", "failRun"} /\ pc'[t] = "unpublish" /\ gone' = gone
      /\ lost' = lost /\ session' = session /\ answered' = answered
  BY DEF EndRun, Step, TypeOK
<1>3. queue[t] = <<>> /\ queue'[t] = list /\ events' = events /\ closed' = closed /\ lock'[t] = t
  BY <1>1 DEF Emitting, TypeOK
<1>4. t # "agent" /\ t # None
  BY ChatAssumption
<1>5. ~HasKind(list, {"RunStarted"}) /\ (kind = "RunError" => ~HasKind(list, {"RunFinished"}))
  <2>1. \A k : Event(k)[1] = k
    BY DEF Event
  <2>2. \A i \in 1..Len(list) : list[i][1] \in {"TextEnd", kind}
    <3>1. CASE textOpen[t]
      <4>1. /\ list = <<Event("TextEnd"), Event(kind)>> /\ 1..Len(list) = {1, 2}
            /\ list[1] = Event("TextEnd") /\ list[2] = Event(kind)
        BY <3>1 DEF Ending
      <4> HIDE DEF list
      <4> QED
        BY <2>1, <4>1
    <3>2. CASE ~textOpen[t]
      <4>1. list = <<Event(kind)>> /\ 1..Len(list) = {1} /\ list[1] = Event(kind)
        BY <3>2 DEF Ending
      <4> HIDE DEF list
      <4> QED
        BY <2>1, <4>1
    <3> QED
      BY <3>1, <3>2
  <2> HIDE DEF list
  <2> QED
    BY <2>2 DEF HasKind, Terminal
<1>6. Message(list, textOpen[t], FALSE)
  <2>1. CASE textOpen[t]
    BY <2>1 DEF Message, Ending
  <2>2. CASE ~textOpen[t]
    BY <2>2 DEF Message, Ending
  <2> QED
    BY <2>1, <2>2
<1> HIDE DEF list
<1>7. ~HasKind(events[t], Terminal)
  BY <1>2 DEF RunOK, Past
<1>13. MayTrail(events[t], list, t \in lost)
  BY <1>7 DEF MayTrail, HasKind
<1>8. StreamOK(t)'
  BY <1>1, <1>2, <1>6, <1>13, EmittingStream DEF list
<1>9. Live(t)' <=> Live(t)
  BY <1>2, <1>3 DEF Live
<1>10. ~HasKind(queue[t], {"RunStarted"})
  BY <1>3 DEF HasKind
<1>11. RunOK(t)'
  BY <1>2, <1>3, <1>5, <1>7, <1>9, <1>10 DEF RunOK, Early
<1>12. AgentOK(t)'
  <2>1. Failing(t) => Failing(t)'
    BY <1>1, <1>2, <1>3, <1>5 DEF Failing
  <2> QED
    BY <1>2, <1>3, <1>4, <2>1 DEF AgentOK, Past
<1> QED
  BY <1>8, <1>11, <1>12

\* A step of the handler that writes nothing.
LEMMA HandlerMoves ==
    ASSUME TypeOK, NEW t \in Turns, StreamOK(t), RunOK(t), AgentOK(t),
           Handle(t), ~StartRun(t), ~EndRun(t)
    PROVE  StreamOK(t)' /\ RunOK(t)' /\ AgentOK(t)'
<1>1. UNCHANGED stream
  BY DEF Handle, Dial, DialFails, Initialize, RequestFails, NewSession, Publish, PromptReturns,
     PromptFails, Unpublish, CloseSession, CloseTurn, HangUp
<1>2. /\ events' = events /\ queue' = queue /\ closed' = closed /\ textOpen' = textOpen /\ lock' = lock
  BY <1>1 DEF stream
<1>3. t \in gone => t \in gone'
  BY DEF Handle, Dial, DialFails, Initialize, RequestFails, NewSession, Publish, PromptReturns,
     PromptFails, Unpublish, CloseSession, CloseTurn, HangUp
<1>16. lost' = lost
  BY DEF Handle, Dial, DialFails, Initialize, RequestFails, NewSession, Publish, PromptReturns,
     PromptFails, Unpublish, CloseSession, CloseTurn, HangUp
<1>4. StreamOK(t)'
  BY <1>2, <1>3, <1>16, SameStream
<1>5. Live(t)' => Live(t)
  BY <1>2, <1>3 DEF Live
<1>6. pc \in [Turns -> Handler] /\ session \in [Turns -> SessionIds \cup {None}]
  BY DEF TypeOK
<1>7. \A from, to : Step(t, from, to) => pc[t] = from /\ pc'[t] = to
  BY <1>6 DEF Step
<1>8. ASSUME NEW from \in Early, NEW to \in Early \cup {"closeTurn", "returned"}, Step(t, from, to)
      PROVE  RunOK(t)'
  <2>1. pc[t] = from /\ pc'[t] = to
    BY <1>7, <1>8
  <2> QED
    BY <1>2, <2>1 DEF RunOK, Early, Past
<1>9. CASE Dial(t) \/ Initialize(t)
  <2>1. \E from, to \in {"idle", "initialize", "newSession"} : Step(t, from, to)
    BY <1>9 DEF Dial, Initialize
  <2>2. RunOK(t)'
    BY <1>8, <2>1 DEF Early
  <2>3. session' = session
    BY <1>9 DEF Dial, Initialize
  <2>4. AgentOK(t)'
    BY <1>2, <1>3, <1>7, <2>1, <2>3 DEF AgentOK, Past
  <2> QED
    BY <1>4, <2>2, <2>4
<1>10. CASE DialFails(t) \/ RequestFails(t)
  <2>1. PICK from \in {"idle", "initialize", "newSession"}, to \in {"closeTurn", "returned"} : Step(t, from, to)
    BY <1>10 DEF DialFails, RequestFails
  <2>2. RunOK(t)'
    BY <1>8, <2>1 DEF Early
  <2>3. session' = session /\ gone' = gone /\ answered' = answered
    BY <1>10 DEF DialFails, RequestFails
  <2>4. AgentOK(t)'
    BY <1>2, <1>7, <2>1, <2>3 DEF AgentOK, Past
  <2> QED
    BY <1>4, <2>2, <2>4
<1>11. CASE \E id \in SessionIds : NewSession(t, id)
  <2>1. PICK id \in SessionIds : NewSession(t, id)
    BY <1>11
  <2>2. Step(t, "newSession", "publish") /\ session'[t] = id /\ gone' = gone
    BY <1>6, <2>1 DEF NewSession
  <2>3. RunOK(t)'
    BY <1>8, <2>2 DEF Early
  <2>4. id # None
    BY ChatAssumption
  <2>5. AgentOK(t)'
    BY <1>2, <1>7, <2>2, <2>4 DEF AgentOK, Past
  <2> QED
    BY <1>4, <2>3, <2>5
<1>12. CASE Publish(t)
  <2>1. Step(t, "publish", "startRun") /\ session' = session /\ gone' = gone
    BY <1>12 DEF Publish
  <2>2. RunOK(t)'
    BY <1>8, <2>1 DEF Early
  <2>3. AgentOK(t)'
    BY <1>2, <1>7, <2>1 DEF AgentOK, Past
  <2> QED
    BY <1>4, <2>2, <2>3
<1>13. CASE PromptReturns(t) \/ PromptFails(t)
  <2>1. /\ pc[t] = "prompt" /\ pc'[t] \in {"finishRun", "failRun"} /\ lock[t] # t
        /\ session' = session /\ gone' = gone
        /\ \/ t \in gone
           \/ lock[t] # "agent" /\ t \in answered'
           \/ t \in lost /\ pc'[t] = "failRun"
    BY <1>7, <1>13 DEF PromptReturns, PromptFails
  <2>4. ~HasKind(events[t], {"RunFinished"}) /\ ~HasKind(queue[t], {"RunFinished"})
    <3>1. ~HasKind(events[t], Terminal) /\ ~HasKind(queue[t], Terminal)
      BY <2>1 DEF RunOK, Past
    <3> QED
      BY <3>1 DEF HasKind, Terminal
  <2>2. RunOK(t)'
    BY <1>2, <1>5, <2>1 DEF RunOK, Early, Past
  <2>3. AgentOK(t)'
    BY <1>2, <1>16, <2>1, <2>4 DEF AgentOK, Failing, Past
  <2> QED
    BY <1>4, <2>2, <2>3
<1>14. CASE Unpublish(t) \/ CloseSession(t) \/ CloseTurn(t)
  <2>1. /\ pc[t] \in Past /\ pc'[t] \in {"closeSession", "closeTurn", "hangUp"}
        /\ pc[t] = "unpublish" => lock[t] # t
        /\ session' = session /\ gone' = gone /\ answered' = answered
    BY <1>7, <1>14 DEF Unpublish, CloseSession, CloseTurn, Past
  <2>2. RunOK(t)'
    BY <1>2, <1>5, <2>1 DEF RunOK, Early, Past
  <2>3. AgentOK(t)'
    <3>1. Failing(t) => Failing(t)'
      BY <1>2, <1>16, <2>1 DEF Failing
    <3> QED
      BY <1>2, <2>1, <3>1 DEF AgentOK, Past
  <2> QED
    BY <1>4, <2>2, <2>3
<1>15. CASE HangUp(t)
  <2>1. pc[t] = "hangUp" /\ pc'[t] = "returned" /\ t \in gone'
    BY <1>7, <1>15 DEF HangUp
  <2>2. RunOK(t)'
    BY <1>2, <2>1 DEF RunOK, Early, Past
  <2>3. AgentOK(t)'
    BY <2>1 DEF AgentOK
  <2> QED
    BY <1>4, <2>2, <2>3
<1> QED
  BY <1>9, <1>10, <1>11, <1>12, <1>13, <1>14, <1>15 DEF Handle

\* A step leaves the turns alone that it is not about.
LEMMA OtherTurns ==
    ASSUME TypeOK, CallInv, NEW t \in Turns, NEW u \in Turns, u # t,
           StreamOK(u), RunOK(u), AgentOK(u),
           \/ Handle(t) \/ Emit(t) \/ Unlock(t) \/ BrowserLeaves(t) \/ ConnectionLost(t)
           \/ \E kind \in {"blank", "text", "tool"} : SessionUpdate(t, kind)
           \/ \E tool \in Tools : ExtToolCall(t, tool)
           \/ \E c \in Calls : call[c].turn = t /\ EmitContextualToolCall(c)
    PROVE  StreamOK(u)' /\ RunOK(u)' /\ AgentOK(u)'
<1>1. \A who, list, open : Emitting(t, who, list, open) =>
         /\ events'[u] = events[u] /\ queue'[u] = queue[u] /\ closed'[u] = closed[u]
         /\ textOpen'[u] = textOpen[u] /\ lock'[u] = lock[u]
  BY DEF Emitting, TypeOK
<1>2. UNCHANGED stream =>
         /\ events'[u] = events[u] /\ queue'[u] = queue[u] /\ closed'[u] = closed[u]
         /\ textOpen'[u] = textOpen[u] /\ lock'[u] = lock[u]
  BY DEF stream
<1>3. CASE Handle(t)
  <2>1. \/ UNCHANGED stream \/ \E who, list, open : Emitting(t, who, list, open)
    BY <1>3, OtherStep
  <2>2. /\ pc'[u] = pc[u] /\ session'[u] = session[u]
        /\ (u \in gone => u \in gone') /\ lost' = lost
        /\ u \in answered => u \in answered'
    BY <1>3 DEF Handle, Dial, DialFails, Initialize, RequestFails, NewSession, Publish, StartRun,
       PromptReturns, PromptFails, EndRun, Unpublish, CloseSession, CloseTurn, HangUp, Step, TypeOK
  <2> QED
    BY <1>1, <1>2, <2>1, <2>2, SameTurn
<1>4. CASE Emit(t) \/ Unlock(t)
  <2>1. /\ events'[u] = events[u] /\ queue'[u] = queue[u] /\ closed'[u] = closed[u]
        /\ textOpen'[u] = textOpen[u] /\ lock'[u] = lock[u]
    BY <1>4 DEF Emit, Unlock, TypeOK
  <2>2. UNCHANGED <<pc, session, gone, lost, answered>>
    BY <1>4 DEF Emit, Unlock
  <2> QED
    BY <2>1, <2>2, SameTurn
<1>5. CASE BrowserLeaves(t) \/ ConnectionLost(t) \/ \E tool \in Tools : ExtToolCall(t, tool)
  <2>1. UNCHANGED <<pc, session, answered, stream>> /\ gone \subseteq gone' /\ lost \subseteq lost'
    BY <1>5 DEF BrowserLeaves, ConnectionLost, ExtToolCall
  <2> QED
    BY <1>2, <2>1, SameTurn
<1>6. CASE \E kind \in {"blank", "text", "tool"} : SessionUpdate(t, kind)
  <2>1. UNCHANGED <<pc, session, answered, gone, lost>> /\ \E who, list, open : Emitting(t, who, list, open)
    BY <1>6 DEF SessionUpdate
  <2> QED
    BY <1>1, <2>1, SameTurn
<1>7. CASE \E c \in Calls : call[c].turn = t /\ EmitContextualToolCall(c)
  <2>1. UNCHANGED <<pc, session, answered, gone, lost>> /\ \E who, list, open : Emitting(t, who, list, open)
    BY <1>7 DEF EmitContextualToolCall
  <2> QED
    BY <1>1, <2>1, SameTurn
<1> QED
  BY <1>3, <1>4, <1>5, <1>6, <1>7

\* Every step keeps every stream bracketed.
LEMMA BracketStep ==
    ASSUME TypeOK, CallInv, BracketInv, [Next]_vars
    PROVE  BracketInv'
<1>1. CASE UNCHANGED vars
  <2>1. UNCHANGED <<pc, gone, lost, session, answered, lock, queue, closed, textOpen, events>>
    BY <1>1 DEF vars, stream
  <2> QED
    BY <2>1, SameTurn DEF BracketInv
<1>2. ASSUME NEW t \in Turns,
             \/ Handle(t) \/ Emit(t) \/ Unlock(t) \/ BrowserLeaves(t) \/ ConnectionLost(t)
             \/ \E kind \in {"blank", "text", "tool"} : SessionUpdate(t, kind)
             \/ \E tool \in Tools : ExtToolCall(t, tool)
      PROVE  BracketInv'
  <2>1. StreamOK(t) /\ RunOK(t) /\ AgentOK(t)
    BY DEF BracketInv
  <2>2. StreamOK(t)' /\ RunOK(t)' /\ AgentOK(t)'
    <3>1. CASE Handle(t)
      BY <2>1, <3>1, StartStream, EndStream, HandlerMoves
    <3>2. CASE Emit(t) \/ Unlock(t)
      BY <2>1, <3>2, EmitStream, UnlockStream
    <3>3. CASE BrowserLeaves(t) \/ ConnectionLost(t) \/ \E tool \in Tools : ExtToolCall(t, tool)
      <4>1. /\ UNCHANGED <<pc, session, answered, lock, queue, closed, textOpen, events>>
            /\ gone \subseteq gone' /\ lost \subseteq lost'
        BY <3>3 DEF BrowserLeaves, ConnectionLost, ExtToolCall, stream
      <4> QED
        BY <2>1, <4>1, SameTurn
    <3>4. CASE \E kind \in {"blank", "text", "tool"} : SessionUpdate(t, kind)
      BY <2>1, <3>4, UpdateStream
    <3> QED
      BY <1>2, <3>1, <3>2, <3>3, <3>4
  <2>3. \A u \in Turns \ {t} : StreamOK(u)' /\ RunOK(u)' /\ AgentOK(u)'
    BY <1>2, OtherTurns DEF BracketInv
  <2> QED
    BY <2>2, <2>3 DEF BracketInv
<1>3. ASSUME NEW c \in Calls, CallStep(c)
      PROVE  BracketInv'
  <2>1. CASE EmitContextualToolCall(c)
    <3>1. PICK t \in Turns : t = call[c].turn
      BY <2>1 DEF EmitContextualToolCall, CallInv, Routed
    <3>2. StreamOK(t)' /\ RunOK(t)' /\ AgentOK(t)'
      BY <2>1, <3>1, CallStream DEF BracketInv
    <3>3. \A u \in Turns \ {t} : StreamOK(u)' /\ RunOK(u)' /\ AgentOK(u)'
      BY <2>1, <3>1, OtherTurns DEF BracketInv
    <3> QED
      BY <3>2, <3>3 DEF BracketInv
  <2>2. CASE ~EmitContextualToolCall(c)
    <3>1. UNCHANGED <<pc, gone, lost, session, answered, lock, queue, closed, textOpen, events>>
      BY <1>3, <2>2 DEF CallStep, Admit, Resolve, RejectArguments, stream
    <3> QED
      BY <3>1, SameTurn DEF BracketInv
  <2> QED
    BY <2>1, <2>2
<1> QED
  BY <1>1, <1>2, <1>3 DEF Next, CallStep

\* Streams are bracketed in every run.
LEMMA BracketInvariance == Spec => []BracketInv
<1>1. TypeOK /\ CallInv /\ BracketInv /\ [Next]_vars => BracketInv'
  BY BracketStep
<1> QED
  BY <1>1, BracketInit, TypeCorrect, CallInvariant, PTL DEF Spec

\* What the properties say of a stream, in terms of its events.
LEMMA OfTheStream ==
    ASSUME TypeOK, NEW t \in Turns
    PROVE  /\ DOMAIN events[t] = 1..Len(events[t]) /\ Len(events[t]) \in Nat
           /\ \A i : Kind(t, i) = events[t][i][1]
           /\ \A n : OpenAfter(t, n) <=> OpenAt(events[t], n)
<1>1. events[t] \in Seq(Events)
  BY StreamOfTurn
<1> QED
  BY <1>1 DEF Kind, OpenAfter, OpenAt

(***************************************************************************)
(* The browser is sent messages as START, CONTENT+, END, with nothing      *)
(* between the start and its content, whatever the agent, its calls and    *)
(* the handler do (streaming_client.go, mcp_ui_tools.go, endpoint_chat.go).*)
(***************************************************************************)
THEOREM MessagesBracketed == Spec => []TextBracketed
<1>1. TypeOK /\ BracketInv => TextBracketed
  <2> SUFFICES ASSUME TypeOK, BracketInv, NEW t \in Turns, NEW i \in DOMAIN events[t]
               PROVE  /\ Kind(t, i) \in {"TextContent", "TextEnd"} => OpenAfter(t, i - 1)
                      /\ Kind(t, i) = "TextStart" =>
                            ~OpenAfter(t, i - 1) /\ FollowedBy(t, i, {Event("TextContent")})
    BY DEF TextBracketed
  <2>0. /\ i \in 1..Len(events[t]) /\ Kind(t, i) = events[t][i][1]
        /\ OpenAfter(t, i - 1) <=> OpenAt(events[t], i - 1)
    BY OfTheStream
  <2>1. events[t] \in Seq(Events) /\ queue[t] \in Seq(Events) /\ closed[t] \in BOOLEAN
    BY StreamOfTurn
  <2>2. TextRules(events[t]) /\ (~closed[t] /\ Starting(events[t]) => queue[t] = <<Event("TextContent")>>)
    BY DEF BracketInv, StreamOK
  <2>3. ASSUME events[t][i][1] = "TextStart" PROVE FollowedBy(t, i, {Event("TextContent")})
    <3>1. CASE i < Len(events[t])
      BY <2>0, <2>1, <2>2, <2>3, <3>1, Joined DEF TextRules, FollowedBy
    <3>2. CASE i = Len(events[t]) /\ ~closed[t]
      <4>1. Starting(events[t])
        BY <2>0, <2>1, <2>3, <3>2 DEF Starting
      <4>2. queue[t] = <<Event("TextContent")>> /\ queue[t] # <<>> /\ queue[t][1] = Event("TextContent")
        BY <2>2, <3>2, <4>1
      <4> QED
        BY <2>0, <2>1, <3>2, <4>2, Joined DEF FollowedBy
    <3>3. CASE i = Len(events[t]) /\ closed[t]
      BY <3>3 DEF FollowedBy
    <3>4. i < Len(events[t]) \/ i = Len(events[t])
      <4>1. Len(events[t]) \in Nat
        BY <2>1
      <4> QED
        BY <2>0, <4>1
    <3> QED
      BY <2>1, <3>1, <3>2, <3>3, <3>4
  <2> QED
    BY <2>0, <2>2, <2>3 DEF TextRules
<1> QED
  BY <1>1, BracketInvariance, TypeCorrect, PTL

(***************************************************************************)
(* A run starts at most once and ends at most once, with no message open,  *)
(* and nothing of the agent comes after its end, but for updates that had  *)
(* been received when its connection was lost (endpoint_chat.go).          *)
(***************************************************************************)
THEOREM RunsBracketed == Spec => []RunBracketed
<1>1. TypeOK /\ BracketInv => RunBracketed
  <2> SUFFICES ASSUME TypeOK, BracketInv, NEW t \in Turns, NEW i \in DOMAIN events[t]
               PROVE  /\ Kind(t, i) = "RunStarted" =>
                            \A j \in DOMAIN events[t] : Kind(t, j) = "RunStarted" => j = i
                      /\ Kind(t, i) \in Terminal =>
                            /\ ~OpenAfter(t, i)
                            /\ \E j \in 1..i : Kind(t, j) = "RunStarted"
                            /\ \A j \in i + 1..Len(events[t]) :
                                  \/ Kind(t, j) \in UIKinds
                                  \/ Kind(t, i) = "RunError" /\ t \in lost /\ Kind(t, j) \in AgentKinds
    BY DEF RunBracketed
  <2>1. RunRules(events[t], t \in lost)
    BY DEF BracketInv, StreamOK
  <2>2. /\ DOMAIN events[t] = 1..Len(events[t]) /\ i \in 1..Len(events[t])
        /\ \A j : Kind(t, j) = events[t][j][1]
        /\ OpenAfter(t, i) <=> OpenAt(events[t], i)
    BY OfTheStream
  <2>3. \A k : k \in After(Kind(t, i), t \in lost) =>
           k \in UIKinds \/ (Kind(t, i) = "RunError" /\ t \in lost /\ k \in AgentKinds)
    BY DEF After
  <2>4. ASSUME Kind(t, i) \in Terminal
        PROVE  /\ ~OpenAfter(t, i)
               /\ \E j \in 1..i : Kind(t, j) = "RunStarted"
               /\ \A j \in i + 1..Len(events[t]) : Kind(t, j) \in After(Kind(t, i), t \in lost)
    BY <2>1, <2>2, <2>4 DEF RunRules
  <2>5. \A j \in DOMAIN events[t] : Kind(t, i) = "RunStarted" /\ Kind(t, j) = "RunStarted" => j = i
    BY <2>1, <2>2 DEF RunRules
  <2> QED
    BY <2>3, <2>4, <2>5
<1> QED
  BY <1>1, BracketInvariance, TypeCorrect, PTL
=============================================================================
