-------------------------------- MODULE Node --------------------------------
(***************************************************************************)
(* ndn::Node as a Face drives it (src/src/node.cpp, src/src/face.cpp): the *)
(* connection to the forwarder, the pending interest table, the interest   *)
(* filters, the timeouts, interest loopback, and the application callbacks *)
(* they lead to.                                                           *)
(*                                                                         *)
(* Everything runs on one thread.  What makes it hard is reentrancy: a     *)
(* callback may call the Face again, and with interest loopback the Face   *)
(* then calls further callbacks before the outer handler goes on.  `stack` *)
(* is the stack of the handlers that are being executed.  One step is the  *)
(* code between two points where application code can run.                 *)
(***************************************************************************)
EXTENDS PendingInterestTable, Sequences, FiniteSets

CONSTANTS
  IsAsync,         \* transport_->isAsync()
  Loopback,        \* interestLoopbackEnabled_
  ConnectMayFail,  \* whether the connection to the forwarder can fail
  MaxDepth         \* bound on the nesting of handlers

ASSUME NodeAssumption ==
  /\ IsAsync \in BOOLEAN /\ Loopback \in BOOLEAN /\ ConnectMayFail \in BOOLEAN
  /\ MaxDepth \in Nat /\ MaxDepth >= 2

VARIABLES
  lastEntryId,           \* lastEntryId_
  connectStatus,         \* connectStatus_
  onConnectedCallbacks,  \* onConnectedCallbacks_: the bound IDs
  flushed,               \* the local i of onConnected
  transport,             \* what the transport_ can do, see Transports
  connects,              \* how often transport_->connect opened a connection
  delayed,               \* the IDs bound in the waiting calls of
                         \* processInterestTimeout
  filter,                \* interestFilterTable_: {p} for an entry, or {}
  stack,                 \* the handlers being executed, the innermost last
  known,                 \* the pendingInterestIds returned to the application
  sent,                  \* the Interests given to transport_->send, in order
  calls,                 \* the callbacks called for each ID, in order
  silenced               \* the IDs removed before a result was at hand

nodeVars == <<lastEntryId, connectStatus, onConnectedCallbacks, flushed,
              transport, connects, delayed, filter, stack, known, sent, calls,
              silenced>>
vars == <<pitVars, nodeVars>>

(* "deaf": connected, but async_receive was never started because          *)
(* onConnected threw.                                                      *)
Transports == {"closed", "connecting", "open", "deaf"}
Statuses == {"UNCONNECTED", "CONNECT_REQUESTED", "CONNECT_COMPLETE"}
Outcomes == {"onData", "onTimeout", "onNetworkNack"}
(* onInterest is the dispatch of a received Interest; the loopback of an   *)
(* expressed one is "loopback", or "connectLoopback" when expressInterest  *)
(* still has to set CONNECT_COMPLETE; "onConnected" is that method's loop. *)
Dispatches == {"onInterest", "loopback", "connectLoopback"}
Kinds == Outcomes \cup Dispatches \cup {"onConnected"}

(* A handler: the entries it has yet to call back, whether it is inside a  *)
(* callback, and the ID of the expressInterest it belongs to, or 0.        *)
Frames == [kind : Kinds, todo : SUBSET Ids, busy : BOOLEAN, id : 0 .. MaxEntryId]
Frame(kind, todo, id) ==
  [kind |-> kind, todo |-> todo, busy |-> FALSE, id |-> id]

Top == stack[Len(stack)]
Push(frame) == Append(stack, frame)
Pop == SubSeq(stack, 1, Len(stack) - 1)

AtEventLoop == stack = <<>>
AppMayCall == stack # <<>> => Top.busy
HasRoom == Len(stack) < MaxDepth

-----------------------------------------------------------------------------
NodeTypeOK ==
  /\ lastEntryId \in 0 .. MaxEntryId
  /\ connectStatus \in Statuses
  /\ onConnectedCallbacks \in Seq(Ids)
  /\ flushed \in Nat
  /\ transport \in Transports
  /\ connects \in Nat
  /\ delayed \in SUBSET Ids
  /\ filter \in [Ids -> SUBSET Prefixes]
  /\ stack \in Seq(Frames)
  /\ known \in SUBSET Ids
  /\ sent \in Seq(Ids)
  /\ calls \in [Ids -> Seq(Outcomes)]
  /\ silenced \in SUBSET Ids

(* Every variable has its type: the tables hold IDs that getNextEntryId    *)
(* can have handed out, the stack holds handlers of the Node.              *)
TypeOK == PitTypeOK /\ NodeTypeOK

Init ==
  /\ PitInit
  /\ lastEntryId = 0
  /\ connectStatus = "UNCONNECTED"
  /\ onConnectedCallbacks = <<>>
  /\ flushed = 0
  /\ transport = "closed"
  /\ connects = 0
  /\ delayed = {}
  /\ filter = [id \in Ids |-> {}]
  /\ stack = <<>>
  /\ known = {}
  /\ sent = <<>>
  /\ calls = [id \in Ids |-> <<>>]
  /\ silenced = {}

-----------------------------------------------------------------------------
(* expressInterestHelper: PIT entry, timeout, send, loopback.              *)

(* How it ends: with no entry, without sending (/local/timeout), by an     *)
(* exception (too big, not connected, error in write), or sent.            *)
HelperEnds(id, interest, open) ==
  IF IsRemoveRequested(id) THEN {"cancelled"}
  ELSE IF interest.local THEN {"quiet"}
  ELSE IF interest.big \/ ~open THEN {"threw"}
  ELSE {"sent", "threw"}

Matched(interest) == {f \in Ids : filter[f] \cap interest.under # {}}

(* The filters that the loopback of this Interest calls.                   *)
LoopbackTo(interest, end) ==
  IF Loopback /\ end = "sent" THEN Matched(interest) ELSE {}

(* The mutant sets the timeout up after the send.                          *)
HelperTimesLate(id, interest, end) ==
  /\ Add(id)
  /\ delayed' = IF end \in {"sent", "quiet"}
                   /\ (interest.onTimeout \/ interest.lifetime)
                THEN delayed \cup {id} ELSE delayed
  /\ sent' = IF end = "sent" THEN Append(sent, id) ELSE sent
  /\ UNCHANGED <<filter, calls, silenced>>

Helper(id, interest, end) ==
  /\ Add(id)
  /\ delayed' = IF end # "cancelled" /\ (interest.onTimeout \/ interest.lifetime)
                THEN delayed \cup {id} ELSE delayed
  /\ sent' = IF end = "sent" THEN Append(sent, id) ELSE sent
  /\ UNCHANGED <<filter, calls, silenced>>

(* The loopback callbacks run before the helper returns.                   *)
Dispatch(kind, to, id) ==
  /\ to # {} => HasRoom
  /\ stack' = IF to = {} THEN stack ELSE Push(Frame(kind, to, id))

(* expressInterest returns the ID unless it throws; when there are         *)
(* loopback callbacks, only after them.                                    *)
Returns(id, interest, end) ==
  known' = IF end # "threw" /\ LoopbackTo(interest, end) = {}
           THEN known \cup {id} ELSE known

(* expressInterest when the connection is complete.                        *)
ExpressConnected(id, interest) ==
  /\ connectStatus = "CONNECT_COMPLETE"
  /\ \E end \in HelperEnds(id, interest, transport = "open") :
       /\ Helper(id, interest, end)
       /\ Dispatch("loopback", LoopbackTo(interest, end), id)
       /\ Returns(id, interest, end)
  /\ UNCHANGED <<connectStatus, onConnectedCallbacks, flushed, transport,
                 connects>>

(* Mutant: CONNECT_COMPLETE is forgotten.                                  *)
ConnectingStays(id, interest) ==
  /\ connectStatus # "CONNECT_COMPLETE"
  /\ ~IsAsync
  /\ transport' = "open"
  /\ connects' = connects + 1
  /\ \E end \in HelperEnds(id, interest, TRUE) :
       /\ Helper(id, interest, end)
       /\ Dispatch("connectLoopback", LoopbackTo(interest, end), id)
       /\ Returns(id, interest, end)
  /\ UNCHANGED <<connectStatus, onConnectedCallbacks, flushed>>

(* expressInterest on a synchronous transport which is not connected: a    *)
(* blocking connect, then the helper, and only then CONNECT_COMPLETE.      *)
ExpressConnecting(id, interest) ==
  /\ connectStatus # "CONNECT_COMPLETE"
  /\ ~IsAsync
  /\ transport' = "open"
  /\ connects' = connects + 1
  /\ \E end \in HelperEnds(id, interest, TRUE) :
       /\ Helper(id, interest, end)
       /\ Dispatch("connectLoopback", LoopbackTo(interest, end), id)
       /\ Returns(id, interest, end)
       /\ connectStatus' = IF end = "threw" \/ LoopbackTo(interest, end) # {}
                           THEN connectStatus ELSE "CONNECT_COMPLETE"
  /\ UNCHANGED <<onConnectedCallbacks, flushed>>

(* The blocking connect throws: nothing was added and no ID is returned.   *)
(* TCP has closed an earlier socket first, a Unix socket has not.          *)
ExpressConnectFails ==
  /\ connectStatus # "CONNECT_COMPLETE"
  /\ ~IsAsync /\ ConnectMayFail
  /\ transport' \in {"closed", transport}
  /\ UNCHANGED <<table, older, isRemoved, removeRequests, connectStatus,
                 onConnectedCallbacks, flushed, connects, delayed, filter,
                 stack, known, sent, calls, silenced>>

(* expressInterest on an asynchronous transport which is not connected.    *)
ExpressQueued(id) ==
  /\ connectStatus # "CONNECT_COMPLETE"
  /\ IsAsync
  /\ onConnectedCallbacks' = Append(onConnectedCallbacks, id)
  /\ connectStatus' = "CONNECT_REQUESTED"
  /\ transport' = IF connectStatus = "UNCONNECTED" THEN "connecting"
                  ELSE transport
  /\ known' = known \cup {id}
  /\ UNCHANGED <<table, older, isRemoved, removeRequests, flushed, connects,
                 delayed, filter, stack, sent, calls, silenced>>

NodeExpressInterest(id, interest) ==
  /\ interestOf' = [interestOf EXCEPT ![id] = interest]
  /\ \/ ExpressConnected(id, interest)
     \/ ExpressConnecting(id, interest)
     \/ ExpressConnectFails
     \/ ExpressQueued(id)

(* getNextEntryId: the bound on lastEntryId is MaxEntryId.                 *)
GetNextEntryId(id) ==
  /\ id = lastEntryId + 1
  /\ id \in Ids
  /\ lastEntryId' = id

(* Face::expressInterest.                                                  *)
ExpressInterest(interest) ==
  /\ AppMayCall
  /\ \E id \in Ids : GetNextEntryId(id) /\ NodeExpressInterest(id, interest)

-----------------------------------------------------------------------------
(* The connection.                                                         *)

(* connectHandler reports success: isConnected_ is set and onConnected     *)
(* begins.                                                                 *)
Connected ==
  /\ AtEventLoop
  /\ transport = "connecting"
  /\ transport' = "open"
  /\ connects' = connects + 1
  /\ stack' = Push(Frame("onConnected", {}, 0))
  /\ UNCHANGED <<pitVars, lastEntryId, connectStatus, onConnectedCallbacks,
                 flushed, delayed, filter, known, sent, calls, silenced>>

(* connectHandler reports an error: it throws out of the event loop.       *)
ConnectFails ==
  /\ AtEventLoop /\ ConnectMayFail
  /\ transport = "connecting"
  /\ transport' = "closed"
  /\ UNCHANGED <<pitVars, lastEntryId, connectStatus, onConnectedCallbacks,
                 flushed, connects, delayed, filter, stack, known, sent, calls,
                 silenced>>

InOnConnected == stack # <<>> /\ Top.kind = "onConnected"

(* The call that the loop of onConnected makes next, and a mutant which    *)
(* takes the calls from the back.                                          *)
NextQueuedLast == onConnectedCallbacks[Len(onConnectedCallbacks) - flushed]
NextQueued == onConnectedCallbacks[flushed + 1]

(* One iteration of the loop.                                              *)
FlushOne ==
  /\ InOnConnected
  /\ flushed < Len(onConnectedCallbacks)
  /\ flushed' = flushed + 1
  /\ LET id == NextQueued IN
     \E end \in HelperEnds(id, interestOf[id], transport = "open") \ {"threw"} :
       /\ Helper(id, interestOf[id], end)
       /\ Dispatch("loopback", LoopbackTo(interestOf[id], end), id)
  /\ UNCHANGED <<interestOf, lastEntryId, connectStatus, onConnectedCallbacks,
                 transport, connects, known>>

(* The helper throws.  The exception leaves the loop, and connectHandler   *)
(* before it starts async_receive: nothing will be received.               *)
FlushThrows ==
  /\ InOnConnected
  /\ flushed < Len(onConnectedCallbacks)
  /\ flushed' = flushed + 1
  /\ LET id == NextQueued IN
       /\ "threw" \in HelperEnds(id, interestOf[id], transport = "open")
       /\ Helper(id, interestOf[id], "threw")
  /\ stack' = Pop
  /\ transport' = IF transport = "open" THEN "deaf" ELSE transport
  /\ UNCHANGED <<interestOf, lastEntryId, connectStatus, onConnectedCallbacks,
                 connects, known>>

(* The loop ends when it has reached the end of the list, which can have   *)
(* grown since it began.  The mutant leaves the last call out.             *)
NoMoreQueuedButLast == flushed >= Len(onConnectedCallbacks) - 1
NoMoreQueued == flushed = Len(onConnectedCallbacks)

FlushDone ==
  /\ InOnConnected
  /\ NoMoreQueued
  /\ onConnectedCallbacks' = <<>>
  /\ flushed' = 0
  /\ connectStatus' = "CONNECT_COMPLETE"
  /\ stack' = Pop
  /\ UNCHANGED <<pitVars, lastEntryId, transport, connects, delayed, filter,
                 known, sent, calls, silenced>>

(* Node::shutdown, or an error of the transport which closes it.           *)
Shutdown ==
  /\ AppMayCall
  /\ transport' = "closed"
  /\ UNCHANGED <<pitVars, lastEntryId, connectStatus, onConnectedCallbacks,
                 flushed, connects, delayed, filter, stack, known, sent, calls,
                 silenced>>

-----------------------------------------------------------------------------
(* Received packets, putData and timeouts.                                 *)

frameOnly == <<lastEntryId, connectStatus, onConnectedCallbacks, flushed,
               transport, connects, delayed, filter, known, sent, calls,
               silenced>>

(* satisfyPendingInterests.                                                *)
Satisfy(d) ==
  /\ Extract(MatchesData(d))
  /\ Dispatch("onData", MatchesData(d), 0)
  /\ UNCHANGED frameOnly

IsReceiving == AtEventLoop /\ transport = "open"

ReceiveData(d) == IsReceiving /\ Satisfy(d)

(* putData calls satisfyPendingInterests first when loopback is enabled;   *)
(* otherwise it only sends.                                                *)
PutData(d) == AppMayCall /\ Loopback /\ Satisfy(d)

ReceiveNack(wire) ==
  /\ IsReceiving
  /\ Extract(MatchesNack(wire))
  /\ Dispatch("onNetworkNack", MatchesNack(wire), 0)
  /\ UNCHANGED frameOnly

(* dispatchInterest takes all matching filters before it calls the first.  *)
ReceiveInterest(interest) ==
  /\ IsReceiving
  /\ Dispatch("onInterest", Matched(interest), 0)
  /\ UNCHANGED pitVars /\ UNCHANGED frameOnly

(* A delayed call of processInterestTimeout, from callTimedOut.            *)
ProcessInterestTimeout(id) ==
  /\ AtEventLoop
  /\ id \in delayed
  /\ delayed' = delayed \ {id}
  /\ Extract(IF RemovesEntry(id) THEN {id} ELSE {})
  /\ Dispatch("onTimeout",
              IF RemovesEntry(id) /\ interestOf[id].onTimeout THEN {id} ELSE {},
              0)
  /\ UNCHANGED <<lastEntryId, connectStatus, onConnectedCallbacks, flushed,
                 transport, connects, filter, known, sent, calls, silenced>>

(* The innermost handler calls back its next entry: the pending Interests  *)
(* were collected from the back of the table, the filters from the front.  *)
IsNext(id) ==
  IF Top.kind \in Dispatches
  THEN \A other \in Top.todo \ {id} : id \in older[other]
  ELSE \A other \in Top.todo \ {id} : other \in older[id]

Call(id) ==
  /\ stack # <<>> /\ ~Top.busy
  /\ id \in Top.todo /\ IsNext(id)
  /\ stack' = [stack EXCEPT ![Len(stack)] =
                 [Top EXCEPT !.todo = @ \ {id}, !.busy = TRUE]]
  /\ calls' = IF Top.kind \in Outcomes
              THEN [calls EXCEPT ![id] = Append(@, Top.kind)] ELSE calls
  /\ UNCHANGED pitVars
  /\ UNCHANGED <<lastEntryId, connectStatus, onConnectedCallbacks, flushed,
                 transport, connects, delayed, filter, known, sent, silenced>>

ReturnedId == IF Top.id # 0 THEN known \cup {Top.id} ELSE known

(* The callback returns (an exception is caught and logged).  After the    *)
(* last one the handler ends, and with it the expressInterest that was     *)
(* looping back.                                                           *)
CallbackReturns ==
  /\ stack # <<>> /\ Top.busy
  /\ IF Top.todo # {}
     THEN /\ stack' = [stack EXCEPT ![Len(stack)].busy = FALSE]
          /\ UNCHANGED <<connectStatus, known>>
     ELSE /\ stack' = Pop
          /\ known' = ReturnedId
          /\ connectStatus' = IF Top.kind = "connectLoopback"
                              THEN "CONNECT_COMPLETE" ELSE connectStatus
  /\ UNCHANGED pitVars
  /\ UNCHANGED <<lastEntryId, onConnectedCallbacks, flushed, transport,
                 connects, delayed, filter, sent, calls, silenced>>

-----------------------------------------------------------------------------
(* The other calls of the application.                                     *)

(* The entries which a handler has extracted and not called back yet.      *)
Extracted ==
  {id \in Ids : \E i \in DOMAIN stack :
     stack[i].kind \in Outcomes /\ id \in stack[i].todo}

(* Face::removePendingInterest.                                            *)
RemovePendingInterest(id) ==
  /\ AppMayCall
  /\ id \in known
  /\ PitRemove(id)
  /\ silenced' = IF id \in Extracted \/ calls[id] # <<>> THEN silenced
                 ELSE silenced \cup {id}
  /\ UNCHANGED <<lastEntryId, connectStatus, onConnectedCallbacks, flushed,
                 transport, connects, delayed, filter, stack, known, sent,
                 calls>>

(* Face::setInterestFilter and Face::unsetInterestFilter.                  *)
NodeSetInterestFilter(id, prefix) ==
  /\ filter' = [filter EXCEPT ![id] = {prefix}]
  /\ older' = [older EXCEPT ![id] = {f \in Ids : filter[f] # {}}]
  /\ UNCHANGED <<table, isRemoved, removeRequests, interestOf, connectStatus,
                 onConnectedCallbacks, flushed, transport, connects, delayed,
                 stack, known, sent, calls, silenced>>

SetInterestFilter(prefix) ==
  /\ AppMayCall
  /\ \E id \in Ids : GetNextEntryId(id) /\ NodeSetInterestFilter(id, prefix)

UnsetInterestFilter(id) ==
  /\ AppMayCall
  /\ filter[id] # {}
  /\ filter' = [filter EXCEPT ![id] = {}]
  /\ UNCHANGED pitVars
  /\ UNCHANGED <<lastEntryId, connectStatus, onConnectedCallbacks, flushed,
                 transport, connects, delayed, stack, known, sent, calls,
                 silenced>>

-----------------------------------------------------------------------------
(* The library's own steps, and the calls that the application makes.      *)
LibraryStep ==
  \/ Connected
  \/ ConnectFails
  \/ FlushOne
  \/ FlushThrows
  \/ FlushDone
  \/ CallbackReturns
  \/ \E id \in Ids : ProcessInterestTimeout(id) \/ Call(id)
  \/ \E d \in Packets : ReceiveData(d)
  \/ \E wire \in Wires : ReceiveNack(wire)
  \/ \E interest \in Interests : ReceiveInterest(interest)

AppCall ==
  \/ \E interest \in Interests : ExpressInterest(interest)
  \/ \E id \in Ids : RemovePendingInterest(id) \/ UnsetInterestFilter(id)
  \/ \E prefix \in Prefixes : SetInterestFilter(prefix)
  \/ \E d \in Packets : PutData(d)
  \/ Shutdown

Next == LibraryStep \/ AppCall

Spec == Init /\ [][Next]_vars
=============================================================================
