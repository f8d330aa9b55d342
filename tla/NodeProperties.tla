--------------------------- MODULE NodeProperties ---------------------------
(***************************************************************************)
(* What makes ndn::Node correct.                                           *)
(***************************************************************************)
EXTENDS Node

UsesTimer(id) == interestOf[id].onTimeout \/ interestOf[id].lifetime

(* The expressInterest calls which onConnected has not made yet.           *)
Queued(id) ==
  \E k \in DOMAIN onConnectedCallbacks :
    k > flushed /\ onConnectedCallbacks[k] = id

(* The entry timed out and has no onTimeout to call.                       *)
ExpiredSilently(id) ==
  id \in isRemoved /\ id \notin delayed /\ ~interestOf[id].onTimeout

(***************************************************************************)
(* Safety.                                                                 *)
(***************************************************************************)

(* However a Data, a Nack, a timeout, a loopback answer and the            *)
(* application's own calls interleave, an expressed Interest gets at most  *)
(* one callback: extraction takes the entry away from all other results.   *)
AtMostOneCallback == \A id \in Ids : Len(calls[id]) <= 1

(* After removePendingInterest, an Interest whose result was not extracted *)
(* yet stays without a callback, also when it was removed while it waited  *)
(* for the connection.                                                     *)
RemovedStaysSilent ==
  \A id \in silenced :
    calls[id] = <<>> /\ id \notin table /\ id \notin Extracted

(* An ID is waiting for the connection, is in the table, is about to be    *)
(* called back, has been called back, was removed, or expired without an   *)
(* onTimeout.                                                              *)
Held(id) ==
  \/ Queued(id)
  \/ id \in table \cup Extracted \cup silenced
  \/ calls[id] # <<>>
  \/ ExpiredSilently(id)

(* No Interest is lost: each ID which expressInterest returned is held.    *)
NoInterestLost == \A id \in known : Held(id)

(* The timeout of a pending entry is always armed, also when               *)
(* expressInterest threw after it added the entry: otherwise it would stay *)
(* in the table for ever.                                                  *)
PendingIsTimed == \A id \in table : UsesTimer(id) => id \in delayed

(* Interests leave in the order of their expressInterest calls, also those *)
(* expressed while onConnected sends the ones that waited.                 *)
SentInOrder == \A i, j \in DOMAIN sent : i < j => sent[i] < sent[j]

(***************************************************************************)
(* Why they hold: the inductive invariant.                                 *)
(***************************************************************************)

(* No entry is in two handlers at once.                                    *)
StackInv ==
  \A i, j \in DOMAIN stack :
    (i # j /\ stack[i].kind \in Outcomes /\ stack[j].kind \in Outcomes)
      => stack[i].todo \cap stack[j].todo = {}

(* An entry is pending, or is extracted, or has been called back.          *)
TableInv ==
  /\ \A id \in table : calls[id] = <<>> /\ id \notin isRemoved \cup Extracted
  /\ \A id \in Extracted : calls[id] = <<>> /\ id \in isRemoved
  /\ \A id \in Ids : calls[id] # <<>> => id \in isRemoved /\ Len(calls[id]) = 1

(* A call that waits for the connection has no entry yet; it was removed   *)
(* exactly when its removal is requested, and it waits only once.          *)
QueueInv ==
  /\ flushed \in 0 .. Len(onConnectedCallbacks)
  /\ \A k, l \in DOMAIN onConnectedCallbacks :
       k # l => onConnectedCallbacks[k] # onConnectedCallbacks[l]
  /\ \A k \in DOMAIN onConnectedCallbacks :
       k > flushed =>
         LET id == onConnectedCallbacks[k] IN
         /\ id \notin table \cup isRemoved
         /\ id \in removeRequests <=> id \in silenced

(* An ID that was not handed out occurs nowhere.                           *)
FreshInv ==
  /\ \A id \in table \cup isRemoved \cup removeRequests \cup silenced
               \cup known \cup delayed : id <= lastEntryId
  /\ \A k \in DOMAIN onConnectedCallbacks :
       onConnectedCallbacks[k] <= lastEntryId
  /\ \A i \in DOMAIN stack : stack[i].id <= lastEntryId

(* The invariant which every step preserves.                               *)
IInv ==
  /\ TypeOK /\ StackInv /\ TableInv /\ QueueInv /\ FreshInv
  /\ RemovedStaysSilent /\ PendingIsTimed

(* The Node has not seen the ID yet, but perhaps a request to remove it.   *)
Unseen(id) ==
  /\ id \notin table \cup isRemoved \cup Extracted
  /\ id \in removeRequests <=> id \in silenced
  /\ \A k \in DOMAIN onConnectedCallbacks : onConnectedCallbacks[k] # id
  /\ \A i \in DOMAIN stack : stack[i].id # id

(* An Interest is held also while expressInterest is looping it back and   *)
(* has not returned its ID yet.                                            *)
HeldInv ==
  NoInterestLost /\ \A i \in DOMAIN stack : stack[i].id # 0 => Held(stack[i].id)

(* What waits for the connection is later than what was sent, and nothing  *)
(* waits when expressInterest sends directly.                              *)
OrderInv ==
  /\ SentInOrder
  /\ \A i \in DOMAIN sent : sent[i] <= lastEntryId
  /\ \A k, l \in DOMAIN onConnectedCallbacks :
       k < l => onConnectedCallbacks[k] < onConnectedCallbacks[l]
  /\ \A i \in DOMAIN sent, k \in DOMAIN onConnectedCallbacks :
       k > flushed => sent[i] < onConnectedCallbacks[k]
  /\ onConnectedCallbacks # <<>> => IsAsync /\ connectStatus # "CONNECT_COMPLETE"
  /\ \A i \in DOMAIN stack : stack[i].kind = "connectLoopback" => ~IsAsync

(***************************************************************************)
(* The abstract specification.                                             *)
(***************************************************************************)
(* A second result shows as a state which the promise does not have.       *)
StateOf(id) ==
  IF calls[id] # <<>>
  THEN IF id \in Extracted \/ Len(calls[id]) > 1 THEN "told again" ELSE "told"
  ELSE IF id \in Extracted THEN "chosen"
  ELSE IF id \in silenced \cup isRemoved THEN "removed"
  ELSE IF id \in table \/ Queued(id) THEN "pending"
  ELSE "unused"

Promise == INSTANCE InterestPromise WITH state <- [id \in Ids |-> StateOf(id)]

(* The Node implements the promise of the Face: no step gives an Interest  *)
(* a second result, or one after it was removed.                           *)
KeepsPromise == Promise!Spec

(***************************************************************************)
(* Liveness.                                                               *)
(***************************************************************************)

(* The event loop runs: a callback returns, a handler goes on, the         *)
(* connection is established or fails.  Each processEvents ends with       *)
(* callTimedOut, so a call which is due is made although packets keep      *)
(* arriving.                                                               *)
LoopFairness ==
  /\ WF_vars(Connected \/ ConnectFails)
  /\ WF_vars(FlushOne \/ FlushThrows \/ FlushDone)
  /\ WF_vars(CallbackReturns)
  /\ \A id \in Ids : WF_vars(Call(id)) /\ SF_vars(ProcessInterestTimeout(id))

FairSpec == Spec /\ LoopFairness

(* An Interest with an onTimeout gets a callback, unless it is removed.    *)
(* (On an asynchronous transport it is not so when the connection fails.)  *)
ResultComes ==
  \A id \in Ids :
    (id \in known /\ interestOf[id].onTimeout)
      ~> (calls[id] # <<>> \/ id \in silenced)

(***************************************************************************)
(* What the comments say and the code does not do (section 4 of the        *)
(* README).                                                                *)
(***************************************************************************)

(* removePendingInterest does nothing when the entry does not exist any    *)
(* more (its result has been called back).                                 *)
RemoveOfAnsweredDoesNothing ==
  [][\A id \in Ids : calls[id] # <<>> =>
       (id \in removeRequests' => id \in removeRequests)]_vars

(* Once expressInterest has sent an Interest, "future calls" use the same  *)
(* connection (node.cpp, line 81).                                         *)
ConnectionIsKept == [][sent # <<>> => connects' = connects]_vars

(* expressInterest is not entered until onConnected has completed.         *)
OnConnectedIsNotReentered ==
  [][(\E i \in DOMAIN stack : stack[i].kind = "onConnected") =>
       Len(onConnectedCallbacks') <= Len(onConnectedCallbacks)]_vars
=============================================================================
