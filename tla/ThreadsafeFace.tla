--------------------------- MODULE ThreadsafeFace ---------------------------
(***************************************************************************)
(* ThreadsafeFace (src/src/threadsafe-face.cpp): the calls of any thread   *)
(* are dispatched to the io_service, whose thread alone runs the Node.     *)
(*                                                                         *)
(* A call which returns an ID first takes it from the atomic counter, in   *)
(* the calling thread, and then dispatches the Node's method with it.      *)
(* Dispatched by another thread, the method waits behind the others; in a  *)
(* callback, which runs in the io_service thread, it runs at once: before  *)
(* the methods which wait, also before the one which uses its ID.          *)
(***************************************************************************)
EXTENDS NodeProperties

CONSTANTS
  Threads,     \* the threads of the application, except the io_service's
  MaxWaiting   \* bound on the calls that wait in the io_service

ASSUME ThreadsafeFaceAssumption == MaxWaiting \in Nat

VARIABLES
  making,    \* the call of each thread that has its ID and is not dispatched
  waiting,   \* the methods dispatched to the io_service, in order
  filterIds, \* the interestFilterIds returned to the application
  unset      \* those with which unsetInterestFilter has run

threadVars == <<making, waiting, filterIds, unset>>
faceVars == <<vars, threadVars>>

(* The calls which return an ID, and the others.                           *)
Makings ==
  [method : {"expressInterest"}, id : Ids, interest : Interests]
    \cup [method : {"setInterestFilter"}, id : Ids, prefix : Prefixes]
Calls ==
  Makings \cup [method : {"removePendingInterest", "unsetInterestFilter"}, id : Ids]
    \cup [method : {"putData"}, data : Packets] \cup [method : {"shutdown"}]

FaceTypeOK ==
  /\ TypeOK
  /\ making \in [Threads -> SUBSET Makings]
  /\ \A t \in Threads : \A call, other \in making[t] : call = other
  /\ waiting \in Seq(Calls)
  /\ filterIds \in SUBSET Ids
  /\ unset \in SUBSET Ids

FaceInit ==
  /\ Init
  /\ making = [t \in Threads |-> {}]
  /\ waiting = <<>>
  /\ filterIds = {}
  /\ unset = {}

-----------------------------------------------------------------------------
(* A call of another thread.                                               *)

DispatchLast(call) == Append(waiting, call)

(* lastEntryId_ is atomic, because threads add to it outside of dispatch.  *)
(* In the mutant two threads that read it at the same time get the same    *)
(* ID.                                                                     *)
TakesSharedId(id) ==
  GetNextEntryId(id) \/ (id = lastEntryId /\ id \in Ids /\ UNCHANGED lastEntryId)
TakesOwnId(id) == GetNextEntryId(id)

(* expressInterest and setInterestFilter take the ID ...                   *)
TakeId(t) ==
  /\ making[t] = {}
  /\ \E call \in Makings :
       /\ TakesOwnId(call.id)
       /\ making' = [making EXCEPT ![t] = {call}]
  /\ UNCHANGED <<pitVars, connectStatus, onConnectedCallbacks, flushed,
                 transport, connects, delayed, filter, stack, known, sent,
                 calls, silenced, waiting, filterIds, unset>>

(* ... and dispatch the Node's method; then the ID is returned.            *)
DispatchMaking(t) ==
  /\ Len(waiting) < MaxWaiting
  /\ \E call \in making[t] :
       /\ waiting' = DispatchLast(call)
       /\ IF call.method = "expressInterest"
          THEN known' = known \cup {call.id} /\ UNCHANGED filterIds
          ELSE filterIds' = filterIds \cup {call.id} /\ UNCHANGED known
  /\ making' = [making EXCEPT ![t] = {}]
  /\ UNCHANGED <<pitVars, lastEntryId, connectStatus, onConnectedCallbacks,
                 flushed, transport, connects, delayed, filter, stack, sent,
                 calls, silenced, unset>>

(* The other calls are only dispatched.                                    *)
DispatchOther(t) ==
  /\ making[t] = {}
  /\ Len(waiting) < MaxWaiting
  /\ \E call \in Calls \ Makings :
       /\ call.method = "removePendingInterest" => call.id \in known
       /\ call.method = "unsetInterestFilter" => call.id \in filterIds
       /\ waiting' = DispatchLast(call)
  /\ UNCHANGED <<vars, making, filterIds, unset>>

-----------------------------------------------------------------------------
(* What the io_service runs.                                               *)

Unset(id) ==
  IF filter[id] # {} THEN UnsetInterestFilter(id) ELSE UNCHANGED vars

NodeMethod(call) ==
  \/ /\ call.method = "expressInterest"
     /\ NodeExpressInterest(call.id, call.interest)
     /\ UNCHANGED <<lastEntryId, unset>>
  \/ /\ call.method = "setInterestFilter"
     /\ NodeSetInterestFilter(call.id, call.prefix)
     /\ UNCHANGED <<lastEntryId, unset>>
  \/ /\ call.method = "removePendingInterest"
     /\ RemovePendingInterest(call.id)
     /\ UNCHANGED unset
  \/ /\ call.method = "unsetInterestFilter"
     /\ Unset(call.id)
     /\ unset' = unset \cup {call.id}
  \/ /\ call.method = "putData"
     /\ IF Loopback THEN PutData(call.data) ELSE UNCHANGED vars
     /\ UNCHANGED unset
  \/ call.method = "shutdown" /\ Shutdown /\ UNCHANGED unset

RunWaiting ==
  /\ AtEventLoop /\ waiting # <<>>
  /\ NodeMethod(Head(waiting))
  /\ waiting' = Tail(waiting)
  /\ UNCHANGED <<making, filterIds>>

AppCallInCallback ==
  \/ \E interest \in Interests : ExpressInterest(interest)
  \/ \E id \in Ids : RemovePendingInterest(id)
  \/ \E prefix \in Prefixes : SetInterestFilter(prefix)
  \/ \E d \in Packets : PutData(d)
  \/ Shutdown

(* A callback unsets a filter.  When another thread's setInterestFilter    *)
(* has returned the ID and still waits, this finds nothing, is forgotten,  *)
(* and the filter will be set.                                             *)
UnsetInCallback ==
  /\ AppMayCall
  /\ \E id \in filterIds : Unset(id) /\ unset' = unset \cup {id}

(* A callback uses the Face: dispatch runs the method at once.             *)
CallInCallback ==
  /\ ~AtEventLoop
  /\ (AppCallInCallback /\ UNCHANGED unset) \/ UnsetInCallback
  /\ filterIds' = filterIds \cup {id \in Ids : filter'[id] # {}}
  /\ UNCHANGED <<making, waiting>>

RunNode == LibraryStep /\ UNCHANGED threadVars

FaceNext ==
  \/ \E t \in Threads : TakeId(t) \/ DispatchMaking(t) \/ DispatchOther(t)
  \/ RunWaiting
  \/ CallInCallback
  \/ RunNode

FaceSpec == FaceInit /\ [][FaceNext]_faceVars

-----------------------------------------------------------------------------
(* The Face keeps its promise for the calls of all threads.  An ID is that *)
(* of one Interest, although many threads take IDs at the same time: what  *)
(* was told or removed is not pending again.  An Interest has no result    *)
(* before the io_service has run its method; a removal that overtakes the  *)
(* method turns it into a removed one, and the method does not revive it.  *)
FaceKeepsPromise == KeepsPromise

IsWaiting(method, id) ==
  \E k \in DOMAIN waiting : waiting[k].method = method /\ waiting[k].id = id

(* Every Interest whose ID was returned in any thread is waiting in the    *)
(* io_service, or is with the Node, which does not lose it.                *)
NoThreadLosesInterest ==
  \A id \in known :
    \/ IsWaiting("expressInterest", id)
    \/ Queued(id)
    \/ id \in table \cup Extracted \cup silenced
    \/ calls[id] # <<>>
    \/ ExpiredSilently(id)

-----------------------------------------------------------------------------
(* Why they hold: the inductive invariant.                                 *)

Makes(call) == call.method \in {"expressInterest", "setInterestFilter"}

(* Each ID which was taken belongs to one call.                            *)
OwnerInv ==
  /\ \A t, u \in Threads : \A call \in making[t], other \in making[u] :
       t # u => call.id # other.id
  /\ \A t \in Threads, k \in DOMAIN waiting : \A call \in making[t] :
       Makes(waiting[k]) => waiting[k].id # call.id
  /\ \A k, l \in DOMAIN waiting :
       (k # l /\ Makes(waiting[k]) /\ Makes(waiting[l]))
         => waiting[k].id # waiting[l].id

(* The Node has not seen the Interests that are still to reach it.         *)
ComingInv ==
  /\ \A t \in Threads : \A call \in making[t] :
       Unseen(call.id) /\ call.id <= lastEntryId
  /\ \A k \in DOMAIN waiting :
       Makes(waiting[k]) => Unseen(waiting[k].id) /\ waiting[k].id <= lastEntryId

FaceInv == FaceTypeOK /\ IInv /\ OwnerInv /\ ComingInv

(* On top of it: an Interest is waiting or held, also while it is looped   *)
(* back.                                                                   *)
WaitsOrHeld(id) == IsWaiting("expressInterest", id) \/ Held(id)
FaceHeldInv ==
  /\ NoThreadLosesInterest
  /\ \A i \in DOMAIN stack : stack[i].id # 0 => WaitsOrHeld(stack[i].id)

-----------------------------------------------------------------------------
(* What the comments say and the code does not do (section 4 of the        *)
(* README): an unset removes the filter with the ID that setInterestFilter *)
(* returned (face.hpp, line 588).  Called in a callback, it can overtake   *)
(* the set of another thread, and the filter stays.                        *)
UnsetStaysUnset == \A id \in unset : filter[id] = {}
=============================================================================
