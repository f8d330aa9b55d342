----------------------------- MODULE NodeProofs -----------------------------
(***************************************************************************)
(* Theorems about ndn::Node and its Faces, for every set of Interests,     *)
(* every number of IDs, every depth of nesting, and both kinds of          *)
(* transport.  IInv of NodeProperties is inductive: an Interest gets at    *)
(* most one callback, none after it was removed, and each pending entry    *)
(* has its timeout armed, whatever the callbacks do.  On it rest what the  *)
(* Node promises its application: Interests are sent in their order, none  *)
(* is lost, and none has a second result.  FaceInv adds the threads of the *)
(* ThreadsafeFace, and carries the same promises over to them.             *)
(***************************************************************************)
EXTENDS ThreadsafeFace, SequenceTheorems, TLAPS

-----------------------------------------------------------------------------
(* The stack of handlers.                                                  *)

LEMMA PushType ==
  ASSUME stack \in Seq(Frames), NEW f \in Frames
  PROVE  /\ Push(f) \in Seq(Frames)
         /\ Len(Push(f)) = Len(stack) + 1
         /\ DOMAIN Push(f) = 1 .. Len(stack) + 1
         /\ \A i \in DOMAIN stack : Push(f)[i] = stack[i]
         /\ Push(f)[Len(stack) + 1] = f
BY DEF Push

LEMMA AllButLast ==
  ASSUME NEW S, NEW s \in Seq(S), s # <<>>
  PROVE  LET t == SubSeq(s, 1, Len(s) - 1)
         IN  /\ t \in Seq(S)
             /\ Len(t) = Len(s) - 1
             /\ \A i \in 1 .. Len(s) - 1 : t[i] = s[i]
<1> DEFINE n == Len(s) - 1
           t == SubSeq(s, 1, n)
<1>1. n \in Nat /\ Len(s) = n + 1
  OBVIOUS
<1>2. \A i \in 1 .. n : s[i] \in S
  BY <1>1
<1> HIDE DEF n
<1>3. /\ t \in Seq(S)
      /\ Len(t) = IF 1 <= n THEN n - 1 + 1 ELSE 0
      /\ \A i \in 1 .. n - 1 + 1 : t[i] = s[1 + i - 1]
  BY <1>1, <1>2, SubSeqProperties
<1>4. /\ n - 1 + 1 = n
      /\ (IF 1 <= n THEN n - 1 + 1 ELSE 0) = n
      /\ \A i \in 1 .. n : 1 + i - 1 = i
  BY <1>1
<1>5. Len(t) = n
  BY <1>3, <1>4
<1>6. \A i \in 1 .. n : t[i] = s[i]
  BY <1>3, <1>4
<1> QED BY <1>3, <1>5, <1>6 DEF n

LEMMA PopType ==
  ASSUME stack \in Seq(Frames), stack # <<>>
  PROVE  /\ Pop \in Seq(Frames)
         /\ Len(Pop) = Len(stack) - 1
         /\ DOMAIN Pop = 1 .. Len(stack) - 1
         /\ \A i \in DOMAIN Pop : Pop[i] = stack[i]
<1>1. /\ Pop \in Seq(Frames)
      /\ Len(Pop) = Len(stack) - 1
      /\ \A i \in 1 .. Len(stack) - 1 : Pop[i] = stack[i]
  BY AllButLast DEF Pop
<1> QED BY <1>1

LEMMA TopType ==
  ASSUME stack \in Seq(Frames), stack # <<>>
  PROVE  Len(stack) \in DOMAIN stack /\ Top \in Frames
BY DEF Top

LEMMA FrameType ==
  ASSUME NEW kind \in Kinds, NEW todo \in SUBSET Ids, NEW id \in 0 .. MaxEntryId
  PROVE  Frame(kind, todo, id) \in Frames
BY DEF Frame, Frames

LEMMA DispatchType ==
  ASSUME stack \in Seq(Frames),
         NEW kind \in Kinds, NEW to \in SUBSET Ids, NEW id \in 0 .. MaxEntryId,
         Dispatch(kind, to, id)
  PROVE  stack' \in Seq(Frames)
BY FrameType, PushType DEF Dispatch

LEMMA IdsInRange == Ids \subseteq 0 .. MaxEntryId
BY PendingInterestAssumption DEF Ids

-----------------------------------------------------------------------------
(* Type correctness.                                                       *)

LEMMA InitTypeOK == Init => TypeOK
<1> SUFFICES ASSUME Init PROVE TypeOK
  OBVIOUS
<1>1. PitTypeOK
  BY DEF Init, PitInit, PitTypeOK
<1>2. NodeTypeOK
  BY PendingInterestAssumption DEF Init, NodeTypeOK, Statuses, Transports
<1> QED BY <1>1, <1>2 DEF TypeOK

LEMMA MatchTypes ==
  ASSUME TypeOK
  PROVE  /\ \A d : MatchesData(d) \in SUBSET Ids
         /\ \A w : MatchesNack(w) \in SUBSET Ids
         /\ \A interest : Matched(interest) \in SUBSET Ids
         /\ \A interest, end : LoopbackTo(interest, end) \in SUBSET Ids
BY DEF TypeOK, PitTypeOK, MatchesData, MatchesNack, Matched, LoopbackTo

LEMMA HelperType ==
  ASSUME TypeOK, NEW id \in Ids, NEW interest, NEW end, Helper(id, interest, end)
  PROVE  /\ table' \in SUBSET Ids
         /\ older' \in [Ids -> SUBSET Ids]
         /\ isRemoved' \in SUBSET Ids
         /\ removeRequests' \in SUBSET Ids
         /\ delayed' \in SUBSET Ids
         /\ sent' \in Seq(Ids)
         /\ UNCHANGED <<filter, calls, silenced>>
<1>1. /\ table' \in SUBSET Ids
      /\ older' \in [Ids -> SUBSET Ids]
      /\ isRemoved' \in SUBSET Ids
      /\ removeRequests' \in SUBSET Ids
  BY DEF Helper, Add, TypeOK, PitTypeOK
<1>2. delayed' \in SUBSET Ids
  BY DEF Helper, TypeOK, NodeTypeOK
<1>3. sent' \in Seq(Ids)
  BY DEF Helper, TypeOK, NodeTypeOK
<1> QED BY <1>1, <1>2, <1>3 DEF Helper

LEMMA NodeExpressTypeOK ==
  ASSUME TypeOK, NEW id \in Ids, NEW interest \in Interests,
         NodeExpressInterest(id, interest), lastEntryId' \in 0 .. MaxEntryId
  PROVE  TypeOK'
<1> USE DEF TypeOK, PitTypeOK, NodeTypeOK
<1>2. lastEntryId' \in 0 .. MaxEntryId
  OBVIOUS
<1>3. interestOf' \in [Ids -> Interests \cup {NoInterest}]
  BY DEF NodeExpressInterest
<1>4. id \in 0 .. MaxEntryId /\ {"loopback", "connectLoopback"} \subseteq Kinds
  BY IdsInRange DEF Kinds, Dispatches
<1>5. CASE ExpressConnected(id, interest)
  <2>1. PICK end : /\ Helper(id, interest, end)
                   /\ Dispatch("loopback", LoopbackTo(interest, end), id)
                   /\ Returns(id, interest, end)
    BY <1>5 DEF ExpressConnected
  <2>2. stack' \in Seq(Frames)
    BY <2>1, <1>4, MatchTypes, DispatchType
  <2>3. known' \in SUBSET Ids
    BY <2>1 DEF Returns
  <2>4. /\ connectStatus' \in Statuses /\ transport' \in Transports
        /\ onConnectedCallbacks' \in Seq(Ids) /\ flushed' \in Nat
        /\ connects' \in Nat
    BY <1>5 DEF ExpressConnected
  <2> QED BY <1>2, <1>3, <2>1, <2>2, <2>3, <2>4, HelperType
<1>6. CASE ExpressConnecting(id, interest)
  <2>1. PICK end : /\ Helper(id, interest, end)
                   /\ Dispatch("connectLoopback", LoopbackTo(interest, end), id)
                   /\ Returns(id, interest, end)
                   /\ connectStatus' \in {connectStatus, "CONNECT_COMPLETE"}
    BY <1>6 DEF ExpressConnecting
  <2>2. stack' \in Seq(Frames)
    BY <2>1, <1>4, MatchTypes, DispatchType
  <2>3. known' \in SUBSET Ids
    BY <2>1 DEF Returns
  <2>4. /\ connectStatus' \in Statuses /\ transport' \in Transports
        /\ onConnectedCallbacks' \in Seq(Ids) /\ flushed' \in Nat
        /\ connects' \in Nat
    BY <1>6, <2>1 DEF ExpressConnecting, Statuses, Transports
  <2> QED BY <1>2, <1>3, <2>1, <2>2, <2>3, <2>4, HelperType
<1>7. CASE ExpressConnectFails
  BY <1>7, <1>2, <1>3 DEF ExpressConnectFails, Transports
<1>8. CASE ExpressQueued(id)
  BY <1>8, <1>2, <1>3 DEF ExpressQueued, Statuses, Transports
<1> QED BY <1>5, <1>6, <1>7, <1>8 DEF NodeExpressInterest

LEMMA FlushTypeOK ==
  ASSUME TypeOK, FlushOne \/ FlushThrows \/ FlushDone
  PROVE  TypeOK'
<1> USE DEF TypeOK, PitTypeOK, NodeTypeOK
<1>1. stack # <<>>
  BY DEF FlushOne, FlushThrows, FlushDone, InOnConnected
<1>2. ASSUME flushed < Len(onConnectedCallbacks)
      PROVE  NextQueued \in Ids /\ NextQueued \in 0 .. MaxEntryId
  <2>1. flushed + 1 \in 1 .. Len(onConnectedCallbacks)
    BY <1>2
  <2>2. onConnectedCallbacks[flushed + 1] \in Ids
    BY <2>1
  <2> QED BY <2>2, IdsInRange DEF NextQueued
<1>3. "loopback" \in Kinds
  BY DEF Kinds, Dispatches
<1>4. CASE FlushOne
  <2>1. NextQueued \in Ids /\ NextQueued \in 0 .. MaxEntryId
    BY <1>2, <1>4 DEF FlushOne
  <2>2. PICK end :
          LET interest == interestOf[NextQueued] IN
          /\ Helper(NextQueued, interest, end)
          /\ Dispatch("loopback", LoopbackTo(interest, end), NextQueued)
    BY <1>4 DEF FlushOne
  <2>3. stack' \in Seq(Frames)
    BY <1>3, <2>1, <2>2, MatchTypes, DispatchType
  <2>4. flushed' \in Nat
    BY <1>4 DEF FlushOne
  <2>5. PitTypeOK'
    BY <1>4, <2>1, <2>2, HelperType DEF FlushOne
  <2>6. /\ delayed' \in SUBSET Ids /\ sent' \in Seq(Ids)
        /\ UNCHANGED <<filter, calls, silenced>>
    BY <2>1, <2>2, HelperType
  <2> QED BY <1>4, <2>3, <2>4, <2>5, <2>6 DEF FlushOne
<1>5. CASE FlushThrows
  <2>1. NextQueued \in Ids
    BY <1>2, <1>5 DEF FlushThrows
  <2>2. Helper(NextQueued, interestOf[NextQueued], "threw")
    BY <1>5 DEF FlushThrows
  <2>3. stack' \in Seq(Frames)
    BY <1>1, <1>5, PopType DEF FlushThrows
  <2> QED BY <1>5, <2>1, <2>2, <2>3, HelperType DEF FlushThrows, Transports
<1>6. CASE FlushDone
  BY <1>1, <1>6, PopType DEF FlushDone, pitVars, Statuses
<1> QED BY <1>4, <1>5, <1>6

LEMMA DeliverTypeOK ==
  ASSUME TypeOK,
         \/ \E d \in Packets : ReceiveData(d) \/ PutData(d)
         \/ \E wire \in Wires : ReceiveNack(wire)
         \/ \E interest \in Interests : ReceiveInterest(interest)
         \/ \E id \in Ids : ProcessInterestTimeout(id)
  PROVE  TypeOK'
<1> USE DEF TypeOK, PitTypeOK, NodeTypeOK
<1>1. /\ {"onData", "onNetworkNack", "onTimeout", "onInterest"} \subseteq Kinds
      /\ 0 \in 0 .. MaxEntryId
  BY PendingInterestAssumption DEF Kinds, Outcomes, Dispatches
<1>2. ASSUME NEW ids \in SUBSET Ids, Extract(ids)
      PROVE  PitTypeOK'
  BY <1>2 DEF Extract
<1>3. CASE \E d \in Packets : ReceiveData(d) \/ PutData(d)
  <2>1. PICK d \in Packets : Satisfy(d)
    BY <1>3 DEF ReceiveData, PutData
  <2>2. PitTypeOK' /\ stack' \in Seq(Frames)
    BY <1>1, <1>2, <2>1, MatchTypes, DispatchType DEF Satisfy
  <2> QED BY <2>1, <2>2 DEF Satisfy, frameOnly
<1>4. CASE \E wire \in Wires : ReceiveNack(wire)
  <2>1. PICK wire \in Wires : ReceiveNack(wire)
    BY <1>4
  <2>2. PitTypeOK' /\ stack' \in Seq(Frames)
    BY <1>1, <1>2, <2>1, MatchTypes, DispatchType DEF ReceiveNack
  <2> QED BY <2>1, <2>2 DEF ReceiveNack, frameOnly
<1>5. CASE \E interest \in Interests : ReceiveInterest(interest)
  <2>1. PICK interest \in Interests : ReceiveInterest(interest)
    BY <1>5
  <2>2. PitTypeOK' /\ stack' \in Seq(Frames)
    BY <1>1, <2>1, MatchTypes, DispatchType DEF ReceiveInterest, pitVars
  <2> QED BY <2>1, <2>2 DEF ReceiveInterest, frameOnly
<1>6. CASE \E id \in Ids : ProcessInterestTimeout(id)
  <2>1. PICK id \in Ids : ProcessInterestTimeout(id)
    BY <1>6
  <2>2. PitTypeOK'
    BY <1>2, <2>1 DEF ProcessInterestTimeout
  <2>3. PICK to \in SUBSET Ids : Dispatch("onTimeout", to, 0)
    BY <2>1 DEF ProcessInterestTimeout
  <2>4. stack' \in Seq(Frames)
    BY <1>1, <2>3, DispatchType
  <2> QED BY <2>1, <2>2, <2>4 DEF ProcessInterestTimeout
<1> QED BY <1>3, <1>4, <1>5, <1>6

LEMMA CallTypeOK ==
  ASSUME TypeOK, NEW id \in Ids, Call(id)
  PROVE  TypeOK'
<1> USE DEF TypeOK, PitTypeOK, NodeTypeOK
<1>1. stack # <<>> /\ Len(stack) \in DOMAIN stack /\ Top \in Frames
  BY TopType DEF Call
<1>2. stack' = [stack EXCEPT ![Len(stack)] =
                  [Top EXCEPT !.todo = @ \ {id}, !.busy = TRUE]]
  BY DEF Call
<1>3. [Top EXCEPT !.todo = @ \ {id}, !.busy = TRUE] \in Frames
  BY <1>1 DEF Frames
<1>4. stack' \in Seq(Frames)
  BY <1>1, <1>2, <1>3
<1>5. calls' \in [Ids -> Seq(Outcomes)]
  BY DEF Call
<1> QED BY <1>4, <1>5 DEF Call, pitVars

LEMMA ReturnTypeOK ==
  ASSUME TypeOK, CallbackReturns
  PROVE  TypeOK'
<1> USE DEF TypeOK, PitTypeOK, NodeTypeOK
<1>1. stack # <<>> /\ Len(stack) \in DOMAIN stack /\ Top \in Frames
  BY TopType DEF CallbackReturns
<1>2. CASE Top.todo # {}
  <2>1. stack' = [stack EXCEPT ![Len(stack)] = [Top EXCEPT !.busy = FALSE]]
    BY <1>2 DEF CallbackReturns, Top
  <2>2. [Top EXCEPT !.busy = FALSE] \in Frames
    BY <1>1 DEF Frames
  <2>3. stack' \in Seq(Frames)
    BY <1>1, <2>1, <2>2
  <2> QED BY <1>2, <2>3 DEF CallbackReturns, pitVars
<1>3. CASE Top.todo = {}
  <2>1. stack' = Pop /\ known' = ReturnedId
    BY <1>3 DEF CallbackReturns
  <2>2. stack' \in Seq(Frames)
    BY <1>1, <2>1, PopType
  <2>3. known' \in SUBSET Ids
    <3>1. Top.id \in 0 .. MaxEntryId
      BY <1>1 DEF Frames
    <3>2. Top.id # 0 => Top.id \in Ids
      BY <3>1, PendingInterestAssumption DEF Ids
    <3> QED BY <2>1, <3>2 DEF ReturnedId
  <2>4. connectStatus' \in Statuses
    BY <1>3 DEF CallbackReturns, Statuses
  <2> QED BY <2>2, <2>3, <2>4 DEF CallbackReturns, pitVars
<1> QED BY <1>2, <1>3

(* Of setInterestFilter only the part that every caller runs.              *)
SetsFilter ==
  \E id \in Ids, prefix \in Prefixes : NodeSetInterestFilter(id, prefix)

(* How lastEntryId_ changes is left open: ThreadsafeFace takes the ID      *)
(* before the Node's method runs.                                          *)
CounterGrows == lastEntryId' \in 0 .. MaxEntryId /\ lastEntryId <= lastEntryId'

LEMMA TakenIdGrows ==
  ASSUME TypeOK, NEW id \in Ids, GetNextEntryId(id)
  PROVE  CounterGrows /\ id <= lastEntryId'
BY PendingInterestAssumption, IdsInRange
DEF TypeOK, NodeTypeOK, GetNextEntryId, CounterGrows, Ids

LEMMA ExpressTypeOK ==
  ASSUME TypeOK, NEW interest \in Interests, ExpressInterest(interest)
  PROVE  TypeOK'
BY NodeExpressTypeOK, TakenIdGrows DEF ExpressInterest, CounterGrows

LEMMA SetFilterTakesId ==
  ASSUME TypeOK, NEW prefix \in Prefixes, SetInterestFilter(prefix)
  PROVE  SetsFilter /\ CounterGrows
BY TakenIdGrows DEF SetInterestFilter, SetsFilter

LEMMA OtherTypeOK ==
  ASSUME TypeOK,
         \/ Connected \/ ConnectFails \/ Shutdown
         \/ \E id \in Ids : RemovePendingInterest(id) \/ UnsetInterestFilter(id)
         \/ SetsFilter /\ CounterGrows
  PROVE  TypeOK'
<1> USE DEF TypeOK, PitTypeOK, NodeTypeOK
<1>1. CASE Connected
  <2>1. Frame("onConnected", {}, 0) \in Frames
    <3>1. "onConnected" \in Kinds /\ {} \in SUBSET Ids /\ 0 \in 0 .. MaxEntryId
      BY PendingInterestAssumption DEF Kinds
    <3> QED BY <3>1, FrameType
  <2>2. stack' \in Seq(Frames)
    BY <1>1, <2>1, PushType DEF Connected
  <2> QED BY <1>1, <2>2 DEF Connected, pitVars, Transports
<1>2. CASE ConnectFails \/ Shutdown
  BY <1>2 DEF ConnectFails, Shutdown, pitVars, Transports
<1>3. CASE \E id \in Ids : RemovePendingInterest(id)
  BY <1>3 DEF RemovePendingInterest, PitRemove
<1>4. CASE \E id \in Ids : UnsetInterestFilter(id)
  BY <1>4 DEF UnsetInterestFilter, pitVars
<1>5. CASE SetsFilter /\ CounterGrows
  BY <1>5 DEF SetsFilter, NodeSetInterestFilter, CounterGrows
<1> QED BY <1>1, <1>2, <1>3, <1>4, <1>5

(* Every reachable state is of the type that TypeOK gives it: no step of   *)
(* the Node, whatever the nesting of callbacks, returns the ID 0 or puts a *)
(* value where the code has none.                                          *)
THEOREM TypeCorrect == Spec => []TypeOK
<1>1. TypeOK /\ [Next]_vars => TypeOK'
  <2> SUFFICES ASSUME TypeOK, [Next]_vars PROVE TypeOK'
    OBVIOUS
  <2>1. CASE LibraryStep
    BY <2>1, FlushTypeOK, DeliverTypeOK, CallTypeOK, ReturnTypeOK, OtherTypeOK
    DEF LibraryStep
  <2>2. CASE AppCall
    BY <2>2, ExpressTypeOK, DeliverTypeOK, OtherTypeOK, SetFilterTakesId DEF AppCall
  <2>3. CASE UNCHANGED vars
    BY <2>3 DEF vars, pitVars, nodeVars, TypeOK, PitTypeOK, NodeTypeOK
  <2> QED BY <2>1, <2>2, <2>3 DEF Next
<1> QED BY <1>1, InitTypeOK, PTL DEF Spec

-----------------------------------------------------------------------------
(* How the operations on the stack change what is extracted.               *)

LEMMA DispatchExtracts ==
  ASSUME stack \in Seq(Frames), StackInv,
         NEW kind \in Kinds, NEW to \in SUBSET Ids, NEW id \in 0 .. MaxEntryId,
         Dispatch(kind, to, id),
         kind \in Outcomes => to \cap Extracted = {}
  PROVE  /\ StackInv'
         /\ Extracted' = IF kind \in Outcomes THEN Extracted \cup to ELSE Extracted
<1>1. CASE to = {}
  <2>1. stack' = stack
    BY <1>1 DEF Dispatch
  <2> QED BY <1>1, <2>1 DEF StackInv, Extracted
<1>2. CASE to # {}
  <2> DEFINE f == Frame(kind, to, id)
             n == Len(stack)
  <2>1. stack' = Push(f) /\ f \in Frames
    BY <1>2, FrameType DEF Dispatch
  <2>2. /\ n \in Nat
        /\ DOMAIN stack = 1 .. n
        /\ DOMAIN stack' = 1 .. n + 1
        /\ \A i \in 1 .. n : stack'[i] = stack[i]
        /\ stack'[n + 1].kind = kind /\ stack'[n + 1].todo = to
    <3>1. f.kind = kind /\ f.todo = to
      BY DEF Frame
    <3> HIDE DEF f
    <3> QED BY <2>1, <3>1, PushType
  <2> HIDE DEF n
  <2>3. DOMAIN stack' = DOMAIN stack \cup {n + 1} /\ n + 1 \notin DOMAIN stack
    BY <2>2
  <2>4. Extracted' = IF kind \in Outcomes THEN Extracted \cup to ELSE Extracted
    <3>1. \A e \in Ids : e \in Extracted' <=>
            (e \in Extracted \/ (kind \in Outcomes /\ e \in to))
      BY <2>2, <2>3 DEF Extracted
    <3>2. Extracted' \subseteq Ids /\ Extracted \subseteq Ids
      BY DEF Extracted
    <3> QED BY <3>1, <3>2
  <2>5. StackInv'
    <3> SUFFICES ASSUME NEW i \in DOMAIN stack', NEW j \in DOMAIN stack', i # j,
                        stack'[i].kind \in Outcomes, stack'[j].kind \in Outcomes
                 PROVE  stack'[i].todo \cap stack'[j].todo = {}
      BY DEF StackInv
    <3>1. CASE i \in DOMAIN stack /\ j \in DOMAIN stack
      BY <2>2, <3>1 DEF StackInv
    <3>2. ASSUME NEW k \in DOMAIN stack, stack[k].kind \in Outcomes,
                 kind \in Outcomes
          PROVE  stack[k].todo \cap to = {}
      BY <3>2 DEF Extracted
    <3>3. CASE i \in DOMAIN stack /\ j = n + 1
      BY <2>2, <3>2, <3>3
    <3>4. CASE i = n + 1 /\ j \in DOMAIN stack
      BY <2>2, <3>2, <3>4
    <3> QED BY <2>3, <3>1, <3>3, <3>4
  <2> QED BY <2>4, <2>5
<1> QED BY <1>1, <1>2

LEMMA PopExtracts ==
  ASSUME stack \in Seq(Frames), stack # <<>>, StackInv,
         stack' = Pop, Top.kind \notin Outcomes \/ Top.todo = {}
  PROVE  /\ StackInv'
         /\ Extracted' = Extracted
         /\ DOMAIN stack' \subseteq DOMAIN stack
         /\ \A i \in DOMAIN stack' : stack'[i] = stack[i]
<1> DEFINE n == Len(stack)
<1>1. /\ n \in Nat /\ n >= 1
      /\ DOMAIN stack = 1 .. n /\ DOMAIN stack' = 1 .. n - 1
      /\ \A i \in DOMAIN stack' : stack'[i] = stack[i]
  BY PopType
<1>2. stack[n].kind \notin Outcomes \/ stack[n].todo = {}
  BY DEF Top
<1> HIDE DEF n
<1>3. DOMAIN stack = DOMAIN stack' \cup {n}
  BY <1>1
<1>4. StackInv'
  BY <1>1, <1>3 DEF StackInv
<1>5. \A e \in Ids : e \in Extracted' <=> e \in Extracted
  BY <1>1, <1>2, <1>3 DEF Extracted
<1>6. Extracted' = Extracted
  <2>1. Extracted' \subseteq Ids /\ Extracted \subseteq Ids
    BY DEF Extracted
  <2> QED BY <1>5, <2>1
<1> QED BY <1>1, <1>3, <1>4, <1>6

(* The innermost handler f after a step: its todo is what is left.         *)
LEMMA TopExtracts ==
  ASSUME stack \in Seq(Frames), stack # <<>>, StackInv,
         NEW f \in Frames, stack' = [stack EXCEPT ![Len(stack)] = f],
         f.kind = Top.kind, f.todo \subseteq Top.todo
  PROVE  /\ StackInv'
         /\ Extracted' = IF Top.kind \in Outcomes
                         THEN Extracted \ (Top.todo \ f.todo) ELSE Extracted
<1> DEFINE n == Len(stack)
<1>1. /\ n \in DOMAIN stack
      /\ DOMAIN stack' = DOMAIN stack
      /\ stack'[n] = f
      /\ \A i \in DOMAIN stack : i # n => stack'[i] = stack[i]
  BY TopType
<1>2. stack[n].kind = f.kind /\ f.todo \subseteq stack[n].todo
  BY DEF Top
<1> HIDE DEF n
<1>3. StackInv'
  <2> SUFFICES ASSUME NEW i \in DOMAIN stack, NEW j \in DOMAIN stack, i # j,
                      stack'[i].kind \in Outcomes, stack'[j].kind \in Outcomes
               PROVE  stack'[i].todo \cap stack'[j].todo = {}
    BY <1>1 DEF StackInv
  <2>1. \A k \in DOMAIN stack : /\ stack'[k].kind = stack[k].kind
                                /\ stack'[k].todo \subseteq stack[k].todo
    BY <1>1, <1>2
  <2>2. stack[i].todo \cap stack[j].todo = {}
    BY <2>1 DEF StackInv
  <2> QED BY <2>1, <2>2
<1>4. ASSUME NEW e \in Ids
      PROVE  e \in Extracted' <=>
               (e \in Extracted /\ ~(f.kind \in Outcomes /\ e \in stack[n].todo \ f.todo))
  <2>1. ASSUME e \in Extracted', f.kind \in Outcomes, e \in stack[n].todo \ f.todo
        PROVE  FALSE
    <3>1. PICK i \in DOMAIN stack : stack'[i].kind \in Outcomes /\ e \in stack'[i].todo
      BY <2>1, <1>1 DEF Extracted
    <3>2. i # n
      BY <3>1, <2>1, <1>1
    <3> QED BY <3>1, <3>2, <2>1, <1>1, <1>2 DEF StackInv
  <2>2. e \in Extracted' => e \in Extracted
    BY <1>1, <1>2 DEF Extracted
  <2>3. ASSUME e \in Extracted, ~(f.kind \in Outcomes /\ e \in stack[n].todo \ f.todo)
        PROVE  e \in Extracted'
    <3>1. PICK i \in DOMAIN stack : stack[i].kind \in Outcomes /\ e \in stack[i].todo
      BY <2>3 DEF Extracted
    <3>2. stack'[i].kind \in Outcomes /\ e \in stack'[i].todo
      BY <3>1, <2>3, <1>1, <1>2
    <3> QED BY <3>2, <1>1 DEF Extracted
  <2> QED BY <2>1, <2>2, <2>3
<1>5. Extracted' = IF f.kind \in Outcomes
                   THEN Extracted \ (stack[n].todo \ f.todo) ELSE Extracted
  <2>1. Extracted' \subseteq Ids /\ Extracted \subseteq Ids
    BY DEF Extracted
  <2> QED BY <1>4, <2>1
<1> QED BY <1>2, <1>3, <1>5 DEF Top, n

(* The IDs in the handlers have been handed out.                           *)
LEMMA DispatchFresh ==
  ASSUME stack \in Seq(Frames),
         NEW kind \in Kinds, NEW to \in SUBSET Ids, NEW id \in 0 .. MaxEntryId,
         Dispatch(kind, to, id), NEW last \in Nat, id <= last,
         \A i \in DOMAIN stack : stack[i].id <= last
  PROVE  \A i \in DOMAIN stack' : stack'[i].id <= last
<1> DEFINE f == Frame(kind, to, id)
<1>1. f \in Frames /\ f.id = id
  BY FrameType DEF Frame
<1> HIDE DEF f
<1>2. stack' = stack \/ stack' = Push(f)
  BY DEF Dispatch, f
<1> QED BY <1>1, <1>2, PushType

-----------------------------------------------------------------------------
(* How adding an entry and extracting entries preserve the invariant.      *)

LEMMA FreshId ==
  ASSUME IInv, NEW id \in Ids, id = lastEntryId + 1
  PROVE  /\ id \notin table \cup isRemoved \cup removeRequests \cup silenced
                      \cup known \cup delayed \cup Extracted
         /\ \A k \in DOMAIN onConnectedCallbacks : onConnectedCallbacks[k] # id
<1>1. lastEntryId \in Nat /\ ~(id <= lastEntryId)
  BY PendingInterestAssumption DEF IInv, TypeOK, NodeTypeOK
<1>2. id \notin table \cup isRemoved \cup removeRequests \cup silenced
              \cup known \cup delayed
  BY <1>1 DEF IInv, FreshInv
<1>3. id \notin Extracted
  BY <1>2 DEF IInv, TableInv
<1> QED BY <1>1, <1>2, <1>3 DEF IInv, FreshInv

LEMMA FreshIsUnseen ==
  ASSUME IInv, NEW id \in Ids, id = lastEntryId + 1
  PROVE  Unseen(id)
<1>1. ASSUME NEW i \in DOMAIN stack PROVE stack[i].id # id
  <2>1. stack[i].id <= lastEntryId /\ lastEntryId \in Nat
    BY PendingInterestAssumption DEF IInv, TypeOK, NodeTypeOK, FreshInv
  <2> QED BY <2>1
<1> QED BY <1>1, FreshId DEF Unseen

LEMMA FreshGrows ==
  ASSUME TypeOK, FreshInv, NEW last \in Nat, lastEntryId <= last
  PROVE  /\ \A id \in table \cup isRemoved \cup removeRequests \cup silenced
                     \cup known \cup delayed : id <= last
         /\ \A k \in DOMAIN onConnectedCallbacks : onConnectedCallbacks[k] <= last
         /\ \A i \in DOMAIN stack : stack[i].id <= last
<1>1. lastEntryId \in Nat
  BY PendingInterestAssumption DEF TypeOK, NodeTypeOK
<1>2. ASSUME NEW m \in Nat, m <= lastEntryId PROVE m <= last
  BY <1>1, <1>2
<1>3. ASSUME NEW id \in table \cup isRemoved \cup removeRequests \cup silenced
                    \cup known \cup delayed
      PROVE  id <= last
  <2>1. id \in Nat
    BY DEF TypeOK, PitTypeOK, NodeTypeOK, Ids
  <2> QED BY <1>2, <2>1 DEF FreshInv
<1>4. ASSUME NEW k \in DOMAIN onConnectedCallbacks
      PROVE  onConnectedCallbacks[k] <= last
  <2>1. onConnectedCallbacks \in Seq(Ids)
    BY DEF TypeOK, NodeTypeOK
  <2>2. onConnectedCallbacks[k] \in Ids
    BY <2>1
  <2>3. onConnectedCallbacks[k] \in Nat
    BY <2>2 DEF Ids
  <2> QED BY <1>2, <2>3 DEF FreshInv
<1>5. ASSUME NEW i \in DOMAIN stack PROVE stack[i].id <= last
  <2>1. stack[i] \in Frames
    BY DEF TypeOK, NodeTypeOK
  <2>2. stack[i].id \in Nat
    BY <2>1, PendingInterestAssumption DEF Frames
  <2> QED BY <1>2, <2>2 DEF FreshInv
<1> QED BY <1>3, <1>4, <1>5

LEMMA HelperKeeps ==
  ASSUME IInv, NEW id \in Ids, NEW interest, NEW end, Helper(id, interest, end),
         id \notin table \cup isRemoved,
         id \in removeRequests <=> id \in silenced,
         end = "cancelled" => id \in removeRequests,
         interestOf'[id] = interest,
         \A other \in Ids \ {id} : interestOf'[other] = interestOf[other],
         Extracted' = Extracted
  PROVE  /\ TableInv' /\ RemovedStaysSilent' /\ PendingIsTimed'
         /\ isRemoved' = isRemoved /\ silenced' = silenced
         /\ table' \subseteq table \cup {id}
         /\ removeRequests' \subseteq removeRequests
         /\ removeRequests \ {id} \subseteq removeRequests'
         /\ delayed' \subseteq delayed \cup {id}
<1>1. /\ isRemoved' = isRemoved /\ silenced' = silenced /\ calls' = calls
      /\ table' = IF id \in removeRequests THEN table ELSE table \cup {id}
      /\ removeRequests' \subseteq removeRequests
      /\ removeRequests \ {id} \subseteq removeRequests'
  BY DEF Helper, Add, IsRemoveRequested
<1>2. delayed' = IF end # "cancelled" /\ (interest.onTimeout \/ interest.lifetime)
                 THEN delayed \cup {id} ELSE delayed
  BY DEF Helper
<1>3. TableInv'
  BY <1>1 DEF IInv, TableInv
<1>4. RemovedStaysSilent'
  BY <1>1 DEF IInv, RemovedStaysSilent
<1>5. PendingIsTimed'
  <2> SUFFICES ASSUME NEW e \in table', UsesTimer(e)' PROVE e \in delayed'
    BY DEF PendingIsTimed
  <2>1. CASE e = id
    <3>1. id \notin removeRequests
      BY <1>1, <2>1
    <3> QED BY <1>2, <2>1, <3>1 DEF UsesTimer
  <2>2. CASE e # id
    <3>1. e \in table /\ e \in Ids
      BY <1>1, <2>2 DEF IInv, TypeOK, PitTypeOK
    <3>2. UsesTimer(e)
      BY <2>2, <3>1 DEF UsesTimer
    <3> QED BY <1>2, <3>1, <3>2 DEF IInv, PendingIsTimed
  <2> QED BY <2>1, <2>2
<1> QED BY <1>1, <1>2, <1>3, <1>4, <1>5

LEMMA ExtractKeeps ==
  ASSUME IInv, NEW ids \in SUBSET table, NEW gone \in SUBSET Ids, Extract(ids),
         delayed' = delayed \ gone, gone \cap table \subseteq ids,
         Extracted' = Extracted \cup ids \/ Extracted' = Extracted,
         UNCHANGED <<calls, silenced, onConnectedCallbacks, flushed, lastEntryId,
                     known>>
  PROVE  /\ TableInv' /\ RemovedStaysSilent' /\ PendingIsTimed' /\ QueueInv'
         /\ (\A i \in DOMAIN stack' : stack'[i].id <= lastEntryId) => FreshInv'
<1>1. /\ table' = table \ ids /\ isRemoved' = isRemoved \cup ids
      /\ UNCHANGED <<removeRequests, interestOf>>
  BY DEF Extract
<1>2. ids \subseteq Ids
  BY DEF IInv, TypeOK, PitTypeOK
<1>3. TableInv'
  BY <1>1, <1>2 DEF IInv, TableInv
<1>4. RemovedStaysSilent'
  BY <1>1 DEF IInv, RemovedStaysSilent
<1>5. PendingIsTimed'
  BY <1>1 DEF IInv, PendingIsTimed, UsesTimer
<1>6. QueueInv'
  BY <1>1 DEF IInv, QueueInv
<1>7. (\A i \in DOMAIN stack' : stack'[i].id <= lastEntryId) => FreshInv'
  BY <1>1 DEF IInv, FreshInv
<1> QED BY <1>3, <1>4, <1>5, <1>6, <1>7

-----------------------------------------------------------------------------
(* Each action preserves the invariant.                                    *)

LEMMA LoopbackKinds ==
  /\ {"loopback", "connectLoopback", "onInterest"} \subseteq Kinds
  /\ "loopback" \notin Outcomes /\ "connectLoopback" \notin Outcomes
  /\ "onInterest" \notin Outcomes /\ "onConnected" \notin Outcomes
  /\ {"onData", "onNetworkNack", "onTimeout"} \subseteq Kinds
  /\ Outcomes = {"onData", "onNetworkNack", "onTimeout"}
BY DEF Kinds, Dispatches, Outcomes

(* expressInterest when it runs the helper at once.                        *)
LEMMA ExpressNowKeeps ==
  ASSUME IInv, NEW id \in Ids, NEW interest \in Interests, NEW end, NEW kind,
         Unseen(id), CounterGrows, id <= lastEntryId',
         interestOf' = [interestOf EXCEPT ![id] = interest],
         kind \in {"loopback", "connectLoopback"},
         end = "cancelled" => id \in removeRequests,
         Helper(id, interest, end),
         Dispatch(kind, LoopbackTo(interest, end), id),
         Returns(id, interest, end),
         UNCHANGED <<onConnectedCallbacks, flushed>>
  PROVE  /\ StackInv' /\ TableInv' /\ QueueInv' /\ FreshInv'
         /\ RemovedStaysSilent' /\ PendingIsTimed'
<1> USE DEF IInv
<1>1. /\ lastEntryId' \in Nat /\ lastEntryId <= lastEntryId'
      /\ kind \in Kinds /\ kind \notin Outcomes
      /\ LoopbackTo(interest, end) \in SUBSET Ids /\ id \in 0 .. MaxEntryId
      /\ stack \in Seq(Frames)
  BY LoopbackKinds, MatchTypes, IdsInRange, PendingInterestAssumption
  DEF TypeOK, NodeTypeOK, CounterGrows
<1>2. StackInv' /\ Extracted' = Extracted
  BY <1>1, DispatchExtracts
<1>3. /\ interestOf'[id] = interest
      /\ \A other \in Ids \ {id} : interestOf'[other] = interestOf[other]
  BY DEF TypeOK, PitTypeOK
<1>4. /\ TableInv' /\ RemovedStaysSilent' /\ PendingIsTimed'
      /\ isRemoved' = isRemoved /\ silenced' = silenced
      /\ table' \subseteq table \cup {id}
      /\ removeRequests' \subseteq removeRequests
      /\ removeRequests \ {id} \subseteq removeRequests'
      /\ delayed' \subseteq delayed \cup {id}
  BY <1>2, <1>3, HelperKeeps DEF Unseen
<1>5. QueueInv'
  BY <1>4 DEF QueueInv, Unseen
<1>6. FreshInv'
  <2>1. known' \subseteq known \cup {id}
    BY DEF Returns
  <2>2. /\ \A e \in table \cup isRemoved \cup removeRequests \cup silenced
                   \cup known \cup delayed : e <= lastEntryId'
        /\ \A k \in DOMAIN onConnectedCallbacks : onConnectedCallbacks[k] <= lastEntryId'
        /\ \A i \in DOMAIN stack : stack[i].id <= lastEntryId'
    BY <1>1, FreshGrows
  <2>3. \A i \in DOMAIN stack' : stack'[i].id <= lastEntryId'
    BY <1>1, <2>2, DispatchFresh
  <2> QED BY <1>4, <2>1, <2>2, <2>3 DEF FreshInv
<1> QED BY <1>2, <1>4, <1>5, <1>6

(* The part of expressInterest that every caller runs, also when the ID    *)
(* was taken long before.                                                  *)
LEMMA NodeExpressKeeps ==
  ASSUME IInv, NEW id \in Ids, NEW interest \in Interests,
         Unseen(id), CounterGrows, id <= lastEntryId', NodeExpressInterest(id, interest)
  PROVE  IInv'
<1>1. TypeOK'
  BY NodeExpressTypeOK DEF IInv, CounterGrows
<1>3. interestOf' = [interestOf EXCEPT ![id] = interest]
  BY DEF NodeExpressInterest
<1>4. ASSUME NEW open, NEW end \in HelperEnds(id, interest, open)
      PROVE  end = "cancelled" => id \in removeRequests
  BY DEF HelperEnds, IsRemoveRequested
<1>5. CASE ExpressConnected(id, interest)
  <2>1. PICK end \in HelperEnds(id, interest, transport = "open") :
          /\ Helper(id, interest, end)
          /\ Dispatch("loopback", LoopbackTo(interest, end), id)
          /\ Returns(id, interest, end)
    BY <1>5 DEF ExpressConnected
  <2>2. UNCHANGED <<onConnectedCallbacks, flushed>>
    BY <1>5 DEF ExpressConnected
  <2> QED BY <1>1, <1>3, <1>4, <2>1, <2>2, ExpressNowKeeps DEF IInv
<1>6. CASE ExpressConnecting(id, interest)
  <2>1. PICK end \in HelperEnds(id, interest, TRUE) :
          /\ Helper(id, interest, end)
          /\ Dispatch("connectLoopback", LoopbackTo(interest, end), id)
          /\ Returns(id, interest, end)
    BY <1>6 DEF ExpressConnecting
  <2>2. UNCHANGED <<onConnectedCallbacks, flushed>>
    BY <1>6 DEF ExpressConnecting
  <2> QED BY <1>1, <1>3, <1>4, <2>1, <2>2, ExpressNowKeeps DEF IInv
<1>7. CASE ExpressConnectFails \/ ExpressQueued(id)
  <2>1. /\ UNCHANGED <<table, isRemoved, removeRequests, flushed, delayed, stack,
                        calls, silenced>>
        /\ known' \subseteq known \cup {id}
        /\ \/ onConnectedCallbacks' = onConnectedCallbacks
           \/ onConnectedCallbacks' = Append(onConnectedCallbacks, id)
    BY <1>7 DEF ExpressConnectFails, ExpressQueued
  <2>2. Extracted' = Extracted
    BY <2>1 DEF Extracted
  <2>3. StackInv' /\ TableInv' /\ RemovedStaysSilent'
    BY <2>1, <2>2 DEF IInv, StackInv, TableInv, RemovedStaysSilent
  <2>4. PendingIsTimed'
    <3>1. \A e \in table : e \in Ids /\ interestOf'[e] = interestOf[e]
      BY <1>3 DEF IInv, TypeOK, PitTypeOK, Unseen
    <3> QED BY <2>1, <3>1 DEF IInv, PendingIsTimed, UsesTimer
  <2>5. QueueInv'
    <3>1. CASE onConnectedCallbacks' = onConnectedCallbacks
      BY <2>1, <3>1 DEF IInv, QueueInv
    <3>2. CASE onConnectedCallbacks' = Append(onConnectedCallbacks, id)
      <4> DEFINE n == Len(onConnectedCallbacks)
      <4>1. /\ n \in Nat /\ flushed \in Nat
            /\ DOMAIN onConnectedCallbacks = 1 .. n
            /\ DOMAIN onConnectedCallbacks' = 1 .. n + 1
            /\ \A k \in 1 .. n : onConnectedCallbacks'[k] = onConnectedCallbacks[k]
            /\ onConnectedCallbacks'[n + 1] = id
            /\ Len(onConnectedCallbacks') = n + 1
            /\ flushed \in 0 .. n
        BY <3>2 DEF IInv, TypeOK, NodeTypeOK, QueueInv
      <4> HIDE DEF n
      <4>2. \A k \in 1 .. n : onConnectedCallbacks[k] # id
        BY <4>1 DEF Unseen
      <4>3. id \notin table \cup isRemoved /\ (id \in removeRequests <=> id \in silenced)
        BY DEF Unseen
      <4>4. \A k \in 1 .. n + 1 : k = n + 1 \/ k \in 1 .. n
        BY <4>1
      <4>5. flushed' \in 0 .. Len(onConnectedCallbacks')
        BY <2>1, <4>1
      <4>6. \A k, l \in DOMAIN onConnectedCallbacks' :
              k # l => onConnectedCallbacks'[k] # onConnectedCallbacks'[l]
        BY <4>1, <4>2, <4>4 DEF IInv, QueueInv
      <4>7. ASSUME NEW k \in DOMAIN onConnectedCallbacks', k > flushed'
            PROVE  /\ onConnectedCallbacks'[k] \notin table' \cup isRemoved'
                   /\ onConnectedCallbacks'[k] \in removeRequests'
                        <=> onConnectedCallbacks'[k] \in silenced'
        <5>1. CASE k = n + 1
          BY <2>1, <4>1, <4>3, <5>1
        <5>2. CASE k \in 1 .. n
          BY <2>1, <4>1, <4>7, <5>2 DEF IInv, QueueInv
        <5> QED BY <4>1, <4>4, <5>1, <5>2
      <4> QED BY <4>5, <4>6, <4>7 DEF QueueInv
    <3> QED BY <2>1, <3>1, <3>2
  <2>6. FreshInv'
    <3>1. lastEntryId' \in Nat /\ lastEntryId <= lastEntryId'
      BY PendingInterestAssumption DEF CounterGrows
    <3>2. /\ \A e \in table \cup isRemoved \cup removeRequests \cup silenced
                     \cup known \cup delayed : e <= lastEntryId'
          /\ \A k \in DOMAIN onConnectedCallbacks : onConnectedCallbacks[k] <= lastEntryId'
          /\ \A i \in DOMAIN stack : stack[i].id <= lastEntryId'
      BY <3>1, FreshGrows DEF IInv
    <3>3. \A k \in DOMAIN onConnectedCallbacks' : onConnectedCallbacks'[k] <= lastEntryId'
      <4>1. onConnectedCallbacks \in Seq(Ids)
        BY DEF IInv, TypeOK, NodeTypeOK
      <4> QED BY <2>1, <3>2, <4>1
    <3> QED BY <2>1, <3>2, <3>3 DEF FreshInv
  <2> QED BY <1>1, <2>3, <2>4, <2>5, <2>6 DEF IInv
<1> QED BY <1>5, <1>6, <1>7 DEF NodeExpressInterest

LEMMA ExpressKeeps ==
  ASSUME IInv, NEW interest \in Interests, ExpressInterest(interest)
  PROVE  IInv'
<1>1. PICK id \in Ids : GetNextEntryId(id) /\ NodeExpressInterest(id, interest)
  BY DEF ExpressInterest
<1>2. Unseen(id) /\ CounterGrows /\ id <= lastEntryId'
  BY <1>1, FreshIsUnseen, TakenIdGrows DEF GetNextEntryId, IInv
<1> QED BY <1>1, <1>2, NodeExpressKeeps

(* onConnected makes the call that waits at flushed + 1.                   *)
LEMMA FlushHelperKeeps ==
  ASSUME IInv, flushed < Len(onConnectedCallbacks), flushed' = flushed + 1,
         NEW end, end = "cancelled" => NextQueued \in removeRequests,
         Helper(NextQueued, interestOf[NextQueued], end),
         Extracted' = Extracted,
         UNCHANGED <<interestOf, lastEntryId, onConnectedCallbacks, known>>
  PROVE  /\ TableInv' /\ QueueInv' /\ RemovedStaysSilent' /\ PendingIsTimed'
         /\ (\A i \in DOMAIN stack' : stack'[i].id <= lastEntryId) => FreshInv'
<1> DEFINE id == NextQueued
<1>1. /\ onConnectedCallbacks \in Seq(Ids) /\ flushed \in Nat
      /\ flushed + 1 \in DOMAIN onConnectedCallbacks
      /\ id = onConnectedCallbacks[flushed + 1]
  BY DEF IInv, TypeOK, NodeTypeOK, NextQueued
<1>2. id \in Ids /\ flushed + 1 > flushed
  BY <1>1
<1>3. /\ id \notin table \cup isRemoved
      /\ id \in removeRequests <=> id \in silenced
  BY <1>1, <1>2 DEF IInv, QueueInv
<1> HIDE DEF id
<1>4. /\ TableInv' /\ RemovedStaysSilent' /\ PendingIsTimed'
      /\ isRemoved' = isRemoved /\ silenced' = silenced
      /\ table' \subseteq table \cup {id}
      /\ removeRequests' \subseteq removeRequests
      /\ removeRequests \ {id} \subseteq removeRequests'
      /\ delayed' \subseteq delayed \cup {id}
  BY <1>2, <1>3, HelperKeeps DEF id
<1>5. QueueInv'
  <2>1. flushed' \in 0 .. Len(onConnectedCallbacks')
    BY <1>1
  <2>2. ASSUME NEW k \in DOMAIN onConnectedCallbacks, k > flushed'
        PROVE  /\ onConnectedCallbacks[k] \notin table' \cup isRemoved'
               /\ onConnectedCallbacks[k] \in removeRequests'
                    <=> onConnectedCallbacks[k] \in silenced'
    <3>1. k # flushed + 1 /\ k > flushed
      BY <1>1, <2>2
    <3>2. onConnectedCallbacks[k] # id
      BY <1>1, <3>1 DEF IInv, QueueInv
    <3>3. /\ onConnectedCallbacks[k] \notin table \cup isRemoved
          /\ onConnectedCallbacks[k] \in removeRequests
               <=> onConnectedCallbacks[k] \in silenced
      BY <3>1 DEF IInv, QueueInv
    <3> QED BY <1>4, <3>2, <3>3
  <2> QED BY <2>1, <2>2 DEF IInv, QueueInv
<1>6. ASSUME \A i \in DOMAIN stack' : stack'[i].id <= lastEntryId
      PROVE  FreshInv'
  <2>1. id <= lastEntryId
    BY <1>1 DEF IInv, FreshInv
  <2>2. UNCHANGED <<lastEntryId, onConnectedCallbacks, known>>
    OBVIOUS
  <2> QED BY <1>4, <1>6, <2>1, <2>2 DEF IInv, FreshInv
<1> QED BY <1>4, <1>5, <1>6

LEMMA FlushKeeps ==
  ASSUME IInv, FlushOne \/ FlushThrows \/ FlushDone
  PROVE  IInv'
<1>1. TypeOK' /\ StackInv /\ stack \in Seq(Frames)
  BY FlushTypeOK DEF IInv, TypeOK, NodeTypeOK
<1>2. stack # <<>> /\ Top.kind \notin Outcomes
  BY LoopbackKinds DEF FlushOne, FlushThrows, FlushDone, InOnConnected
<1>3. \A i \in DOMAIN stack : stack[i].id <= lastEntryId
  BY DEF IInv, FreshInv
<1>4. ASSUME stack' = Pop
      PROVE  /\ StackInv' /\ Extracted' = Extracted
             /\ \A i \in DOMAIN stack' : stack'[i].id <= lastEntryId
  BY <1>1, <1>2, <1>3, <1>4, PopExtracts
<1>5. CASE FlushOne
  <2>1. /\ flushed < Len(onConnectedCallbacks) /\ flushed' = flushed + 1
        /\ UNCHANGED <<interestOf, lastEntryId, onConnectedCallbacks, known>>
    BY <1>5 DEF FlushOne
  <2>2. PICK end \in HelperEnds(NextQueued, interestOf[NextQueued],
                                transport = "open") :
          /\ Helper(NextQueued, interestOf[NextQueued], end)
          /\ Dispatch("loopback", LoopbackTo(interestOf[NextQueued], end),
                      NextQueued)
    BY <1>5 DEF FlushOne
  <2>3. end = "cancelled" => NextQueued \in removeRequests
    BY <2>2 DEF HelperEnds, IsRemoveRequested
  <2>4. NextQueued \in Ids /\ NextQueued <= lastEntryId
    <3>1. /\ onConnectedCallbacks \in Seq(Ids)
          /\ flushed + 1 \in DOMAIN onConnectedCallbacks
      BY <2>1 DEF IInv, TypeOK, NodeTypeOK
    <3>2. onConnectedCallbacks[flushed + 1] \in Ids
      BY <3>1
    <3>3. onConnectedCallbacks[flushed + 1] <= lastEntryId
      BY <3>1 DEF IInv, FreshInv
    <3> QED BY <3>2, <3>3 DEF NextQueued
  <2>5. /\ LoopbackTo(interestOf[NextQueued], end) \in SUBSET Ids
        /\ NextQueued \in 0 .. MaxEntryId /\ lastEntryId \in Nat
        /\ "loopback" \in Kinds /\ "loopback" \notin Outcomes
    BY <2>4, MatchTypes, IdsInRange, LoopbackKinds, PendingInterestAssumption
    DEF IInv, TypeOK, NodeTypeOK
  <2>6. StackInv' /\ Extracted' = Extracted
    BY <1>1, <2>2, <2>5, DispatchExtracts
  <2>7. \A i \in DOMAIN stack' : stack'[i].id <= lastEntryId
    BY <1>1, <1>3, <2>2, <2>4, <2>5, DispatchFresh
  <2> QED BY <1>1, <2>1, <2>2, <2>3, <2>6, <2>7, FlushHelperKeeps DEF IInv
<1>6. CASE FlushThrows
  <2>1. /\ flushed < Len(onConnectedCallbacks) /\ flushed' = flushed + 1
        /\ UNCHANGED <<interestOf, lastEntryId, onConnectedCallbacks, known>>
        /\ Helper(NextQueued, interestOf[NextQueued], "threw")
        /\ stack' = Pop
    BY <1>6 DEF FlushThrows
  <2>2. TableInv' /\ QueueInv' /\ RemovedStaysSilent' /\ PendingIsTimed' /\ FreshInv'
    BY <1>4, <2>1, FlushHelperKeeps
  <2> QED BY <1>1, <1>4, <2>1, <2>2 DEF IInv
<1>7. CASE FlushDone
  <2>1. /\ onConnectedCallbacks' = <<>> /\ flushed' = 0 /\ stack' = Pop
        /\ UNCHANGED <<pitVars, lastEntryId, delayed, known, calls, silenced>>
    BY <1>7 DEF FlushDone
  <2>2. StackInv' /\ Extracted' = Extracted
    BY <1>4, <2>1
  <2>3. QueueInv'
    BY <2>1 DEF QueueInv
  <2>4. FreshInv'
    BY <1>4, <2>1 DEF IInv, FreshInv, pitVars
  <2>5. TableInv' /\ RemovedStaysSilent' /\ PendingIsTimed'
    BY <2>1, <2>2
    DEF IInv, TableInv, RemovedStaysSilent, PendingIsTimed, UsesTimer, pitVars
  <2> QED BY <1>1, <2>2, <2>3, <2>4, <2>5 DEF IInv
<1> QED BY <1>5, <1>6, <1>7

(* A Data, a Nack or a timeout extracts ids, and calls back `to` of them.  *)
LEMMA DeliverKeeps ==
  ASSUME IInv, NEW ids \in SUBSET table, NEW to, to = ids \/ to = {},
         NEW kind \in Outcomes, NEW gone \in SUBSET Ids,
         Extract(ids), Dispatch(kind, to, 0),
         delayed' = delayed \ gone, gone \cap table \subseteq ids,
         UNCHANGED <<calls, silenced, onConnectedCallbacks, flushed, lastEntryId,
                     known>>
  PROVE  /\ StackInv' /\ TableInv' /\ QueueInv' /\ FreshInv'
         /\ RemovedStaysSilent' /\ PendingIsTimed'
<1>1. /\ stack \in Seq(Frames) /\ StackInv /\ to \in SUBSET Ids
      /\ kind \in Kinds /\ 0 \in 0 .. MaxEntryId
      /\ lastEntryId \in Nat /\ 0 <= lastEntryId
  BY PendingInterestAssumption DEF IInv, TypeOK, PitTypeOK, NodeTypeOK, Kinds
<1>2. to \cap Extracted = {}
  BY DEF IInv, TableInv
<1>3. StackInv' /\ Extracted' = Extracted \cup to
  BY <1>1, <1>2, DispatchExtracts
<1>4. \A i \in DOMAIN stack' : stack'[i].id <= lastEntryId
  <2>1. \A i \in DOMAIN stack : stack[i].id <= lastEntryId
    BY DEF IInv, FreshInv
  <2> QED BY <1>1, <2>1, DispatchFresh
<1>5. Extracted' = Extracted \cup ids \/ Extracted' = Extracted
  BY <1>3
<1>6. /\ TableInv' /\ RemovedStaysSilent' /\ PendingIsTimed' /\ QueueInv'
      /\ (\A i \in DOMAIN stack' : stack'[i].id <= lastEntryId) => FreshInv'
  BY <1>5, ExtractKeeps
<1> QED BY <1>3, <1>4, <1>6

LEMMA ReceiveKeeps ==
  ASSUME IInv,
         \/ \E d \in Packets : ReceiveData(d) \/ PutData(d)
         \/ \E wire \in Wires : ReceiveNack(wire)
         \/ \E interest \in Interests : ReceiveInterest(interest)
         \/ \E id \in Ids : ProcessInterestTimeout(id)
  PROVE  IInv'
<1>1. TypeOK'
  BY DeliverTypeOK DEF IInv
<1>2. CASE \E d \in Packets : ReceiveData(d) \/ PutData(d)
  <2>1. PICK d \in Packets : Satisfy(d)
    BY <1>2 DEF ReceiveData, PutData
  <2>2. /\ MatchesData(d) \in SUBSET table /\ "onData" \in Outcomes
        /\ {} \in SUBSET Ids /\ delayed' = delayed \ {}
        /\ {} \cap table \subseteq MatchesData(d)
        /\ Extract(MatchesData(d)) /\ Dispatch("onData", MatchesData(d), 0)
        /\ UNCHANGED <<calls, silenced, onConnectedCallbacks, flushed,
                       lastEntryId, known>>
    BY <2>1 DEF Satisfy, frameOnly, MatchesData, Outcomes
  <2> QED BY <1>1, <2>2, DeliverKeeps DEF IInv
<1>3. CASE \E wire \in Wires : ReceiveNack(wire)
  <2>1. PICK wire \in Wires : ReceiveNack(wire)
    BY <1>3
  <2>2. /\ MatchesNack(wire) \in SUBSET table /\ "onNetworkNack" \in Outcomes
        /\ {} \in SUBSET Ids /\ delayed' = delayed \ {}
        /\ {} \cap table \subseteq MatchesNack(wire)
        /\ Extract(MatchesNack(wire))
        /\ Dispatch("onNetworkNack", MatchesNack(wire), 0)
        /\ UNCHANGED <<calls, silenced, onConnectedCallbacks, flushed,
                       lastEntryId, known>>
    BY <2>1 DEF ReceiveNack, frameOnly, MatchesNack, Outcomes
  <2> QED BY <1>1, <2>2, DeliverKeeps DEF IInv
<1>4. CASE \E interest \in Interests : ReceiveInterest(interest)
  <2>1. PICK interest \in Interests : ReceiveInterest(interest)
    BY <1>4
  <2>2. /\ Dispatch("onInterest", Matched(interest), 0)
        /\ UNCHANGED pitVars /\ UNCHANGED frameOnly
    BY <2>1 DEF ReceiveInterest
  <2>3. /\ stack \in Seq(Frames) /\ StackInv /\ Matched(interest) \in SUBSET Ids
        /\ "onInterest" \in Kinds /\ "onInterest" \notin Outcomes
        /\ 0 \in 0 .. MaxEntryId /\ lastEntryId \in Nat /\ 0 <= lastEntryId
    BY MatchTypes, LoopbackKinds, PendingInterestAssumption
    DEF IInv, TypeOK, NodeTypeOK
  <2>4. StackInv' /\ Extracted' = Extracted
    BY <2>2, <2>3, DispatchExtracts
  <2>5. \A i \in DOMAIN stack' : stack'[i].id <= lastEntryId
    <3>1. \A i \in DOMAIN stack : stack[i].id <= lastEntryId
      BY DEF IInv, FreshInv
    <3> QED BY <2>2, <2>3, <3>1, DispatchFresh
  <2> QED BY <1>1, <2>2, <2>4, <2>5
      DEF IInv, TableInv, QueueInv, FreshInv, RemovedStaysSilent, PendingIsTimed,
          UsesTimer, pitVars, frameOnly
<1>5. CASE \E id \in Ids : ProcessInterestTimeout(id)
  <2>1. PICK id \in Ids : ProcessInterestTimeout(id)
    BY <1>5
  <2> DEFINE ids == IF RemovesEntry(id) THEN {id} ELSE {}
             to == IF RemovesEntry(id) /\ interestOf[id].onTimeout THEN {id} ELSE {}
  <2>2. /\ ids \in SUBSET table /\ (to = ids \/ to = {})
        /\ {id} \in SUBSET Ids /\ {id} \cap table \subseteq ids
    BY DEF RemovesEntry, IInv, TableInv
  <2>3. /\ Extract(ids) /\ Dispatch("onTimeout", to, 0)
        /\ delayed' = delayed \ {id} /\ "onTimeout" \in Outcomes
        /\ UNCHANGED <<calls, silenced, onConnectedCallbacks, flushed,
                       lastEntryId, known>>
    BY <2>1 DEF ProcessInterestTimeout, Outcomes
  <2> HIDE DEF ids, to
  <2> QED BY <1>1, <2>2, <2>3, DeliverKeeps DEF IInv
<1> QED BY <1>2, <1>3, <1>4, <1>5

LEMMA CallKeeps ==
  ASSUME IInv, NEW id \in Ids, Call(id)
  PROVE  IInv'
<1> DEFINE f == [Top EXCEPT !.todo = Top.todo \ {id}, !.busy = TRUE]
<1>1. /\ TypeOK' /\ stack \in Seq(Frames) /\ StackInv /\ stack # <<>>
      /\ Len(stack) \in DOMAIN stack /\ Top \in Frames /\ id \in Top.todo
  BY CallTypeOK, TopType DEF IInv, TypeOK, NodeTypeOK, Call
<1>2. /\ stack' = [stack EXCEPT ![Len(stack)] = f]
      /\ UNCHANGED <<pitVars, lastEntryId, onConnectedCallbacks, flushed, delayed,
                     known, silenced>>
  BY DEF Call
<1>3. /\ f \in Frames /\ f.kind = Top.kind /\ f.id = Top.id
      /\ f.todo = Top.todo \ {id}
  BY <1>1 DEF Frames
<1> HIDE DEF f
<1>4. StackInv' /\ Extracted' = IF Top.kind \in Outcomes THEN Extracted \ {id}
                                ELSE Extracted
  <2>1. Top.todo \ f.todo = {id}
    BY <1>1, <1>3
  <2> QED BY <1>1, <1>2, <1>3, <2>1, TopExtracts
<1>5. Top.kind \in Outcomes => id \in Extracted
  BY <1>1 DEF Extracted, Top
<1>6. calls' = IF Top.kind \in Outcomes
               THEN [calls EXCEPT ![id] = Append(calls[id], Top.kind)] ELSE calls
  BY DEF Call
<1>7. TableInv'
  <2>1. CASE Top.kind \in Outcomes
    <3>1. /\ calls[id] = <<>> /\ id \in isRemoved /\ id \notin table
          /\ Extracted' = Extracted \ {id}
      BY <1>4, <1>5, <2>1 DEF IInv, TableInv
    <3>2. /\ calls'[id] = <<Top.kind>>
          /\ \A e \in Ids \ {id} : calls'[e] = calls[e]
      BY <1>6, <2>1, <3>1 DEF IInv, TypeOK, NodeTypeOK
    <3>3. Len(calls'[id]) = 1
      BY <3>2
    <3>4. table \subseteq Ids /\ Extracted \subseteq Ids
      BY DEF Extracted, IInv, TypeOK, PitTypeOK
    <3> QED BY <1>2, <3>1, <3>2, <3>3, <3>4 DEF IInv, TableInv, pitVars
  <2>2. CASE Top.kind \notin Outcomes
    BY <1>2, <1>4, <1>6, <2>2 DEF IInv, TableInv, pitVars
  <2> QED BY <2>1, <2>2
<1>8. RemovedStaysSilent'
  <2>1. Top.kind \in Outcomes => id \notin silenced
    BY <1>5 DEF IInv, RemovedStaysSilent
  <2>2. \A e \in silenced : e \in Ids /\ calls'[e] = calls[e]
    BY <1>6, <2>1 DEF IInv, TypeOK, NodeTypeOK
  <2> QED BY <1>2, <1>4, <2>2 DEF IInv, RemovedStaysSilent, pitVars
<1>9. FreshInv'
  <2>1. \A i \in DOMAIN stack' : i \in DOMAIN stack /\ stack'[i].id = stack[i].id
    BY <1>1, <1>2, <1>3 DEF Top
  <2> QED BY <1>2, <2>1 DEF IInv, FreshInv, pitVars
<1> QED BY <1>1, <1>2, <1>4, <1>7, <1>8, <1>9
    DEF IInv, QueueInv, PendingIsTimed, UsesTimer, pitVars

LEMMA ReturnKeeps ==
  ASSUME IInv, CallbackReturns
  PROVE  IInv'
<1>1. /\ TypeOK' /\ stack \in Seq(Frames) /\ StackInv /\ stack # <<>>
      /\ Len(stack) \in DOMAIN stack /\ Top \in Frames
  BY ReturnTypeOK, TopType DEF IInv, TypeOK, NodeTypeOK, CallbackReturns
<1>2. UNCHANGED <<pitVars, lastEntryId, onConnectedCallbacks, flushed, delayed,
                  calls, silenced>>
  BY DEF CallbackReturns
<1>3. /\ StackInv' /\ Extracted' = Extracted
      /\ \A i \in DOMAIN stack' : stack'[i].id <= lastEntryId
  <2>1. CASE Top.todo # {}
    <3> DEFINE f == [Top EXCEPT !.busy = FALSE]
    <3>1. stack' = [stack EXCEPT ![Len(stack)] = f]
      BY <2>1 DEF CallbackReturns, Top
    <3>2. /\ f \in Frames /\ f.kind = Top.kind /\ f.id = Top.id
          /\ f.todo = Top.todo
      BY <1>1 DEF Frames
    <3> HIDE DEF f
    <3>3. StackInv' /\ Extracted' = Extracted
      BY <1>1, <3>1, <3>2, TopExtracts
    <3>4. \A i \in DOMAIN stack' : i \in DOMAIN stack /\ stack'[i].id = stack[i].id
      BY <1>1, <3>1, <3>2 DEF Top
    <3> QED BY <3>3, <3>4 DEF IInv, FreshInv
  <2>2. CASE Top.todo = {}
    <3>1. stack' = Pop
      BY <2>2 DEF CallbackReturns
    <3> QED BY <1>1, <2>2, <3>1, PopExtracts DEF IInv, FreshInv
  <2> QED BY <2>1, <2>2
<1>4. known' \subseteq known \cup {Top.id}
  BY DEF CallbackReturns, ReturnedId
<1>5. Top.id <= lastEntryId
  BY <1>1 DEF IInv, FreshInv, Top
<1>6. FreshInv'
  BY <1>2, <1>3, <1>4, <1>5 DEF IInv, FreshInv, pitVars
<1>7. TableInv' /\ QueueInv' /\ RemovedStaysSilent' /\ PendingIsTimed'
  BY <1>2, <1>3
  DEF IInv, TableInv, QueueInv, RemovedStaysSilent, PendingIsTimed, UsesTimer,
      pitVars
<1> QED BY <1>1, <1>3, <1>6, <1>7 DEF IInv

(* removePendingInterest silences an entry in the table, or one that waits *)
(* for the connection, for good.                                           *)
LEMMA RemoveKeeps ==
  ASSUME IInv, NEW id \in Ids, RemovePendingInterest(id)
  PROVE  IInv'
<1>1. TypeOK'
  BY OtherTypeOK DEF IInv
<1>2. /\ id \in known /\ id <= lastEntryId
      /\ UNCHANGED <<older, interestOf, lastEntryId, onConnectedCallbacks, flushed,
                     delayed, stack, known, calls>>
      /\ silenced' = IF id \in Extracted \/ calls[id] # <<>> THEN silenced
                     ELSE silenced \cup {id}
  BY DEF RemovePendingInterest, PitRemove, IInv, FreshInv
<1>3. StackInv' /\ Extracted' = Extracted
  BY <1>2 DEF IInv, StackInv, Extracted
<1>4. CASE id \in table
  <2>1. /\ table' = table \ {id} /\ isRemoved' = isRemoved \cup {id}
        /\ removeRequests' = removeRequests
    BY <1>4 DEF RemovePendingInterest, PitRemove
  <2>2. /\ calls[id] = <<>> /\ id \notin Extracted
        /\ silenced' = silenced \cup {id}
    BY <1>2, <1>4 DEF IInv, TableInv
  <2>3. TableInv' /\ RemovedStaysSilent' /\ PendingIsTimed'
    BY <1>2, <1>3, <2>1, <2>2
    DEF IInv, TableInv, RemovedStaysSilent, PendingIsTimed, UsesTimer
  <2>4. QueueInv'
    <3>1. \A k \in DOMAIN onConnectedCallbacks :
            k > flushed => onConnectedCallbacks[k] # id
      BY <1>4 DEF IInv, QueueInv
    <3> QED BY <1>2, <2>1, <2>2, <3>1 DEF IInv, QueueInv
  <2>5. FreshInv'
    BY <1>2, <2>1, <2>2 DEF IInv, FreshInv
  <2> QED BY <1>1, <1>3, <2>3, <2>4, <2>5 DEF IInv
<1>5. CASE id \notin table
  <2>1. /\ UNCHANGED <<table, isRemoved>>
        /\ removeRequests' = removeRequests \cup {id}
    BY <1>5 DEF RemovePendingInterest, PitRemove
  <2>2. TableInv' /\ RemovedStaysSilent' /\ PendingIsTimed'
    BY <1>2, <1>3, <1>5, <2>1
    DEF IInv, TableInv, RemovedStaysSilent, PendingIsTimed, UsesTimer
  <2>3. QueueInv'
    <3>1. ASSUME NEW k \in DOMAIN onConnectedCallbacks, k > flushed,
                 onConnectedCallbacks[k] = id
          PROVE  id \in silenced'
      <4>1. id \notin isRemoved
        BY <3>1 DEF IInv, QueueInv
      <4>2. id \notin Extracted /\ calls[id] = <<>>
        BY <4>1 DEF IInv, TableInv
      <4> QED BY <1>2, <4>2
    <3>2. \A e \in Ids \ {id} : e \in silenced' <=> e \in silenced
      BY <1>2
    <3>3. \A k \in DOMAIN onConnectedCallbacks : onConnectedCallbacks[k] \in Ids
      BY DEF IInv, TypeOK, NodeTypeOK
    <3> QED BY <1>2, <2>1, <3>1, <3>2, <3>3 DEF IInv, QueueInv
  <2>4. FreshInv'
    BY <1>2, <2>1 DEF IInv, FreshInv
  <2> QED BY <1>1, <1>3, <2>2, <2>3, <2>4 DEF IInv
<1> QED BY <1>4, <1>5

LEMMA OtherKeeps ==
  ASSUME IInv,
         \/ Connected \/ ConnectFails \/ Shutdown
         \/ \E id \in Ids : UnsetInterestFilter(id)
         \/ SetsFilter /\ CounterGrows
  PROVE  IInv'
<1>1. TypeOK'
  BY OtherTypeOK DEF IInv
<1>2. UNCHANGED <<table, isRemoved, removeRequests, interestOf, delayed, calls,
                  silenced, onConnectedCallbacks, flushed, known>>
  BY DEF Connected, ConnectFails, Shutdown, UnsetInterestFilter,
         SetsFilter, NodeSetInterestFilter, pitVars
<1>3. lastEntryId' \in Nat /\ lastEntryId <= lastEntryId'
  BY PendingInterestAssumption
  DEF IInv, TypeOK, NodeTypeOK, Connected, ConnectFails, Shutdown,
      UnsetInterestFilter, CounterGrows
<1>4. /\ \A id \in table \cup isRemoved \cup removeRequests \cup silenced
                   \cup known \cup delayed : id <= lastEntryId'
      /\ \A k \in DOMAIN onConnectedCallbacks :
           onConnectedCallbacks[k] <= lastEntryId'
      /\ \A i \in DOMAIN stack : stack[i].id <= lastEntryId'
  BY <1>3, FreshGrows DEF IInv
<1>5. /\ StackInv' /\ Extracted' = Extracted
      /\ \A i \in DOMAIN stack' : stack'[i].id <= lastEntryId'
  <2>1. CASE Connected
    <3> DEFINE f == Frame("onConnected", {}, 0)
    <3>1. /\ "onConnected" \in Kinds /\ "onConnected" \notin Outcomes
          /\ {} \in SUBSET Ids /\ 0 \in 0 .. MaxEntryId
      BY PendingInterestAssumption, LoopbackKinds DEF Kinds
    <3>2. stack' = Push(f) /\ f \in Frames /\ stack \in Seq(Frames)
      BY <2>1, <3>1, FrameType DEF Connected, IInv, TypeOK, NodeTypeOK
    <3>3. f.kind = "onConnected" /\ f.id = 0
      BY DEF Frame
    <3> HIDE DEF f
    <3> DEFINE n == Len(stack)
    <3>4. /\ n \in Nat /\ DOMAIN stack = 1 .. n /\ DOMAIN stack' = 1 .. n + 1
          /\ \A i \in 1 .. n : stack'[i] = stack[i]
          /\ stack'[n + 1] = f
      BY <3>2, PushType
    <3> HIDE DEF n
    <3>5. DOMAIN stack' = DOMAIN stack \cup {n + 1}
      BY <3>4
    <3>6. StackInv'
      BY <3>1, <3>3, <3>4, <3>5 DEF IInv, StackInv
    <3>7. \A e \in Ids : e \in Extracted' <=> e \in Extracted
      BY <3>1, <3>3, <3>4, <3>5 DEF Extracted
    <3>8. Extracted' = Extracted
      <4>1. Extracted' \subseteq Ids /\ Extracted \subseteq Ids
        BY DEF Extracted
      <4> QED BY <3>7, <4>1
    <3>9. 0 <= lastEntryId'
      BY <1>3
    <3> QED BY <1>4, <3>3, <3>4, <3>5, <3>6, <3>8, <3>9
  <2>2. CASE ~Connected
    <3>1. stack' = stack
      BY <2>2 DEF ConnectFails, Shutdown, UnsetInterestFilter, SetsFilter,
                  NodeSetInterestFilter
    <3> QED BY <1>4, <3>1 DEF IInv, StackInv, Extracted
  <2> QED BY <2>1, <2>2
<1>6. FreshInv'
  BY <1>2, <1>4, <1>5 DEF FreshInv
<1>7. TableInv' /\ QueueInv' /\ RemovedStaysSilent' /\ PendingIsTimed'
  BY <1>2, <1>5
  DEF IInv, TableInv, QueueInv, RemovedStaysSilent, PendingIsTimed, UsesTimer
<1> QED BY <1>1, <1>5, <1>6, <1>7 DEF IInv

-----------------------------------------------------------------------------
LEMMA InitIInv == Init => IInv
<1> SUFFICES ASSUME Init PROVE IInv
  OBVIOUS
<1>1. TypeOK
  BY InitTypeOK
<1>2. /\ table = {} /\ isRemoved = {} /\ removeRequests = {} /\ silenced = {}
      /\ known = {} /\ delayed = {} /\ stack = <<>> /\ flushed = 0
      /\ onConnectedCallbacks = <<>> /\ \A id \in Ids : calls[id] = <<>>
  BY DEF Init, PitInit
<1>3. Extracted = {}
  BY <1>2 DEF Extracted
<1>4. StackInv /\ TableInv /\ RemovedStaysSilent /\ PendingIsTimed
  BY <1>2, <1>3 DEF StackInv, TableInv, RemovedStaysSilent, PendingIsTimed
<1>5. QueueInv /\ FreshInv
  BY <1>2 DEF QueueInv, FreshInv
<1> QED BY <1>1, <1>4, <1>5 DEF IInv

LEMMA NextIInv == IInv /\ [Next]_vars => IInv'
<1> SUFFICES ASSUME IInv, [Next]_vars PROVE IInv'
  OBVIOUS
<1>1. CASE LibraryStep
  BY <1>1, FlushKeeps, ReceiveKeeps, CallKeeps, ReturnKeeps, OtherKeeps
  DEF LibraryStep
<1>2. CASE AppCall
  BY <1>2, ExpressKeeps, ReceiveKeeps, RemoveKeeps, OtherKeeps, SetFilterTakesId
  DEF AppCall, IInv
<1>3. CASE UNCHANGED vars
  BY <1>3
  DEF vars, pitVars, nodeVars, IInv, TypeOK, PitTypeOK, NodeTypeOK, StackInv,
      TableInv, QueueInv, FreshInv, RemovedStaysSilent, PendingIsTimed,
      UsesTimer, Extracted
<1> QED BY <1>1, <1>2, <1>3 DEF Next

(* IInv is an invariant of the Node.                                       *)
THEOREM Inductive == Spec => []IInv
BY InitIInv, NextIInv, PTL DEF Spec

(* An expressed Interest gets at most one callback: what                   *)
(* satisfyPendingInterests, the Nack branch of onReceivedElement and       *)
(* processInterestTimeout take out of the table, they take out before they *)
(* call back.                                                              *)
THEOREM AtMostOne == Spec => []AtMostOneCallback
<1>1. IInv => AtMostOneCallback
  <2> SUFFICES ASSUME IInv, NEW id \in Ids PROVE Len(calls[id]) <= 1
    BY DEF AtMostOneCallback
  <2>1. CASE calls[id] = <<>>
    BY <2>1
  <2>2. CASE calls[id] # <<>>
    <3>1. Len(calls[id]) = 1
      BY <2>2 DEF IInv, TableInv
    <3> QED BY <3>1
  <2> QED BY <2>1, <2>2
<1> QED BY <1>1, Inductive, PTL

(* An Interest that removePendingInterest found in the table, or waiting   *)
(* for the connection, gets no callback.                                   *)
THEOREM RemovedIsSilent == Spec => []RemovedStaysSilent
<1>1. IInv => RemovedStaysSilent
  BY DEF IInv
<1> QED BY <1>1, Inductive, PTL

(* expressInterestHelper arms the timeout of every entry it adds, also     *)
(* when sending throws, so no entry with a timeout is left behind.         *)
THEOREM EveryPendingIsTimed == Spec => []PendingIsTimed
<1>1. IInv => PendingIsTimed
  BY DEF IInv
<1> QED BY <1>1, Inductive, PTL


-----------------------------------------------------------------------------
(* The order in which Interests are sent.                                  *)

LEMMA IdsAreNumbers ==
  ASSUME NEW s \in Seq(Ids)
  PROVE  s \in Seq(Nat) /\ \A i \in DOMAIN s : s[i] \in Nat
<1>1. Ids \subseteq Nat
  BY DEF Ids
<1>2. \A i \in DOMAIN s : s[i] \in Ids
  OBVIOUS
<1>3. s \in Seq(Nat)
  BY <1>1, SeqMonotonic
<1> QED BY <1>1, <1>2, <1>3

LEMMA AppendIncreases ==
  ASSUME NEW s \in Seq(Nat), NEW x \in Nat,
         \A i, j \in DOMAIN s : i < j => s[i] < s[j],
         \A i \in DOMAIN s : s[i] < x
  PROVE  LET t == Append(s, x) IN
         \A i, j \in DOMAIN t : i < j => t[i] < t[j]
<1> DEFINE n == Len(s)
           t == Append(s, x)
<1>1. /\ n \in Nat /\ DOMAIN s = 1 .. n /\ DOMAIN t = 1 .. n + 1
      /\ \A i \in 1 .. n : t[i] = s[i]
      /\ t[n + 1] = x
  OBVIOUS
<1> HIDE DEF n, t
<1>2. ASSUME NEW i \in DOMAIN t, NEW j \in DOMAIN t, i < j
      PROVE  t[i] < t[j]
  <2>1. i \in 1 .. n
    BY <1>1, <1>2
  <2>2. CASE j \in 1 .. n
    BY <1>1, <1>2, <2>1, <2>2
  <2>3. CASE j = n + 1
    BY <1>1, <2>1, <2>3
  <2> QED BY <1>1, <2>2, <2>3
<1> QED BY <1>2 DEF t

NoneConnects == \A i \in DOMAIN stack : stack[i].kind = "connectLoopback" => ~IsAsync

LEMMA DispatchConnects ==
  ASSUME stack \in Seq(Frames), NoneConnects,
         NEW kind \in Kinds, NEW to \in SUBSET Ids, NEW id \in 0 .. MaxEntryId,
         Dispatch(kind, to, id), kind = "connectLoopback" => ~IsAsync
  PROVE  NoneConnects'
<1> DEFINE f == Frame(kind, to, id)
<1>1. f \in Frames /\ f.kind = kind
  BY FrameType DEF Frame
<1> HIDE DEF f
<1>2. stack' = stack \/ stack' = Push(f)
  BY DEF Dispatch, f
<1> QED BY <1>1, <1>2, PushType DEF NoneConnects

(* No step of a handler on an asynchronous transport is one of             *)
(* "connectLoopback".                                                      *)
LEMMA StepConnects ==
  ASSUME TypeOK, NoneConnects, [Next]_vars
  PROVE  NoneConnects'
<1>1. stack \in Seq(Frames) /\ 0 \in 0 .. MaxEntryId
  BY PendingInterestAssumption DEF TypeOK, NodeTypeOK
<1>2. ASSUME NEW kind \in Kinds, NEW to \in SUBSET Ids, NEW id \in 0 .. MaxEntryId,
             Dispatch(kind, to, id), kind = "connectLoopback" => ~IsAsync
      PROVE  NoneConnects'
  BY <1>1, <1>2, DispatchConnects
<1>3. ASSUME stack # <<>>, stack' = Pop PROVE NoneConnects'
  BY <1>1, <1>3, PopType DEF NoneConnects
<1>4. ASSUME stack # <<>>, NEW f \in Frames, f.kind = Top.kind,
             stack' = [stack EXCEPT ![Len(stack)] = f]
      PROVE  NoneConnects'
  BY <1>1, <1>4, TopType DEF NoneConnects, Top
<1>5. ASSUME stack' = stack PROVE NoneConnects'
  BY <1>5 DEF NoneConnects
<1>6. CASE \E interest \in Interests : ExpressInterest(interest)
  <2>1. PICK interest \in Interests, id \in Ids : NodeExpressInterest(id, interest)
    BY <1>6 DEF ExpressInterest
  <2>2. id \in 0 .. MaxEntryId /\ {"loopback", "connectLoopback"} \subseteq Kinds
    BY IdsInRange, LoopbackKinds
  <2>3. CASE ExpressConnected(id, interest)
    <3>1. PICK end : Dispatch("loopback", LoopbackTo(interest, end), id)
      BY <2>3 DEF ExpressConnected
    <3> QED BY <1>2, <2>2, <3>1, MatchTypes
  <2>4. CASE ExpressConnecting(id, interest)
    <3>1. PICK end : ~IsAsync /\ Dispatch("connectLoopback", LoopbackTo(interest, end), id)
      BY <2>4 DEF ExpressConnecting
    <3> QED BY <1>2, <2>2, <3>1, MatchTypes
  <2>5. CASE ExpressConnectFails \/ ExpressQueued(id)
    BY <1>5, <2>5 DEF ExpressConnectFails, ExpressQueued
  <2> QED BY <2>1, <2>3, <2>4, <2>5 DEF NodeExpressInterest
<1>7. CASE FlushOne
  <2>1. PICK end : LET id == NextQueued IN
          Dispatch("loopback", LoopbackTo(interestOf[id], end), id)
    BY <1>7 DEF FlushOne
  <2>2. NextQueued \in 0 .. MaxEntryId /\ "loopback" \in Kinds
    <3>1. onConnectedCallbacks \in Seq(Ids) /\ flushed + 1 \in DOMAIN onConnectedCallbacks
      BY <1>7 DEF FlushOne, TypeOK, NodeTypeOK
    <3>2. onConnectedCallbacks[flushed + 1] \in Ids
      BY <3>1
    <3> QED BY <3>2, IdsInRange, LoopbackKinds DEF NextQueued
  <2> QED BY <1>2, <2>1, <2>2, MatchTypes
<1>8. CASE FlushThrows \/ FlushDone
  BY <1>3, <1>8 DEF FlushThrows, FlushDone, InOnConnected
<1>9. CASE \/ \E d \in Packets : ReceiveData(d) \/ PutData(d)
           \/ \E wire \in Wires : ReceiveNack(wire)
           \/ \E interest \in Interests : ReceiveInterest(interest)
           \/ \E id \in Ids : ProcessInterestTimeout(id)
  <2>1. PICK kind \in {"onData", "onNetworkNack", "onInterest", "onTimeout"},
             to \in SUBSET Ids : Dispatch(kind, to, 0)
    BY <1>9, MatchTypes
    DEF ReceiveData, PutData, Satisfy, ReceiveNack, ReceiveInterest, ProcessInterestTimeout
  <2> QED BY <1>1, <1>2, <2>1, LoopbackKinds
<1>10. CASE \E id \in Ids : Call(id)
  <2>1. PICK id \in Ids : Call(id)
    BY <1>10
  <2>2. Top \in Frames /\ stack # <<>>
    BY <1>1, <2>1, TopType DEF Call
  <2>3. [Top EXCEPT !.todo = @ \ {id}, !.busy = TRUE] \in Frames
    BY <2>2 DEF Frames
  <2> QED BY <1>4, <2>1, <2>2, <2>3 DEF Call, Frames
<1>11. CASE CallbackReturns
  <2>1. Top \in Frames /\ stack # <<>>
    BY <1>1, <1>11, TopType DEF CallbackReturns
  <2>2. CASE Top.todo # {}
    <3>1. stack' = [stack EXCEPT ![Len(stack)] = [Top EXCEPT !.busy = FALSE]]
      BY <1>11, <2>2 DEF CallbackReturns, Top
    <3>2. [Top EXCEPT !.busy = FALSE] \in Frames
      BY <2>1 DEF Frames
    <3> QED BY <1>4, <2>1, <3>1, <3>2 DEF Frames
  <2>3. CASE Top.todo = {}
    BY <1>3, <1>11, <2>1, <2>3 DEF CallbackReturns
  <2> QED BY <2>2, <2>3
<1>12. CASE Connected
  <2>1. stack' = Push(Frame("onConnected", {}, 0)) /\ "onConnected" \in Kinds
    BY <1>12 DEF Connected, Kinds
  <2>2. Frame("onConnected", {}, 0) \in Frames /\ Frame("onConnected", {}, 0).kind = "onConnected"
    BY <1>1, <2>1, FrameType DEF Frame
  <2> QED BY <1>1, <2>1, <2>2, PushType DEF NoneConnects
<1>13. CASE \/ ConnectFails \/ Shutdown \/ UNCHANGED vars
            \/ \E id \in Ids : RemovePendingInterest(id) \/ UnsetInterestFilter(id)
            \/ \E prefix \in Prefixes : SetInterestFilter(prefix)
  BY <1>5, <1>13
  DEF ConnectFails, Shutdown, RemovePendingInterest, UnsetInterestFilter, vars, nodeVars,
      SetInterestFilter, NodeSetInterestFilter
<1> QED BY <1>6, <1>7, <1>8, <1>9, <1>10, <1>11, <1>12, <1>13
        DEF Next, LibraryStep, AppCall

(* The steps after which nothing else has been sent or waits.              *)
LEMMA QuietKeepsOrder ==
  ASSUME TypeOK, OrderInv, NoneConnects', lastEntryId' \in Nat, lastEntryId <= lastEntryId',
         UNCHANGED <<sent, onConnectedCallbacks, flushed>>,
         connectStatus' = connectStatus \/ ~IsAsync
  PROVE  OrderInv'
<1>1. ASSUME NEW i \in DOMAIN sent PROVE sent[i] <= lastEntryId'
  <2>1. sent[i] \in Nat /\ lastEntryId \in Nat /\ sent[i] <= lastEntryId
    BY IdsAreNumbers, PendingInterestAssumption DEF TypeOK, NodeTypeOK, OrderInv
  <2> QED BY <2>1
<1> QED BY <1>1 DEF OrderInv, SentInOrder, NoneConnects

(* The helper sends id, or does not.                                       *)
LEMMA HelperSends ==
  ASSUME TypeOK, OrderInv, NEW id \in Ids, NEW interest, NEW end, Helper(id, interest, end),
         \A i \in DOMAIN sent : sent[i] < id
  PROVE  /\ SentInOrder' /\ sent' \in Seq(Ids)
         /\ \A i \in DOMAIN sent' : sent'[i] = id \/ (i \in DOMAIN sent /\ sent'[i] = sent[i])
<1>1. sent \in Seq(Ids) /\ sent \in Seq(Nat) /\ id \in Nat
  <2>1. sent \in Seq(Ids) /\ id \in Nat
    BY DEF TypeOK, NodeTypeOK, Ids
  <2> QED BY <2>1, IdsAreNumbers
<1>2. CASE sent' = sent
  BY <1>1, <1>2 DEF OrderInv, SentInOrder
<1>3. CASE sent' = Append(sent, id)
  <2>1. SentInOrder'
    BY <1>1, <1>3, AppendIncreases DEF OrderInv, SentInOrder
  <2>2. sent' \in Seq(Ids)
    BY <1>1, <1>3
  <2>3. \A i \in 1 .. Len(sent) + 1 :
          sent'[i] = id \/ (i \in 1 .. Len(sent) /\ sent'[i] = sent[i])
    BY <1>1, <1>3, AppendProperties
  <2>4. DOMAIN sent' = 1 .. Len(sent) + 1 /\ DOMAIN sent = 1 .. Len(sent)
    BY <1>1, <1>3
  <2> QED BY <2>1, <2>2, <2>3, <2>4
<1> QED BY <1>2, <1>3 DEF Helper

LEMMA ExpressKeepsOrder ==
  ASSUME IInv, OrderInv, NoneConnects', NEW interest \in Interests, ExpressInterest(interest)
  PROVE  OrderInv'
<1>1. PICK id \in Ids : GetNextEntryId(id) /\ NodeExpressInterest(id, interest)
  BY DEF ExpressInterest
<1>2. /\ id = lastEntryId + 1 /\ lastEntryId' = id
      /\ lastEntryId \in Nat /\ id \in Nat
      /\ sent \in Seq(Ids) /\ onConnectedCallbacks \in Seq(Ids) /\ flushed \in Nat
  BY <1>1, PendingInterestAssumption DEF GetNextEntryId, IInv, TypeOK, NodeTypeOK
<1>3. \A i \in DOMAIN sent : sent[i] \in Nat /\ sent[i] < id
  <2>1. ASSUME NEW i \in DOMAIN sent PROVE sent[i] \in Nat /\ sent[i] <= lastEntryId
    BY <1>2, IdsAreNumbers DEF OrderInv
  <2> QED BY <1>2, <2>1
<1>4. CASE ExpressConnected(id, interest) \/ ExpressConnecting(id, interest)
  <2>1. PICK end : Helper(id, interest, end)
    BY <1>4 DEF ExpressConnected, ExpressConnecting
  <2>2. onConnectedCallbacks = <<>> /\ onConnectedCallbacks' = <<>>
    BY <1>4 DEF ExpressConnected, ExpressConnecting, OrderInv
  <2>3. /\ SentInOrder' /\ sent' \in Seq(Ids)
        /\ \A i \in DOMAIN sent' : sent'[i] = id \/ (i \in DOMAIN sent /\ sent'[i] = sent[i])
    BY <1>3, <2>1, HelperSends DEF IInv
  <2>4. \A i \in DOMAIN sent' : sent'[i] <= lastEntryId'
    BY <1>2, <1>3, <2>3
  <2> QED BY <2>2, <2>3, <2>4 DEF OrderInv, NoneConnects
<1>5. CASE ExpressConnectFails
  <2>1. UNCHANGED <<sent, onConnectedCallbacks, flushed, connectStatus>>
    BY <1>5 DEF ExpressConnectFails
  <2>2. lastEntryId <= lastEntryId'
    BY <1>2
  <2> QED BY <1>2, <2>1, <2>2, QuietKeepsOrder DEF IInv
<1>6. CASE ExpressQueued(id)
  <2>1. /\ IsAsync /\ connectStatus' # "CONNECT_COMPLETE"
        /\ onConnectedCallbacks' = Append(onConnectedCallbacks, id)
        /\ UNCHANGED <<sent, flushed>>
    BY <1>6 DEF ExpressQueued
  <2>2. \A k \in DOMAIN onConnectedCallbacks :
          onConnectedCallbacks[k] \in Nat /\ onConnectedCallbacks[k] < id
    <3>1. ASSUME NEW k \in DOMAIN onConnectedCallbacks
          PROVE  onConnectedCallbacks[k] \in Nat /\ onConnectedCallbacks[k] <= lastEntryId
      BY <1>2, IdsAreNumbers DEF IInv, FreshInv
    <3> QED BY <1>2, <3>1
  <2>3. \A k, l \in DOMAIN onConnectedCallbacks' :
          k < l => onConnectedCallbacks'[k] < onConnectedCallbacks'[l]
    <3>1. onConnectedCallbacks \in Seq(Nat)
      BY <1>2, IdsAreNumbers
    <3> QED BY <1>2, <2>1, <2>2, <3>1, AppendIncreases DEF OrderInv
  <2>4. ASSUME NEW i \in DOMAIN sent, NEW k \in DOMAIN onConnectedCallbacks', k > flushed
        PROVE  sent[i] < onConnectedCallbacks'[k]
    BY <1>2, <1>3, <2>1, <2>4 DEF OrderInv
  <2>5. \A i \in DOMAIN sent : sent[i] <= lastEntryId'
    BY <1>2, <1>3
  <2> QED BY <2>1, <2>3, <2>4, <2>5 DEF OrderInv, SentInOrder, NoneConnects
<1> QED BY <1>1, <1>4, <1>5, <1>6 DEF NodeExpressInterest

LEMMA FlushKeepsOrder ==
  ASSUME IInv, OrderInv, NoneConnects', FlushOne \/ FlushThrows \/ FlushDone
  PROVE  OrderInv'
<1>1. CASE FlushDone
  BY <1>1 DEF FlushDone, OrderInv, SentInOrder, NoneConnects
<1>2. CASE FlushOne \/ FlushThrows
  <2> DEFINE queue == onConnectedCallbacks
             id == NextQueued
  <2>1. /\ flushed < Len(queue) /\ flushed' = flushed + 1 /\ flushed \in Nat
        /\ queue \in Seq(Ids) /\ sent \in Seq(Ids)
        /\ UNCHANGED <<onConnectedCallbacks, connectStatus, lastEntryId>>
    BY <1>2 DEF FlushOne, FlushThrows, IInv, TypeOK, NodeTypeOK
  <2>2. PICK end : Helper(id, interestOf[id], end)
    BY <1>2 DEF FlushOne, FlushThrows
  <2>3. /\ flushed + 1 \in DOMAIN queue /\ id = queue[flushed + 1] /\ id \in Ids
        /\ flushed + 1 > flushed
    BY <2>1 DEF NextQueued
  <2>4. /\ \A i \in DOMAIN sent : sent[i] < id
        /\ id <= lastEntryId
    BY <2>3 DEF OrderInv, IInv, FreshInv
  <2> HIDE DEF id
  <2>5. /\ SentInOrder' /\ sent' \in Seq(Ids)
        /\ \A i \in DOMAIN sent' : sent'[i] = id \/ (i \in DOMAIN sent /\ sent'[i] = sent[i])
    BY <2>2, <2>3, <2>4, HelperSends DEF IInv
  <2>6. \A i \in DOMAIN sent' : sent'[i] <= lastEntryId
    BY <2>4, <2>5 DEF OrderInv
  <2>7. ASSUME NEW i \in DOMAIN sent', NEW k \in DOMAIN queue, k > flushed'
        PROVE  sent'[i] < queue[k]
    <3>1. k \in Nat /\ flushed + 1 < k /\ k > flushed
      BY <2>1, <2>7
    <3>2. id < queue[k]
      BY <2>3, <3>1 DEF OrderInv
    <3>3. ASSUME i \in DOMAIN sent PROVE sent[i] < queue[k]
      BY <3>1, <3>3 DEF OrderInv
    <3> QED BY <2>5, <3>2, <3>3
  <2> QED BY <2>1, <2>5, <2>6, <2>7 DEF OrderInv, NoneConnects
<1> QED BY <1>1, <1>2

LEMMA NextKeepsOrder ==
  ASSUME IInv, OrderInv, [Next]_vars
  PROVE  OrderInv'
<1>1. TypeOK /\ lastEntryId \in Nat /\ NoneConnects
  BY PendingInterestAssumption DEF IInv, TypeOK, NodeTypeOK, OrderInv, NoneConnects
<1>2. NoneConnects'
  BY <1>1, StepConnects
<1>3. CASE \E interest \in Interests : ExpressInterest(interest)
  BY <1>2, <1>3, ExpressKeepsOrder
<1>4. CASE FlushOne \/ FlushThrows \/ FlushDone
  BY <1>2, <1>4, FlushKeepsOrder
<1>5. CASE \E prefix \in Prefixes : SetInterestFilter(prefix)
  <2>1. /\ UNCHANGED <<sent, onConnectedCallbacks, flushed, connectStatus>>
        /\ lastEntryId' = lastEntryId + 1
    BY <1>5 DEF SetInterestFilter, NodeSetInterestFilter, GetNextEntryId
  <2>2. lastEntryId' \in Nat /\ lastEntryId <= lastEntryId'
    BY <1>1, <2>1
  <2> QED BY <1>1, <1>2, <2>1, <2>2, QuietKeepsOrder
<1>6. CASE CallbackReturns
  <2>1. UNCHANGED <<sent, onConnectedCallbacks, flushed, lastEntryId>>
    BY <1>6 DEF CallbackReturns
  <2>2. connectStatus' = connectStatus \/ ~IsAsync
    <3>1. stack \in Seq(Frames) /\ stack # <<>>
      BY <1>1, <1>6 DEF TypeOK, NodeTypeOK, CallbackReturns
    <3>2. Top.kind = "connectLoopback" => ~IsAsync
      BY <1>1, <3>1, TopType DEF NoneConnects, Top
    <3> QED BY <1>6, <3>2 DEF CallbackReturns
  <2>3. lastEntryId' \in Nat /\ lastEntryId <= lastEntryId'
    BY <1>1, <2>1
  <2> QED BY <1>1, <1>2, <2>1, <2>2, <2>3, QuietKeepsOrder
<1>7. CASE \/ Connected \/ ConnectFails \/ Shutdown \/ UNCHANGED vars
           \/ \E d \in Packets : ReceiveData(d) \/ PutData(d)
           \/ \E wire \in Wires : ReceiveNack(wire)
           \/ \E interest \in Interests : ReceiveInterest(interest)
           \/ \E id \in Ids : \/ ProcessInterestTimeout(id) \/ Call(id)
                              \/ RemovePendingInterest(id) \/ UnsetInterestFilter(id)
  <2>1. UNCHANGED <<sent, onConnectedCallbacks, flushed, connectStatus, lastEntryId>>
    BY <1>7
    DEF Connected, ConnectFails, Shutdown, vars, nodeVars, ReceiveData, PutData, Satisfy,
        ReceiveNack, ReceiveInterest, ProcessInterestTimeout, Call, RemovePendingInterest,
        UnsetInterestFilter, frameOnly
  <2>2. lastEntryId' \in Nat /\ lastEntryId <= lastEntryId'
    BY <1>1, <2>1
  <2> QED BY <1>1, <1>2, <2>1, <2>2, QuietKeepsOrder
<1> QED BY <1>3, <1>4, <1>5, <1>6, <1>7 DEF Next, LibraryStep, AppCall

(* Interests are sent in the order of expressInterest: onConnected sends   *)
(* all that waited before an expressInterest sends directly, also when     *)
(* callbacks express Interests while it does, and when it throws.          *)
THEOREM SentInTheirOrder == Spec => []SentInOrder
<1>1. Init => OrderInv
  BY DEF Init, OrderInv, SentInOrder
<1>2. IInv /\ OrderInv /\ [Next]_vars => OrderInv'
  BY NextKeepsOrder
<1>3. OrderInv => SentInOrder
  BY DEF OrderInv
<1> QED BY <1>1, <1>2, <1>3, Inductive, PTL DEF Spec

-----------------------------------------------------------------------------
(* No Interest is lost.                                                    *)

(* Who is known or is being looped back was so before, or is new.          *)
Returning == {stack[i].id : i \in DOMAIN stack} \ {0}

(* What a step does to them.                                               *)
HeldStep(new) ==
  /\ known' \cup Returning' \subseteq known \cup Returning \cup new
  /\ \A id \in Ids \ new : Held(id) => Held(id)'
  /\ \A id \in new : Held(id)'

KeepsHeld == \E new \in SUBSET Ids : HeldStep(new)

LEMMA ReturningType ==
  ASSUME TypeOK
  PROVE  Returning \subseteq Ids
<1>1. \A i \in DOMAIN stack : stack[i] \in Frames
  BY DEF TypeOK, NodeTypeOK
<1>2. \A i \in DOMAIN stack : stack[i].id = 0 \/ stack[i].id \in Ids
  BY <1>1, PendingInterestAssumption DEF Frames, Ids
<1> QED BY <1>2 DEF Returning

LEMMA HeldFollows ==
  ASSUME IInv, HeldInv, KeepsHeld
  PROVE  HeldInv'
<1>1. PICK new \in SUBSET Ids : HeldStep(new)
  BY DEF KeepsHeld
<1>2. known \cup Returning \subseteq Ids
  BY ReturningType DEF IInv, TypeOK, NodeTypeOK
<1>3. \A id \in known \cup Returning : Held(id)
  BY DEF HeldInv, NoInterestLost, Returning
<1>4. \A id \in known' \cup Returning' : Held(id)'
  BY <1>1, <1>2, <1>3 DEF HeldStep
<1> QED BY <1>4 DEF HeldInv, NoInterestLost, Returning

LEMMA HeldStays ==
  ASSUME known' \cup Returning' \subseteq known \cup Returning,
         \A id \in Ids : Held(id) => Held(id)'
  PROVE  KeepsHeld
<1>1. {} \in SUBSET Ids
  OBVIOUS
<1>2. HeldStep({})
  BY DEF HeldStep
<1> QED BY <1>1, <1>2 DEF KeepsHeld

LEMMA HeldWith ==
  ASSUME NEW id \in Ids, Held(id)',
         known' \cup Returning' \subseteq known \cup Returning \cup {id},
         \A other \in Ids \ {id} : Held(other) => Held(other)'
  PROVE  HeldStep({id}) /\ KeepsHeld
<1>1. {id} \in SUBSET Ids
  OBVIOUS
<1>2. HeldStep({id})
  BY DEF HeldStep
<1> QED BY <1>1, <1>2 DEF KeepsHeld

LEMMA DispatchReturning ==
  ASSUME stack \in Seq(Frames),
         NEW kind \in Kinds, NEW to \in SUBSET Ids, NEW id \in 0 .. MaxEntryId,
         Dispatch(kind, to, id)
  PROVE  Returning' \subseteq Returning \cup ({id} \ {0})
<1> DEFINE f == Frame(kind, to, id)
<1>1. f \in Frames /\ f.id = id
  BY FrameType DEF Frame
<1> HIDE DEF f
<1>2. stack' = stack \/ stack' = Push(f)
  BY DEF Dispatch, f
<1> QED BY <1>1, <1>2, PushType DEF Returning

LEMMA PopReturning ==
  ASSUME stack \in Seq(Frames), stack # <<>>, stack' = Pop
  PROVE  Returning' \subseteq Returning /\ Top.id \in Returning \cup {0}
BY PopType, TopType DEF Returning, Top

LEMMA TopReturning ==
  ASSUME stack \in Seq(Frames), stack # <<>>,
         NEW f \in Frames, stack' = [stack EXCEPT ![Len(stack)] = f], f.id = Top.id
  PROVE  Returning' \subseteq Returning
BY TopType DEF Returning, Top

(* expressInterestHelper holds the Interest, and leaves the others.        *)
LEMMA HelperHolds ==
  ASSUME IInv, NEW id \in Ids, NEW interest, NEW end, Helper(id, interest, end),
         id \notin table \cup isRemoved,
         id \in removeRequests => id \in silenced,
         \A other \in Ids \ {id} : interestOf'[other] = interestOf[other],
         Extracted' = Extracted
  PROVE  /\ Held(id)'
         /\ \A other \in Ids \ {id} :
              (Queued(other) => Queued(other)') => (Held(other) => Held(other)')
<1>1. /\ isRemoved' = isRemoved /\ silenced' = silenced /\ calls' = calls
      /\ table' = IF id \in removeRequests THEN table ELSE table \cup {id}
      /\ delayed' \subseteq delayed \cup {id}
  BY DEF Helper, Add, IsRemoveRequested
<1>2. Held(id)'
  BY <1>1 DEF Held
<1>3. ASSUME NEW other \in Ids \ {id}, Queued(other) => Queued(other)', Held(other)
      PROVE  Held(other)'
  BY <1>1, <1>3 DEF Held, ExpiredSilently
<1> QED BY <1>2, <1>3

(* Data, Nacks and timeouts take entries out of the table.                 *)
LEMMA ExtractHolds ==
  ASSUME IInv, NEW ids \in SUBSET table, NEW gone \in SUBSET Ids, Extract(ids),
         delayed' = delayed \ gone,
         \/ Extracted' = Extracted \cup ids
         \/ Extracted' = Extracted /\ \A id \in ids : id \in gone /\ ~interestOf[id].onTimeout,
         UNCHANGED <<calls, silenced, onConnectedCallbacks, flushed>>
  PROVE  \A id \in Ids : Held(id) => Held(id)'
<1> SUFFICES ASSUME NEW id \in Ids, Held(id) PROVE Held(id)'
  OBVIOUS
<1>1. /\ table' = table \ ids /\ isRemoved' = isRemoved \cup ids
      /\ interestOf' = interestOf
  BY DEF Extract
<1>2. Queued(id)' <=> Queued(id)
  BY DEF Queued
<1>3. Extracted \subseteq Extracted'
  OBVIOUS
<1>4. CASE id \in ids
  <2>1. CASE id \in Extracted'
    BY <2>1 DEF Held
  <2>2. CASE id \notin Extracted'
    <3>1. id \in gone /\ ~interestOf[id].onTimeout
      BY <1>4, <2>2
    <3> QED BY <1>1, <1>4, <3>1 DEF Held, ExpiredSilently
  <2> QED BY <2>1, <2>2
<1>5. CASE id \notin ids
  BY <1>1, <1>2, <1>3, <1>5 DEF Held, ExpiredSilently
<1> QED BY <1>4, <1>5

(* An Interest which the Node has not seen is held when it was removed     *)
(* before.                                                                 *)
LEMMA UnseenHeld ==
  ASSUME IInv, NEW id \in Ids, Unseen(id)
  PROVE  calls[id] = <<>> /\ (Held(id) <=> id \in silenced)
BY DEF IInv, TableInv, Unseen, Held, Queued, ExpiredSilently

(* The part of expressInterest that every caller runs.                     *)
LEMMA NodeExpressHolds ==
  ASSUME IInv, NEW id \in Ids, NEW interest \in Interests, Unseen(id),
         NodeExpressInterest(id, interest)
  PROVE  KeepsHeld /\ (HeldStep({id}) \/ ExpressConnectFails)
<1>2. /\ interestOf' = [interestOf EXCEPT ![id] = interest]
      /\ id \in 0 .. MaxEntryId /\ stack \in Seq(Frames) /\ StackInv
      /\ onConnectedCallbacks \in Seq(Ids)
  BY IdsInRange DEF NodeExpressInterest, IInv, TypeOK, NodeTypeOK
<1>3. /\ id \notin table \cup isRemoved
      /\ id \in removeRequests => id \in silenced
      /\ \A other \in Ids \ {id} : interestOf'[other] = interestOf[other]
      /\ Held(id) <=> id \in silenced
  BY <1>2, UnseenHeld DEF Unseen, IInv, TypeOK, PitTypeOK
<1>4. CASE ExpressConnected(id, interest) \/ ExpressConnecting(id, interest)
  <2>1. PICK end, kind :
          /\ kind \in {"loopback", "connectLoopback"}
          /\ Helper(id, interest, end)
          /\ Dispatch(kind, LoopbackTo(interest, end), id)
          /\ Returns(id, interest, end)
          /\ UNCHANGED <<onConnectedCallbacks, flushed>>
    <3>1. CASE ExpressConnected(id, interest)
      BY <3>1 DEF ExpressConnected
    <3>2. CASE ExpressConnecting(id, interest)
      BY <3>2 DEF ExpressConnecting
    <3> QED BY <1>4, <3>1, <3>2
  <2>2. LoopbackTo(interest, end) \in SUBSET Ids /\ kind \in Kinds /\ kind \notin Outcomes
    BY <2>1, MatchTypes, LoopbackKinds DEF IInv
  <2>3. Extracted' = Extracted
    BY <1>2, <2>1, <2>2, DispatchExtracts
  <2>4. known' \cup Returning' \subseteq known \cup Returning \cup {id}
    BY <1>2, <2>1, <2>2, DispatchReturning DEF Returns
  <2>5. \A other \in Ids : Queued(other) => Queued(other)'
    BY <2>1 DEF Queued
  <2>6. Held(id)' /\ \A other \in Ids \ {id} : Held(other) => Held(other)'
    BY <1>2, <1>3, <2>1, <2>3, <2>5, HelperHolds
  <2> QED BY <2>4, <2>6, HeldWith
<1>5. CASE ExpressConnectFails \/ ExpressQueued(id)
  <2>1. /\ UNCHANGED <<table, isRemoved, flushed, delayed, stack, calls, silenced>>
        /\ \/ UNCHANGED <<known, onConnectedCallbacks>>
           \/ /\ onConnectedCallbacks' = Append(onConnectedCallbacks, id)
              /\ known' = known \cup {id}
    BY <1>5 DEF ExpressConnectFails, ExpressQueued
  <2>2. Extracted' = Extracted /\ Returning' = Returning
    BY <2>1 DEF Extracted, Returning
  <2>3. ASSUME onConnectedCallbacks' = Append(onConnectedCallbacks, id)
        PROVE  Queued(id)' /\ \A other \in Ids : Queued(other) => Queued(other)'
    <3> DEFINE n == Len(onConnectedCallbacks)
    <3>1. /\ n \in Nat /\ flushed \in 0 .. n /\ DOMAIN onConnectedCallbacks = 1 .. n
          /\ DOMAIN onConnectedCallbacks' = 1 .. n + 1
          /\ onConnectedCallbacks'[n + 1] = id
          /\ \A k \in 1 .. n : onConnectedCallbacks'[k] = onConnectedCallbacks[k]
      BY <1>2, <2>3 DEF IInv, QueueInv
    <3> HIDE DEF n
    <3>2. n + 1 \in 1 .. n + 1 /\ n + 1 > flushed /\ 1 .. n \subseteq 1 .. n + 1
      BY <3>1
    <3> QED BY <2>1, <3>1, <3>2 DEF Queued
  <2>4. ASSUME NEW other \in Ids \ {id}, Held(other)
        PROVE  Held(other)'
    <3>1. Queued(other) => Queued(other)'
      BY <2>1, <2>3 DEF Queued
    <3> QED BY <1>3, <2>1, <2>2, <2>4, <3>1 DEF Held, ExpiredSilently
  <2>5. CASE ExpressConnectFails
    <3>1. Held(id) => Held(id)'
      BY <1>3, <2>1 DEF Held
    <3>2. known' = known
      BY <2>5 DEF ExpressConnectFails
    <3>3. KeepsHeld
      BY <2>2, <2>4, <3>1, <3>2, HeldStays
    <3> QED BY <2>5, <3>3
  <2>6. CASE ExpressQueued(id)
    <3>1. Held(id)' /\ known' = known \cup {id}
      BY <2>3, <2>6 DEF Held, ExpressQueued
    <3> QED BY <2>2, <2>4, <3>1, HeldWith
  <2> QED BY <1>5, <2>5, <2>6
<1> QED BY <1>4, <1>5 DEF NodeExpressInterest

LEMMA ExpressHolds ==
  ASSUME IInv, NEW interest \in Interests, ExpressInterest(interest)
  PROVE  KeepsHeld
<1>1. PICK id \in Ids : GetNextEntryId(id) /\ NodeExpressInterest(id, interest)
  BY DEF ExpressInterest
<1>2. Unseen(id)
  BY <1>1, FreshIsUnseen DEF GetNextEntryId
<1> QED BY <1>1, <1>2, NodeExpressHolds

LEMMA FlushHolds ==
  ASSUME IInv, FlushOne \/ FlushThrows \/ FlushDone
  PROVE  KeepsHeld
<1>1. /\ stack \in Seq(Frames) /\ stack # <<>> /\ StackInv /\ Top.kind \notin Outcomes
      /\ onConnectedCallbacks \in Seq(Ids) /\ flushed \in Nat
  BY LoopbackKinds
  DEF IInv, TypeOK, NodeTypeOK, FlushOne, FlushThrows, FlushDone, InOnConnected
<1>2. ASSUME stack' = Pop
      PROVE  Extracted' = Extracted /\ Returning' \subseteq Returning
  BY <1>1, <1>2, PopExtracts, PopReturning
<1>3. CASE FlushDone
  <2>1. /\ stack' = Pop /\ flushed = Len(onConnectedCallbacks)
        /\ UNCHANGED <<table, isRemoved, interestOf, delayed, known, calls, silenced>>
    BY <1>3 DEF FlushDone, NoMoreQueued, pitVars
  <2>2. \A id \in Ids : ~Queued(id)
    BY <1>1, <2>1 DEF Queued
  <2>3. \A id \in Ids : Held(id) => Held(id)'
    BY <1>2, <2>1, <2>2 DEF Held, ExpiredSilently
  <2> QED BY <1>2, <2>1, <2>3, HeldStays
<1>4. CASE FlushOne \/ FlushThrows
  <2>1. /\ flushed < Len(onConnectedCallbacks) /\ flushed' = flushed + 1
        /\ UNCHANGED <<interestOf, onConnectedCallbacks, known>>
    BY <1>4 DEF FlushOne, FlushThrows
  <2>2. PICK id \in Ids :
          /\ flushed + 1 \in DOMAIN onConnectedCallbacks /\ flushed + 1 > flushed
          /\ id = onConnectedCallbacks[flushed + 1] /\ id = NextQueued
    BY <1>1, <2>1 DEF NextQueued
  <2>3. /\ id \notin table \cup isRemoved
        /\ id \in removeRequests => id \in silenced
    BY <2>2 DEF IInv, QueueInv
  <2>4. Queued(id)
    BY <2>2 DEF Queued
  <2>5. ASSUME NEW other \in Ids \ {id}, Queued(other)
        PROVE  Queued(other)'
    <3>1. PICK k \in DOMAIN onConnectedCallbacks :
            k > flushed /\ onConnectedCallbacks[k] = other
      BY <2>5 DEF Queued
    <3>2. k > flushed + 1
      <4>1. k # flushed + 1
        BY <2>2, <3>1
      <4> QED BY <1>1, <3>1, <4>1
    <3> QED BY <2>1, <3>1, <3>2 DEF Queued
  <2>6. PICK end : /\ Helper(id, interestOf[id], end)
                   /\ \/ Dispatch("loopback", LoopbackTo(interestOf[id], end), id)
                      \/ stack' = Pop
    BY <1>4, <2>2 DEF FlushOne, FlushThrows
  <2>7. Extracted' = Extracted /\ Returning' \subseteq Returning \cup {id}
    <3>1. /\ LoopbackTo(interestOf[id], end) \in SUBSET Ids /\ id \in 0 .. MaxEntryId
          /\ "loopback" \in Kinds /\ "loopback" \notin Outcomes
      BY <2>2, IdsInRange, MatchTypes, LoopbackKinds DEF IInv
    <3> QED BY <1>1, <1>2, <2>6, <3>1, DispatchExtracts, DispatchReturning
  <2>8. Held(id)' /\ \A other \in Ids \ {id} : Held(other) => Held(other)'
    BY <2>1, <2>2, <2>3, <2>5, <2>6, <2>7, HelperHolds
  <2>9. known' \cup Returning' \subseteq known \cup Returning \cup {id}
    BY <2>1, <2>7
  <2> QED BY <2>2, <2>8, <2>9, HeldWith
<1> QED BY <1>3, <1>4

(* A Data, a Nack or a timeout.                                            *)
LEMMA DeliverHolds ==
  ASSUME IInv, NEW ids \in SUBSET table, NEW to,
         NEW kind \in Outcomes, NEW gone \in SUBSET Ids,
         Extract(ids), Dispatch(kind, to, 0), delayed' = delayed \ gone,
         \/ to = ids
         \/ to = {} /\ \A id \in ids : id \in gone /\ ~interestOf[id].onTimeout,
         UNCHANGED <<calls, silenced, onConnectedCallbacks, flushed, known>>
  PROVE  KeepsHeld
<1>1. /\ stack \in Seq(Frames) /\ StackInv /\ to \in SUBSET Ids
      /\ kind \in Kinds /\ 0 \in 0 .. MaxEntryId
  BY PendingInterestAssumption DEF IInv, TypeOK, PitTypeOK, NodeTypeOK, Kinds
<1>2. to \cap Extracted = {}
  BY DEF IInv, TableInv
<1>3. Extracted' = Extracted \cup to
  BY <1>1, <1>2, DispatchExtracts
<1>4. Returning' \subseteq Returning
  BY <1>1, DispatchReturning
<1>5. \A id \in Ids : Held(id) => Held(id)'
  BY <1>3, ExtractHolds
<1> QED BY <1>4, <1>5, HeldStays

LEMMA ReceiveHolds ==
  ASSUME IInv,
         \/ \E d \in Packets : ReceiveData(d) \/ PutData(d)
         \/ \E wire \in Wires : ReceiveNack(wire)
         \/ \E interest \in Interests : ReceiveInterest(interest)
         \/ \E id \in Ids : ProcessInterestTimeout(id)
  PROVE  KeepsHeld
<1>1. CASE \E d \in Packets : ReceiveData(d) \/ PutData(d)
  <2>1. PICK d \in Packets : Satisfy(d)
    BY <1>1 DEF ReceiveData, PutData
  <2>2. /\ MatchesData(d) \in SUBSET table /\ "onData" \in Outcomes
        /\ {} \in SUBSET Ids /\ delayed' = delayed \ {}
        /\ Extract(MatchesData(d)) /\ Dispatch("onData", MatchesData(d), 0)
        /\ UNCHANGED <<calls, silenced, onConnectedCallbacks, flushed, known>>
    BY <2>1 DEF Satisfy, frameOnly, MatchesData, Outcomes
  <2> QED BY <2>2, DeliverHolds
<1>2. CASE \E wire \in Wires : ReceiveNack(wire)
  <2>1. PICK wire \in Wires : ReceiveNack(wire)
    BY <1>2
  <2>2. /\ MatchesNack(wire) \in SUBSET table /\ "onNetworkNack" \in Outcomes
        /\ {} \in SUBSET Ids /\ delayed' = delayed \ {}
        /\ Extract(MatchesNack(wire)) /\ Dispatch("onNetworkNack", MatchesNack(wire), 0)
        /\ UNCHANGED <<calls, silenced, onConnectedCallbacks, flushed, known>>
    BY <2>1 DEF ReceiveNack, frameOnly, MatchesNack, Outcomes
  <2> QED BY <2>2, DeliverHolds
<1>3. CASE \E interest \in Interests : ReceiveInterest(interest)
  <2>1. PICK interest \in Interests : ReceiveInterest(interest)
    BY <1>3
  <2>2. /\ stack \in Seq(Frames) /\ StackInv /\ Matched(interest) \in SUBSET Ids
        /\ "onInterest" \in Kinds /\ "onInterest" \notin Outcomes /\ 0 \in 0 .. MaxEntryId
    BY MatchTypes, LoopbackKinds, PendingInterestAssumption DEF IInv, TypeOK, NodeTypeOK
  <2>3. Extracted' = Extracted /\ Returning' \subseteq Returning
    BY <2>1, <2>2, DispatchExtracts, DispatchReturning DEF ReceiveInterest
  <2>4. \A id \in Ids : Held(id) => Held(id)'
    BY <2>1, <2>3 DEF ReceiveInterest, pitVars, frameOnly, Held, Queued, ExpiredSilently
  <2>5. known' = known
    BY <2>1 DEF ReceiveInterest, frameOnly
  <2> QED BY <2>3, <2>4, <2>5, HeldStays
<1>4. CASE \E id \in Ids : ProcessInterestTimeout(id)
  <2>1. PICK id \in Ids : ProcessInterestTimeout(id)
    BY <1>4
  <2> DEFINE ids == IF RemovesEntry(id) THEN {id} ELSE {}
             to == IF RemovesEntry(id) /\ interestOf[id].onTimeout THEN {id} ELSE {}
  <2>2. /\ ids \in SUBSET table /\ {id} \in SUBSET Ids
        /\ to = ids \/ (to = {} /\ \A e \in ids : e \in {id} /\ ~interestOf[e].onTimeout)
    BY DEF RemovesEntry
  <2>3. /\ Extract(ids) /\ Dispatch("onTimeout", to, 0)
        /\ delayed' = delayed \ {id} /\ "onTimeout" \in Outcomes
        /\ UNCHANGED <<calls, silenced, onConnectedCallbacks, flushed, known>>
    BY <2>1 DEF ProcessInterestTimeout, Outcomes
  <2> HIDE DEF ids, to
  <2> QED BY <2>2, <2>3, DeliverHolds
<1> QED BY <1>1, <1>2, <1>3, <1>4

LEMMA CallHolds ==
  ASSUME IInv, NEW id \in Ids, Call(id)
  PROVE  KeepsHeld
<1> DEFINE f == [Top EXCEPT !.todo = Top.todo \ {id}, !.busy = TRUE]
<1>1. /\ stack \in Seq(Frames) /\ StackInv /\ stack # <<>> /\ Top \in Frames
      /\ calls \in [Ids -> Seq(Outcomes)]
  BY TopType DEF IInv, TypeOK, NodeTypeOK, Call
<1>2. /\ stack' = [stack EXCEPT ![Len(stack)] = f]
      /\ UNCHANGED <<table, isRemoved, interestOf, onConnectedCallbacks, flushed, delayed,
                     known, silenced>>
      /\ calls' = IF Top.kind \in Outcomes
                  THEN [calls EXCEPT ![id] = Append(calls[id], Top.kind)] ELSE calls
  BY DEF Call, pitVars
<1>3. /\ f \in Frames /\ f.kind = Top.kind /\ f.id = Top.id
      /\ f.todo \subseteq Top.todo /\ Top.todo \ f.todo \subseteq {id}
  BY <1>1 DEF Frames
<1> HIDE DEF f
<1>4. Extracted' = Extracted \/ (Top.kind \in Outcomes /\ Extracted \ {id} \subseteq Extracted')
  BY <1>1, <1>2, <1>3, TopExtracts
<1>5. ASSUME NEW e \in Ids, Held(e) PROVE Held(e)'
  <2>1. Top.kind \in Outcomes => calls'[id] # <<>>
    BY <1>1, <1>2
  <2>2. e # id \/ Top.kind \notin Outcomes => calls'[e] = calls[e]
    BY <1>1, <1>2
  <2>3. CASE e = id /\ Top.kind \in Outcomes
    BY <2>1, <2>3 DEF Held
  <2>4. CASE e # id \/ Top.kind \notin Outcomes
    BY <1>2, <1>4, <1>5, <2>2, <2>4 DEF Held, Queued, ExpiredSilently
  <2> QED BY <2>3, <2>4
<1>6. Returning' \subseteq Returning
  BY <1>1, <1>2, <1>3, TopReturning
<1> QED BY <1>2, <1>5, <1>6, HeldStays

LEMMA RemoveHolds ==
  ASSUME IInv, NEW id \in Ids, RemovePendingInterest(id)
  PROVE  KeepsHeld
<1>1. /\ UNCHANGED <<interestOf, onConnectedCallbacks, flushed, delayed, stack, known, calls>>
      /\ silenced' = IF id \in Extracted \/ calls[id] # <<>> THEN silenced
                     ELSE silenced \cup {id}
      /\ table \ {id} \subseteq table' /\ isRemoved \subseteq isRemoved'
  BY DEF RemovePendingInterest, PitRemove
<1>2. Extracted' = Extracted /\ Returning' = Returning
  BY <1>1 DEF Extracted, Returning
<1>3. ASSUME NEW e \in Ids, Held(e) PROVE Held(e)'
  BY <1>1, <1>2, <1>3 DEF Held, Queued, ExpiredSilently
<1> QED BY <1>1, <1>2, <1>3, HeldStays

(* The steps which extract nothing and call nothing back.                  *)
LEMMA OtherExtracts ==
  ASSUME IInv,
         \/ Connected \/ ConnectFails \/ Shutdown \/ CallbackReturns \/ UNCHANGED vars
         \/ \E id \in Ids : UnsetInterestFilter(id)
         \/ SetsFilter
  PROVE  /\ UNCHANGED <<table, isRemoved, removeRequests, interestOf,
                         onConnectedCallbacks, flushed, delayed, calls, silenced>>
         /\ Extracted' = Extracted
         /\ known' \cup Returning' \subseteq known \cup Returning
         /\ Returning' \subseteq Returning
<1>1. UNCHANGED <<table, isRemoved, removeRequests, interestOf, onConnectedCallbacks,
                  flushed, delayed, calls, silenced>>
  BY DEF Connected, ConnectFails, Shutdown, CallbackReturns, vars, nodeVars,
         UnsetInterestFilter, SetsFilter, NodeSetInterestFilter, pitVars
<1>2. stack \in Seq(Frames) /\ StackInv
  BY DEF IInv, TypeOK, NodeTypeOK
<1>3. CASE Connected
  <2>1. /\ "onConnected" \in Kinds /\ "onConnected" \notin Outcomes
        /\ {} \in SUBSET Ids /\ 0 \in 0 .. MaxEntryId
    BY PendingInterestAssumption, LoopbackKinds DEF Kinds
  <2> DEFINE f == Frame("onConnected", {}, 0)
  <2>2. stack' = Push(f) /\ f \in Frames /\ known' = known
    BY <1>3, <2>1, FrameType DEF Connected
  <2>3. f.kind = "onConnected" /\ f.id = 0 /\ f.todo = {}
    BY DEF Frame
  <2> HIDE DEF f
  <2>4. /\ DOMAIN stack = 1 .. Len(stack) /\ DOMAIN stack' = 1 .. Len(stack) + 1
        /\ \A i \in DOMAIN stack : stack'[i] = stack[i]
        /\ stack'[Len(stack) + 1] = f /\ Len(stack) \in Nat
    BY <1>2, <2>2, PushType
  <2>5. DOMAIN stack' = DOMAIN stack \cup {Len(stack) + 1}
    BY <2>4
  <2>6. Extracted' = Extracted
    BY <2>3, <2>4, <2>5 DEF Extracted
  <2>7. Returning' \subseteq Returning
    BY <2>3, <2>4, <2>5 DEF Returning
  <2> QED BY <1>1, <2>2, <2>6, <2>7
<1>4. CASE CallbackReturns
  <2>1. stack # <<>> /\ Top \in Frames
    BY <1>2, <1>4, TopType DEF CallbackReturns
  <2>2. CASE Top.todo # {}
    <3> DEFINE f == [Top EXCEPT !.busy = FALSE]
    <3>1. stack' = [stack EXCEPT ![Len(stack)] = f] /\ known' = known
      BY <1>4, <2>2 DEF CallbackReturns, Top
    <3>2. /\ f \in Frames /\ f.kind = Top.kind /\ f.id = Top.id /\ f.todo = Top.todo
      BY <2>1 DEF Frames
    <3> HIDE DEF f
    <3> QED BY <1>1, <1>2, <2>1, <3>1, <3>2, TopExtracts, TopReturning
  <2>3. CASE Top.todo = {}
    <3>1. stack' = Pop /\ known' = ReturnedId
      BY <1>4, <2>3 DEF CallbackReturns
    <3> QED BY <1>1, <1>2, <2>1, <2>3, <3>1, PopExtracts, PopReturning DEF ReturnedId
  <2> QED BY <2>2, <2>3
<1>5. CASE ~Connected /\ ~CallbackReturns
  <2>1. stack' = stack /\ known' = known
    BY <1>5
    DEF ConnectFails, Shutdown, vars, nodeVars, UnsetInterestFilter, SetsFilter,
        NodeSetInterestFilter
  <2> QED BY <1>1, <2>1 DEF Extracted, Returning
<1> QED BY <1>3, <1>4, <1>5

LEMMA OtherHolds ==
  ASSUME IInv,
         \/ Connected \/ ConnectFails \/ Shutdown \/ CallbackReturns \/ UNCHANGED vars
         \/ \E id \in Ids : UnsetInterestFilter(id)
         \/ SetsFilter
  PROVE  KeepsHeld
<1>1. \A id \in Ids : Held(id) => Held(id)'
  BY OtherExtracts DEF Held, Queued, ExpiredSilently
<1> QED BY <1>1, OtherExtracts, HeldStays

(* However the event loop, the application's calls inside callbacks, and a *)
(* connection that comes late or not at all interleave, no Interest whose  *)
(* ID expressInterest returned is forgotten.                               *)
THEOREM NothingIsLost == Spec => []NoInterestLost
<1>1. Init => HeldInv
  BY DEF Init, HeldInv, NoInterestLost
<1>2. IInv /\ HeldInv /\ [Next]_vars => HeldInv'
  <2> SUFFICES ASSUME IInv, HeldInv, [Next]_vars PROVE HeldInv'
    OBVIOUS
  <2>1. CASE LibraryStep
    BY <2>1, FlushHolds, ReceiveHolds, CallHolds, OtherHolds, HeldFollows DEF LibraryStep
  <2>2. CASE AppCall
    BY <2>2, ExpressHolds, ReceiveHolds, RemoveHolds, OtherHolds, SetFilterTakesId,
       HeldFollows
    DEF AppCall, IInv
  <2> QED BY <2>1, <2>2, OtherHolds, HeldFollows DEF Next
<1>3. HeldInv => NoInterestLost
  BY DEF HeldInv
<1> QED BY <1>1, <1>2, <1>3, Inductive, PTL DEF Spec

-----------------------------------------------------------------------------
(* The Node keeps the promise of the Face.                                 *)

PromiseState == [id \in Ids |-> StateOf(id)]

LEMMA MovesAre ==
  ASSUME NEW ids \in SUBSET Ids, NEW from, NEW to,
         \A id \in ids : StateOf(id) = from /\ StateOf(id)' = to,
         \A id \in Ids \ ids : StateOf(id)' = StateOf(id)
  PROVE  Promise!Moves(ids, from, to)
BY DEF Promise!Moves

LEMMA Stutters ==
  ASSUME \A id \in Ids : StateOf(id)' = StateOf(id)
  PROVE  UNCHANGED PromiseState
BY DEF PromiseState

LEMMA StateStays ==
  ASSUME NEW id \in Ids, calls'[id] = calls[id],
         id \in Extracted' <=> id \in Extracted,
         id \in silenced' \cup isRemoved' <=> id \in silenced \cup isRemoved,
         id \in table' <=> id \in table, Queued(id)' <=> Queued(id)
  PROVE  StateOf(id)' = StateOf(id)
BY DEF StateOf

LEMMA PendingState ==
  ASSUME IInv, NEW id \in Ids, id \in table \/ (Queued(id) /\ id \notin silenced)
  PROVE  StateOf(id) = "pending"
<1>1. calls[id] = <<>> /\ id \notin Extracted \cup isRemoved \cup silenced
  <2>1. CASE id \in table
    BY <2>1 DEF IInv, TableInv, RemovedStaysSilent
  <2>2. CASE Queued(id) /\ id \notin silenced
    <3>1. id \notin isRemoved
      BY <2>2 DEF Queued, IInv, QueueInv
    <3> QED BY <2>2, <3>1 DEF IInv, TableInv
  <2> QED BY <2>1, <2>2
<1> QED BY <1>1 DEF StateOf

(* The part of expressInterest that every caller runs.  An Interest whose  *)
(* removal has overtaken it stays removed.                                 *)
LEMMA NodeExpressKeepsPromise ==
  ASSUME IInv, NEW id \in Ids, NEW interest \in Interests, Unseen(id),
         NodeExpressInterest(id, interest)
  PROVE  [Promise!Next]_PromiseState
<1>1. /\ stack \in Seq(Frames) /\ StackInv /\ onConnectedCallbacks \in Seq(Ids)
      /\ flushed \in 0 .. Len(onConnectedCallbacks) /\ id \in 0 .. MaxEntryId
  BY IdsInRange DEF IInv, TypeOK, NodeTypeOK, QueueInv
<1>2. /\ calls[id] = <<>> /\ id \notin table \cup isRemoved \cup Extracted
      /\ id \in removeRequests <=> id \in silenced
      /\ ~Queued(id)
  BY UnseenHeld DEF Unseen, Queued
<1>3. ASSUME UNCHANGED <<calls, silenced, isRemoved>>, Extracted' = Extracted,
             \A other \in Ids \ {id} : /\ other \in table' <=> other \in table
                                       /\ Queued(other)' <=> Queued(other),
             id \in removeRequests \/ id \in table' \/ Queued(id)'
      PROVE  [Promise!Next]_PromiseState
  <2>1. \A other \in Ids \ {id} : StateOf(other)' = StateOf(other)
    BY <1>3, StateStays
  <2>2. CASE id \in silenced
    <3>1. StateOf(id)' = StateOf(id)
      BY <1>2, <1>3, <2>2 DEF StateOf
    <3> QED BY <2>1, <3>1, Stutters
  <2>3. CASE id \notin silenced
    <3>1. StateOf(id) = "unused" /\ StateOf(id)' = "pending"
      BY <1>2, <1>3, <2>3 DEF StateOf
    <3>2. Promise!Express(id)
      BY <2>1, <3>1, MovesAre DEF Promise!Express
    <3> QED BY <3>2 DEF Promise!Next
  <2> QED BY <2>2, <2>3
<1>4. CASE ExpressConnected(id, interest) \/ ExpressConnecting(id, interest)
  <2>1. PICK end, kind :
          /\ kind \in {"loopback", "connectLoopback"}
          /\ Helper(id, interest, end)
          /\ Dispatch(kind, LoopbackTo(interest, end), id)
          /\ UNCHANGED <<onConnectedCallbacks, flushed>>
    <3>1. CASE ExpressConnected(id, interest)
      BY <3>1 DEF ExpressConnected
    <3>2. CASE ExpressConnecting(id, interest)
      BY <3>2 DEF ExpressConnecting
    <3> QED BY <1>4, <3>1, <3>2
  <2>2. LoopbackTo(interest, end) \in SUBSET Ids /\ kind \in Kinds /\ kind \notin Outcomes
    BY <2>1, MatchTypes, LoopbackKinds DEF IInv
  <2>3. Extracted' = Extracted
    BY <1>1, <2>1, <2>2, DispatchExtracts
  <2>4. /\ UNCHANGED <<calls, silenced, isRemoved>>
        /\ table' = IF id \in removeRequests THEN table ELSE table \cup {id}
    BY <2>1 DEF Helper, Add, IsRemoveRequested
  <2>5. \A other \in Ids : Queued(other)' <=> Queued(other)
    BY <2>1 DEF Queued
  <2> QED BY <1>3, <2>3, <2>4, <2>5
<1>5. CASE ExpressConnectFails
  <2>1. /\ UNCHANGED <<table, isRemoved, onConnectedCallbacks, flushed, calls, silenced>>
        /\ Extracted' = Extracted
    BY <1>5 DEF ExpressConnectFails, Extracted
  <2>2. \A other \in Ids : StateOf(other)' = StateOf(other)
    BY <2>1, StateStays DEF Queued
  <2> QED BY <2>2, Stutters
<1>6. CASE ExpressQueued(id)
  <2>1. /\ UNCHANGED <<table, isRemoved, flushed, calls, silenced>>
        /\ Extracted' = Extracted
        /\ onConnectedCallbacks' = Append(onConnectedCallbacks, id)
    BY <1>6 DEF ExpressQueued, Extracted
  <2> DEFINE n == Len(onConnectedCallbacks)
  <2>2. /\ n \in Nat /\ flushed \in 0 .. n /\ DOMAIN onConnectedCallbacks = 1 .. n
        /\ DOMAIN onConnectedCallbacks' = 1 .. n + 1
        /\ onConnectedCallbacks'[n + 1] = id
        /\ \A k \in 1 .. n : onConnectedCallbacks'[k] = onConnectedCallbacks[k]
    BY <1>1, <2>1
  <2> HIDE DEF n
  <2>3. /\ n + 1 > flushed /\ 1 .. n + 1 = 1 .. n \cup {n + 1}
    BY <2>2
  <2>4. Queued(id)' /\ \A other \in Ids \ {id} : Queued(other)' <=> Queued(other)
    BY <2>1, <2>2, <2>3 DEF Queued
  <2> QED BY <1>3, <2>1, <2>4
<1> QED BY <1>4, <1>5, <1>6 DEF NodeExpressInterest

LEMMA ExpressKeepsPromise ==
  ASSUME IInv, NEW interest \in Interests, ExpressInterest(interest)
  PROVE  [Promise!Next]_PromiseState
<1>1. PICK id \in Ids : GetNextEntryId(id) /\ NodeExpressInterest(id, interest)
  BY DEF ExpressInterest
<1>2. Unseen(id)
  BY <1>1, FreshIsUnseen DEF GetNextEntryId
<1> QED BY <1>1, <1>2, NodeExpressKeepsPromise

LEMMA FlushKeepsPromise ==
  ASSUME IInv, IInv', FlushOne \/ FlushThrows \/ FlushDone
  PROVE  UNCHANGED PromiseState
<1>1. /\ stack \in Seq(Frames) /\ stack # <<>> /\ StackInv /\ Top.kind \notin Outcomes
      /\ onConnectedCallbacks \in Seq(Ids) /\ flushed \in Nat
  BY LoopbackKinds
  DEF IInv, TypeOK, NodeTypeOK, FlushOne, FlushThrows, FlushDone, InOnConnected
<1>2. ASSUME stack' = Pop PROVE Extracted' = Extracted
  BY <1>1, <1>2, PopExtracts
<1>3. CASE FlushDone
  <2>1. /\ stack' = Pop /\ flushed = Len(onConnectedCallbacks)
        /\ onConnectedCallbacks' = <<>>
        /\ UNCHANGED <<table, isRemoved, calls, silenced>>
    BY <1>3 DEF FlushDone, NoMoreQueued, pitVars
  <2>2. \A id \in Ids : ~Queued(id) /\ ~Queued(id)'
    BY <1>1, <2>1 DEF Queued
  <2>3. \A id \in Ids : StateOf(id)' = StateOf(id)
    BY <1>2, <2>1, <2>2, StateStays
  <2> QED BY <2>3, Stutters
<1>4. CASE FlushOne \/ FlushThrows
  <2>1. /\ flushed < Len(onConnectedCallbacks) /\ flushed' = flushed + 1
        /\ UNCHANGED onConnectedCallbacks
    BY <1>4 DEF FlushOne, FlushThrows
  <2>2. PICK id \in Ids :
          /\ flushed + 1 \in DOMAIN onConnectedCallbacks /\ flushed + 1 > flushed
          /\ id = onConnectedCallbacks[flushed + 1] /\ id = NextQueued
    BY <1>1, <2>1 DEF NextQueued
  <2>3. PICK end : /\ Helper(id, interestOf[id], end)
                   /\ \/ Dispatch("loopback", LoopbackTo(interestOf[id], end), id)
                      \/ stack' = Pop
    BY <1>4, <2>2 DEF FlushOne, FlushThrows
  <2>4. /\ Queued(id) /\ id \notin isRemoved
        /\ id \in removeRequests <=> id \in silenced
    BY <2>2 DEF Queued, IInv, QueueInv
  <2>5. /\ UNCHANGED <<isRemoved, calls, silenced>>
        /\ table' = IF id \in removeRequests THEN table ELSE table \cup {id}
    BY <2>3 DEF Helper, Add, IsRemoveRequested
  <2>6. Extracted' = Extracted
    <3>1. /\ LoopbackTo(interestOf[id], end) \in SUBSET Ids /\ id \in 0 .. MaxEntryId
          /\ "loopback" \in Kinds /\ "loopback" \notin Outcomes
      BY IdsInRange, MatchTypes, LoopbackKinds DEF IInv
    <3> QED BY <1>1, <1>2, <2>3, <3>1, DispatchExtracts
  <2>7. StateOf(id)' = StateOf(id)
    <3>1. CASE id \in silenced
      BY <2>5, <2>6, <3>1 DEF IInv, RemovedStaysSilent, StateOf
    <3>2. CASE id \notin silenced
      <4>1. StateOf(id) = "pending"
        BY <2>4, <3>2, PendingState
      <4>2. StateOf(id)' = "pending"
        BY <2>4, <2>5, <2>6, <3>2, <4>1 DEF StateOf
      <4> QED BY <4>1, <4>2
    <3> QED BY <3>1, <3>2
  <2>8. ASSUME NEW other \in Ids \ {id} PROVE StateOf(other)' = StateOf(other)
    <3>1. ASSUME NEW k \in DOMAIN onConnectedCallbacks, onConnectedCallbacks[k] = other
          PROVE  k > flushed <=> k > flushed + 1
      <4>1. k # flushed + 1
        BY <2>2, <3>1
      <4> QED BY <1>1, <4>1
    <3>2. Queued(other)' <=> Queued(other)
      BY <2>1, <3>1 DEF Queued
    <3> QED BY <2>5, <2>6, <3>2, StateStays
  <2> QED BY <2>7, <2>8, Stutters
<1> QED BY <1>3, <1>4

LEMMA ReceiveKeepsPromise ==
  ASSUME IInv, IInv',
         \/ \E d \in Packets : ReceiveData(d) \/ PutData(d)
         \/ \E wire \in Wires : ReceiveNack(wire)
         \/ \E interest \in Interests : ReceiveInterest(interest)
         \/ \E id \in Ids : ProcessInterestTimeout(id)
  PROVE  [Promise!Next]_PromiseState
<1>1. /\ stack \in Seq(Frames) /\ StackInv /\ 0 \in 0 .. MaxEntryId
      /\ table \subseteq Ids /\ table \cap Extracted = {}
  BY PendingInterestAssumption DEF IInv, TypeOK, PitTypeOK, NodeTypeOK, TableInv
<1>2. ASSUME NEW ids \in SUBSET table, Extract(ids),
             UNCHANGED <<calls, silenced, onConnectedCallbacks, flushed>>,
             Extracted \subseteq Extracted', Extracted' \subseteq Extracted \cup ids
      PROVE  /\ \A id \in ids : StateOf(id) = "pending"
             /\ \A id \in ids : StateOf(id)' = IF id \in Extracted' THEN "chosen"
                                               ELSE "removed"
             /\ \A id \in Ids \ ids : StateOf(id)' = StateOf(id)
  <2>1. /\ table' = table \ ids /\ isRemoved' = isRemoved \cup ids
        /\ \A id \in Ids : Queued(id)' <=> Queued(id)
    BY <1>2 DEF Extract, Queued
  <2>2. \A id \in ids : calls[id] = <<>> /\ StateOf(id) = "pending"
    BY <1>1, <1>2, PendingState DEF IInv, TableInv
  <2>3. \A id \in ids : StateOf(id)' = IF id \in Extracted' THEN "chosen" ELSE "removed"
    BY <1>2, <2>1, <2>2 DEF StateOf
  <2>4. \A id \in Ids \ ids : StateOf(id)' = StateOf(id)
    BY <1>2, <2>1, StateStays
  <2> QED BY <2>2, <2>3, <2>4
<1>3. ASSUME NEW ids \in SUBSET table, NEW kind \in Outcomes, Extract(ids),
             Dispatch(kind, ids, 0),
             UNCHANGED <<calls, silenced, onConnectedCallbacks, flushed>>
      PROVE  [Promise!Next]_PromiseState
  <2>1. Extracted' = Extracted \cup ids
    BY <1>1, <1>3, LoopbackKinds, DispatchExtracts
  <2>2. ids \in SUBSET Ids
    BY <1>1
  <2>3. Promise!Choose(ids)
    BY <1>2, <1>3, <2>1, <2>2, MovesAre DEF Promise!Choose
  <2> QED BY <2>2, <2>3 DEF Promise!Next
<1>4. CASE \E d \in Packets : ReceiveData(d) \/ PutData(d)
  <2>1. PICK d \in Packets : Satisfy(d)
    BY <1>4 DEF ReceiveData, PutData
  <2>2. /\ MatchesData(d) \in SUBSET table /\ "onData" \in Outcomes
        /\ Extract(MatchesData(d)) /\ Dispatch("onData", MatchesData(d), 0)
        /\ UNCHANGED <<calls, silenced, onConnectedCallbacks, flushed>>
    BY <2>1 DEF Satisfy, frameOnly, MatchesData, Outcomes
  <2> QED BY <1>3, <2>2
<1>5. CASE \E wire \in Wires : ReceiveNack(wire)
  <2>1. PICK wire \in Wires : ReceiveNack(wire)
    BY <1>5
  <2>2. /\ MatchesNack(wire) \in SUBSET table /\ "onNetworkNack" \in Outcomes
        /\ Extract(MatchesNack(wire)) /\ Dispatch("onNetworkNack", MatchesNack(wire), 0)
        /\ UNCHANGED <<calls, silenced, onConnectedCallbacks, flushed>>
    BY <2>1 DEF ReceiveNack, frameOnly, MatchesNack, Outcomes
  <2> QED BY <1>3, <2>2
<1>6. CASE \E interest \in Interests : ReceiveInterest(interest)
  <2>1. PICK interest \in Interests : ReceiveInterest(interest)
    BY <1>6
  <2>2. Extracted' = Extracted
    BY <1>1, <2>1, MatchTypes, LoopbackKinds, DispatchExtracts DEF ReceiveInterest, IInv
  <2>3. UNCHANGED <<table, isRemoved, calls, silenced, onConnectedCallbacks, flushed>>
    BY <2>1 DEF ReceiveInterest, pitVars, frameOnly
  <2>4. \A id \in Ids : StateOf(id)' = StateOf(id)
    BY <2>2, <2>3, StateStays DEF Queued
  <2> QED BY <2>4, Stutters
<1>7. CASE \E id \in Ids : ProcessInterestTimeout(id)
  <2>1. PICK id \in Ids : ProcessInterestTimeout(id)
    BY <1>7
  <2> DEFINE ids == IF RemovesEntry(id) THEN {id} ELSE {}
             to == IF RemovesEntry(id) /\ interestOf[id].onTimeout THEN {id} ELSE {}
  <2>2. /\ ids \in SUBSET table /\ "onTimeout" \in Outcomes
        /\ Extract(ids) /\ Dispatch("onTimeout", to, 0)
        /\ UNCHANGED <<calls, silenced, onConnectedCallbacks, flushed>>
    BY <2>1 DEF ProcessInterestTimeout, Outcomes, RemovesEntry
  <2>3. \/ to = ids
        \/ ids = {id} /\ to = {}
    OBVIOUS
  <2> HIDE DEF ids, to
  <2>4. CASE to = ids
    BY <1>3, <2>2, <2>4
  <2>5. CASE ids = {id} /\ to = {}
    <3>1. to \in SUBSET Ids /\ to \cap Extracted = {} /\ "onTimeout" \in Kinds
      BY <2>5, LoopbackKinds
    <3>2. Extracted' = Extracted /\ id \in table
      <4>1. Extracted' = Extracted \cup to
        BY <1>1, <2>2, <3>1, DispatchExtracts
      <4> QED BY <2>2, <2>5, <4>1
    <3>3. id \notin Extracted'
      BY <1>1, <3>2
    <3>4. Promise!Remove(id)
      BY <1>2, <2>2, <2>5, <3>2, <3>3, MovesAre DEF Promise!Remove
    <3> QED BY <3>4 DEF Promise!Next
  <2> QED BY <2>3, <2>4, <2>5
<1> QED BY <1>4, <1>5, <1>6, <1>7

LEMMA CallKeepsPromise ==
  ASSUME IInv, IInv', NEW id \in Ids, Call(id)
  PROVE  [Promise!Next]_PromiseState
<1> DEFINE f == [Top EXCEPT !.todo = Top.todo \ {id}, !.busy = TRUE]
<1>1. /\ stack \in Seq(Frames) /\ StackInv /\ stack # <<>> /\ Top \in Frames
      /\ Len(stack) \in DOMAIN stack /\ id \in Top.todo
      /\ calls \in [Ids -> Seq(Outcomes)]
  BY TopType DEF IInv, TypeOK, NodeTypeOK, Call
<1>2. /\ stack' = [stack EXCEPT ![Len(stack)] = f]
      /\ UNCHANGED <<table, isRemoved, onConnectedCallbacks, flushed, silenced>>
      /\ calls' = IF Top.kind \in Outcomes
                  THEN [calls EXCEPT ![id] = Append(calls[id], Top.kind)] ELSE calls
  BY DEF Call, pitVars
<1>3. /\ f \in Frames /\ f.kind = Top.kind /\ f.todo = Top.todo \ {id}
  BY <1>1 DEF Frames
<1> HIDE DEF f
<1>4. Extracted' = IF Top.kind \in Outcomes THEN Extracted \ {id} ELSE Extracted
  BY <1>1, <1>2, <1>3, TopExtracts
<1>5. \A other \in Ids : Queued(other)' <=> Queued(other)
  BY <1>2 DEF Queued
<1>6. CASE Top.kind \in Outcomes
  <2>1. id \in Extracted
    BY <1>1, <1>6 DEF Extracted, Top
  <2>2. StateOf(id) = "chosen"
    BY <2>1 DEF IInv, TableInv, StateOf
  <2>3. calls'[id] # <<>> /\ Len(calls'[id]) <= 1
    <3>1. calls[id] = <<>> /\ calls'[id] = Append(calls[id], Top.kind)
      BY <1>1, <1>2, <1>6, <2>1 DEF IInv, TableInv
    <3> QED BY <3>1
  <2>4. StateOf(id)' = "told"
    BY <1>4, <1>6, <2>3 DEF StateOf
  <2>5. \A other \in Ids \ {id} : StateOf(other)' = StateOf(other)
    BY <1>1, <1>2, <1>4, <1>5, <1>6, StateStays
  <2>6. Promise!Tell(id)
    BY <2>2, <2>4, <2>5, MovesAre DEF Promise!Tell
  <2> QED BY <2>6 DEF Promise!Next
<1>7. CASE Top.kind \notin Outcomes
  <2>1. \A other \in Ids : StateOf(other)' = StateOf(other)
    BY <1>2, <1>4, <1>5, <1>7, StateStays
  <2> QED BY <2>1, Stutters
<1> QED BY <1>6, <1>7

LEMMA RemoveKeepsPromise ==
  ASSUME IInv, IInv', NEW id \in Ids, RemovePendingInterest(id)
  PROVE  [Promise!Next]_PromiseState
<1>1. /\ UNCHANGED <<onConnectedCallbacks, flushed, calls, stack>>
      /\ silenced' = IF id \in Extracted \/ calls[id] # <<>> THEN silenced
                     ELSE silenced \cup {id}
      /\ \A other \in Ids \ {id} : /\ other \in table' <=> other \in table
                                   /\ other \in isRemoved' <=> other \in isRemoved
  BY DEF RemovePendingInterest, PitRemove
<1>2. /\ Extracted' = Extracted
      /\ \A other \in Ids : Queued(other)' <=> Queued(other)
  BY <1>1 DEF Extracted, Queued
<1>3. \A other \in Ids \ {id} : StateOf(other)' = StateOf(other)
  BY <1>1, <1>2, StateStays
<1>4. CASE id \in Extracted \/ calls[id] # <<>>
  <2>1. StateOf(id)' = StateOf(id)
    BY <1>1, <1>2, <1>4 DEF StateOf
  <2> QED BY <1>3, <2>1, Stutters
<1>5. CASE id \notin Extracted /\ calls[id] = <<>>
  <2>1. StateOf(id)' = "removed"
    BY <1>1, <1>5 DEF IInv, RemovedStaysSilent, StateOf
  <2>2. StateOf(id) \in {"removed", "pending", "unused"}
    BY <1>5 DEF StateOf
  <2>3. CASE StateOf(id) = "removed"
    BY <1>3, <2>1, <2>3, Stutters
  <2>4. CASE StateOf(id) = "pending"
    <3>1. Promise!Remove(id)
      BY <1>3, <2>1, <2>4, MovesAre DEF Promise!Remove
    <3> QED BY <3>1 DEF Promise!Next
  <2>5. CASE StateOf(id) = "unused"
    <3>1. Promise!Forget(id)
      BY <1>3, <2>1, <2>5, MovesAre DEF Promise!Forget
    <3> QED BY <3>1 DEF Promise!Next
  <2> QED BY <2>2, <2>3, <2>4, <2>5
<1> QED BY <1>4, <1>5

LEMMA OtherKeepsPromise ==
  ASSUME IInv,
         \/ Connected \/ ConnectFails \/ Shutdown \/ CallbackReturns \/ UNCHANGED vars
         \/ \E id \in Ids : UnsetInterestFilter(id)
         \/ SetsFilter
  PROVE  UNCHANGED PromiseState
<1>1. \A id \in Ids : StateOf(id)' = StateOf(id)
  BY OtherExtracts, StateStays DEF Queued
<1> QED BY <1>1, Stutters

LEMMA InitKeepsPromise == Init => Promise!Init
<1> SUFFICES ASSUME Init PROVE Promise!Init
  OBVIOUS
<1>1. /\ table = {} /\ isRemoved = {} /\ silenced = {} /\ stack = <<>>
      /\ onConnectedCallbacks = <<>> /\ \A id \in Ids : calls[id] = <<>>
  BY DEF Init, PitInit
<1>2. \A id \in Ids : StateOf(id) = "unused"
  BY <1>1 DEF StateOf, Queued, Extracted
<1> QED BY <1>2 DEF Promise!Init

LEMMA LibraryKeepsPromise ==
  ASSUME IInv, IInv', LibraryStep
  PROVE  [Promise!Next]_PromiseState
BY FlushKeepsPromise, ReceiveKeepsPromise, CallKeepsPromise, OtherKeepsPromise
DEF LibraryStep

(* The Node implements the promise of the Face: whatever its handlers and  *)
(* the application's calls do and in which order, each step of the Node    *)
(* moves the Interests it concerns as InterestPromise allows, or none.     *)
THEOREM NodeKeepsPromise == Spec => KeepsPromise
<1>1. IInv /\ IInv' /\ [Next]_vars => [Promise!Next]_PromiseState
  <2> SUFFICES ASSUME IInv, IInv', [Next]_vars PROVE [Promise!Next]_PromiseState
    OBVIOUS
  <2>1. CASE LibraryStep
    BY <2>1, LibraryKeepsPromise
  <2>2. CASE AppCall
    BY <2>2, ExpressKeepsPromise, ReceiveKeepsPromise, RemoveKeepsPromise,
       OtherKeepsPromise, SetFilterTakesId
    DEF AppCall, IInv
  <2> QED BY <2>1, <2>2, OtherKeepsPromise DEF Next
<1> QED BY <1>1, InitKeepsPromise, Inductive, PTL
        DEF Spec, KeepsPromise, Promise!Spec, PromiseState

-----------------------------------------------------------------------------
(* ThreadsafeFace: what the Node has not seen it does not see before the   *)
(* io_service runs the method.                                             *)

LEMMA UnseenFollows ==
  ASSUME NEW e \in Ids, Unseen(e), stack \in Seq(Frames), NEW new, e \notin new,
         table' \cup isRemoved' \cup Extracted' \subseteq
           table \cup isRemoved \cup Extracted \cup new,
         Returning' \subseteq Returning \cup new,
         e \in removeRequests' <=> e \in silenced',
         \A k \in DOMAIN onConnectedCallbacks' :
           \/ onConnectedCallbacks'[k] \in new
           \/ /\ k \in DOMAIN onConnectedCallbacks
              /\ onConnectedCallbacks'[k] = onConnectedCallbacks[k]
  PROVE  Unseen(e)'
<1>1. e \notin Returning /\ e # 0
  BY DEF Unseen, Returning, Ids
<1>2. e \notin Returning'
  BY <1>1
<1>3. \A i \in DOMAIN stack' : stack'[i].id # e
  BY <1>1, <1>2 DEF Returning
<1> QED BY <1>3 DEF Unseen

LEMMA NodeExpressUnseen ==
  ASSUME IInv, NEW id \in Ids, NEW interest \in Interests,
         NodeExpressInterest(id, interest), NEW e \in Ids \ {id}, Unseen(e)
  PROVE  Unseen(e)'
<1>1. /\ id \in 0 .. MaxEntryId /\ stack \in Seq(Frames) /\ StackInv
      /\ onConnectedCallbacks \in Seq(Ids) /\ e \notin {id}
      /\ e \in removeRequests <=> e \in silenced
  BY IdsInRange DEF IInv, TypeOK, NodeTypeOK, Unseen
<1>2. CASE ExpressConnected(id, interest) \/ ExpressConnecting(id, interest)
  <2>1. PICK end, kind :
          /\ kind \in {"loopback", "connectLoopback"}
          /\ Helper(id, interest, end)
          /\ Dispatch(kind, LoopbackTo(interest, end), id)
          /\ UNCHANGED <<onConnectedCallbacks, flushed>>
    <3>1. CASE ExpressConnected(id, interest)
      BY <3>1 DEF ExpressConnected
    <3>2. CASE ExpressConnecting(id, interest)
      BY <3>2 DEF ExpressConnecting
    <3> QED BY <1>2, <3>1, <3>2
  <2>2. LoopbackTo(interest, end) \in SUBSET Ids /\ kind \in Kinds /\ kind \notin Outcomes
    BY <2>1, MatchTypes, LoopbackKinds DEF IInv
  <2>3. Extracted' = Extracted /\ Returning' \subseteq Returning \cup {id}
    BY <1>1, <2>1, <2>2, DispatchExtracts, DispatchReturning
  <2>4. /\ isRemoved' = isRemoved /\ silenced' = silenced
        /\ table' \subseteq table \cup {id}
        /\ e \in removeRequests' <=> e \in removeRequests
    BY <2>1 DEF Helper, Add, IsRemoveRequested
  <2> QED BY <1>1, <2>1, <2>3, <2>4, UnseenFollows
<1>3. CASE ExpressConnectFails \/ ExpressQueued(id)
  <2>1. /\ UNCHANGED <<table, isRemoved, removeRequests, silenced, stack>>
        /\ \/ onConnectedCallbacks' = onConnectedCallbacks
           \/ onConnectedCallbacks' = Append(onConnectedCallbacks, id)
    BY <1>3 DEF ExpressConnectFails, ExpressQueued
  <2>2. Extracted' = Extracted /\ Returning' = Returning
    BY <2>1 DEF Extracted, Returning
  <2>3. ASSUME NEW k \in DOMAIN onConnectedCallbacks'
        PROVE  \/ onConnectedCallbacks'[k] \in {id}
               \/ /\ k \in DOMAIN onConnectedCallbacks
                  /\ onConnectedCallbacks'[k] = onConnectedCallbacks[k]
    BY <1>1, <2>1
  <2> QED BY <1>1, <2>1, <2>2, <2>3, UnseenFollows
<1> QED BY <1>2, <1>3 DEF NodeExpressInterest

LEMMA FlushUnseen ==
  ASSUME IInv, FlushOne \/ FlushThrows \/ FlushDone, NEW e \in Ids, Unseen(e)
  PROVE  Unseen(e)'
<1>1. /\ stack \in Seq(Frames) /\ stack # <<>> /\ StackInv /\ Top.kind \notin Outcomes
      /\ onConnectedCallbacks \in Seq(Ids) /\ flushed \in Nat
      /\ e \in removeRequests <=> e \in silenced
  BY LoopbackKinds
  DEF IInv, TypeOK, NodeTypeOK, FlushOne, FlushThrows, FlushDone, InOnConnected, Unseen
<1>2. ASSUME stack' = Pop
      PROVE  Extracted' = Extracted /\ Returning' \subseteq Returning
  BY <1>1, <1>2, PopExtracts, PopReturning
<1>3. CASE FlushDone
  <2>1. /\ stack' = Pop /\ onConnectedCallbacks' = <<>> /\ e \notin {}
        /\ UNCHANGED <<table, isRemoved, removeRequests, silenced>>
    BY <1>3 DEF FlushDone, pitVars
  <2> QED BY <1>1, <1>2, <2>1, UnseenFollows
<1>4. CASE FlushOne \/ FlushThrows
  <2>1. /\ flushed < Len(onConnectedCallbacks)
        /\ UNCHANGED onConnectedCallbacks
    BY <1>4 DEF FlushOne, FlushThrows
  <2>2. PICK id \in Ids : id = NextQueued /\ id # e
    <3>1. flushed + 1 \in DOMAIN onConnectedCallbacks
      BY <1>1, <2>1
    <3>2. onConnectedCallbacks[flushed + 1] \in Ids
      BY <1>1, <3>1
    <3> QED BY <3>1, <3>2 DEF NextQueued, Unseen
  <2>3. PICK end : /\ Helper(id, interestOf[id], end)
                   /\ \/ Dispatch("loopback", LoopbackTo(interestOf[id], end), id)
                      \/ stack' = Pop
    BY <1>4, <2>2 DEF FlushOne, FlushThrows
  <2>4. Extracted' = Extracted /\ Returning' \subseteq Returning \cup {id}
    <3>1. /\ LoopbackTo(interestOf[id], end) \in SUBSET Ids /\ id \in 0 .. MaxEntryId
          /\ "loopback" \in Kinds /\ "loopback" \notin Outcomes
      BY IdsInRange, MatchTypes, LoopbackKinds DEF IInv
    <3> QED BY <1>1, <1>2, <2>3, <3>1, DispatchExtracts, DispatchReturning
  <2>5. /\ isRemoved' = isRemoved /\ silenced' = silenced
        /\ table' \subseteq table \cup {id} /\ e \notin {id}
        /\ e \in removeRequests' <=> e \in removeRequests
    BY <2>2, <2>3 DEF Helper, Add, IsRemoveRequested
  <2> QED BY <1>1, <2>1, <2>4, <2>5, UnseenFollows
<1> QED BY <1>3, <1>4

LEMMA ReceiveUnseen ==
  ASSUME IInv, NEW e \in Ids, Unseen(e),
         \/ \E d \in Packets : ReceiveData(d) \/ PutData(d)
         \/ \E wire \in Wires : ReceiveNack(wire)
         \/ \E interest \in Interests : ReceiveInterest(interest)
         \/ \E id \in Ids : ProcessInterestTimeout(id)
  PROVE  Unseen(e)'
<1>1. /\ stack \in Seq(Frames) /\ StackInv /\ e \notin {}
      /\ e \in removeRequests <=> e \in silenced
      /\ 0 \in 0 .. MaxEntryId /\ table \subseteq Ids /\ table \cap Extracted = {}
  BY PendingInterestAssumption DEF IInv, TypeOK, PitTypeOK, NodeTypeOK, TableInv, Unseen
<1>2. /\ UNCHANGED <<removeRequests, silenced, onConnectedCallbacks>>
      /\ table' \cup isRemoved' \subseteq table \cup isRemoved
  BY DEF ReceiveData, PutData, Satisfy, MatchesData, ReceiveNack, MatchesNack, ReceiveInterest,
         ProcessInterestTimeout, RemovesEntry, Extract, frameOnly, pitVars
<1>3. PICK kind \in {"onData", "onNetworkNack", "onInterest", "onTimeout"},
           to \in SUBSET Ids :
        Dispatch(kind, to, 0) /\ (kind \in Outcomes => to \subseteq table)
  <2>1. CASE \E d \in Packets : ReceiveData(d) \/ PutData(d)
    BY <1>1, <2>1 DEF ReceiveData, PutData, Satisfy, MatchesData
  <2>2. CASE \E wire \in Wires : ReceiveNack(wire)
    BY <1>1, <2>2 DEF ReceiveNack, MatchesNack
  <2>3. CASE \E interest \in Interests : ReceiveInterest(interest)
    BY <2>3, MatchTypes, LoopbackKinds DEF ReceiveInterest, IInv
  <2>4. CASE \E id \in Ids : ProcessInterestTimeout(id)
    BY <2>4 DEF ProcessInterestTimeout, RemovesEntry
  <2> QED BY <2>1, <2>2, <2>3, <2>4
<1>4. Extracted' \subseteq Extracted \cup table /\ Returning' \subseteq Returning
  BY <1>1, <1>3, LoopbackKinds, DispatchExtracts, DispatchReturning
<1> QED BY <1>1, <1>2, <1>4, UnseenFollows

LEMMA CallUnseen ==
  ASSUME IInv, NEW id \in Ids, Call(id), NEW e \in Ids, Unseen(e)
  PROVE  Unseen(e)'
<1> DEFINE f == [Top EXCEPT !.todo = Top.todo \ {id}, !.busy = TRUE]
<1>1. /\ stack \in Seq(Frames) /\ StackInv /\ stack # <<>> /\ Top \in Frames
      /\ e \notin {} /\ (e \in removeRequests <=> e \in silenced)
  BY TopType DEF IInv, TypeOK, NodeTypeOK, Call, Unseen
<1>2. /\ stack' = [stack EXCEPT ![Len(stack)] = f]
      /\ UNCHANGED <<table, isRemoved, removeRequests, onConnectedCallbacks, silenced>>
  BY DEF Call, pitVars
<1>3. /\ f \in Frames /\ f.kind = Top.kind /\ f.id = Top.id /\ f.todo \subseteq Top.todo
  BY <1>1 DEF Frames
<1> HIDE DEF f
<1>4. Extracted' \subseteq Extracted /\ Returning' \subseteq Returning
  BY <1>1, <1>2, <1>3, TopExtracts, TopReturning
<1>5. /\ table' \cup isRemoved' \cup Extracted' \subseteq
           table \cup isRemoved \cup Extracted \cup {}
      /\ Returning' \subseteq Returning \cup {}
      /\ e \in removeRequests' <=> e \in silenced'
  BY <1>1, <1>2, <1>4
<1> QED BY <1>1, <1>2, <1>5, UnseenFollows

LEMMA OtherUnseen ==
  ASSUME IInv, NEW e \in Ids, Unseen(e),
         \/ Connected \/ ConnectFails \/ Shutdown \/ CallbackReturns \/ UNCHANGED vars
         \/ \E id \in Ids : UnsetInterestFilter(id)
         \/ SetsFilter
  PROVE  Unseen(e)'
<1>1. stack \in Seq(Frames) /\ e \notin {} /\ (e \in removeRequests <=> e \in silenced)
  BY DEF IInv, TypeOK, NodeTypeOK, Unseen
<1> QED BY <1>1, OtherExtracts, UnseenFollows

(* A request to remove it may come first.                                  *)
LEMMA RemoveUnseen ==
  ASSUME IInv, NEW id \in Ids, RemovePendingInterest(id), NEW e \in Ids, Unseen(e)
  PROVE  Unseen(e)'
<1>1. /\ stack \in Seq(Frames) /\ e \notin table /\ e \notin Extracted /\ e \notin {}
      /\ calls[e] = <<>> /\ (e \in removeRequests <=> e \in silenced)
  BY UnseenHeld DEF IInv, TypeOK, NodeTypeOK, Unseen
<1>2. /\ UNCHANGED <<stack, onConnectedCallbacks>>
      /\ table' \cup isRemoved' \subseteq table \cup isRemoved
      /\ e \in removeRequests' <=> e \in silenced'
  BY <1>1 DEF RemovePendingInterest, PitRemove
<1>3. Extracted' = Extracted /\ Returning' = Returning
  BY <1>2 DEF Extracted, Returning
<1> QED BY <1>1, <1>2, <1>3, UnseenFollows

-----------------------------------------------------------------------------
(* What a step of the Node does, as ThreadsafeFace sees it; `new` holds    *)
(* the ID of the expressInterest which the io_service runs.                *)
NodeMoves(new) ==
  /\ IInv' /\ lastEntryId' \in Nat /\ lastEntryId <= lastEntryId'
  /\ KeepsHeld
  /\ \A e \in Ids \ new : (Unseen(e) /\ e <= lastEntryId) => Unseen(e)'

LEMMA IInvTypes ==
  ASSUME IInv
  PROVE  lastEntryId \in Nat /\ TypeOK /\ Ids \subseteq Nat
BY PendingInterestAssumption DEF IInv, TypeOK, NodeTypeOK, Ids

LEMMA StillMoves ==
  ASSUME IInv, UNCHANGED vars
  PROVE  NodeMoves({})
<1>1. IInv'
  BY NextIInv
<1>2. lastEntryId' = lastEntryId
  BY DEF vars, nodeVars
<1>3. \A e \in Ids : Unseen(e) => Unseen(e)'
  BY OtherUnseen
<1>4. KeepsHeld
  BY OtherHolds
<1>5. lastEntryId' \in Nat /\ lastEntryId <= lastEntryId'
  BY <1>2, IInvTypes
<1> QED BY <1>1, <1>2, <1>3, <1>4, <1>5 DEF NodeMoves

LEMMA LibraryMoves ==
  ASSUME IInv, LibraryStep
  PROVE  NodeMoves({})
<1>1. IInv'
  BY NextIInv DEF Next
<1>2. lastEntryId' = lastEntryId
  <2>1. CASE FlushOne \/ FlushThrows \/ FlushDone
    BY <2>1 DEF FlushOne, FlushThrows, FlushDone
  <2>2. CASE ~(FlushOne \/ FlushThrows \/ FlushDone)
    BY <2>2 DEF LibraryStep, Connected, ConnectFails, CallbackReturns, ProcessInterestTimeout,
                Call, ReceiveData, Satisfy, ReceiveNack, ReceiveInterest, frameOnly
  <2> QED BY <2>1, <2>2
<1>3. \A e \in Ids : Unseen(e) => Unseen(e)'
  <2> SUFFICES ASSUME NEW e \in Ids, Unseen(e) PROVE Unseen(e)'
    OBVIOUS
  <2> QED BY FlushUnseen, ReceiveUnseen, CallUnseen, OtherUnseen DEF LibraryStep
<1>4. KeepsHeld
  BY FlushHolds, ReceiveHolds, CallHolds, OtherHolds DEF LibraryStep
<1>5. lastEntryId' \in Nat /\ lastEntryId <= lastEntryId'
  BY <1>2, IInvTypes
<1> QED BY <1>1, <1>2, <1>3, <1>4, <1>5 DEF NodeMoves

(* The calls that take no ID.                                              *)
LEMMA PlainCallMoves ==
  ASSUME IInv,
         \/ \E id \in Ids : RemovePendingInterest(id) \/ UnsetInterestFilter(id)
         \/ \E d \in Packets : PutData(d)
         \/ Shutdown
  PROVE  NodeMoves({})
<1>1. IInv'
  BY NextIInv DEF Next, AppCall
<1>2. lastEntryId' = lastEntryId
  BY DEF RemovePendingInterest, UnsetInterestFilter, PutData, Satisfy, Shutdown, frameOnly
<1>3. \A e \in Ids : Unseen(e) => Unseen(e)'
  BY RemoveUnseen, ReceiveUnseen, OtherUnseen
<1>4. KeepsHeld
  BY RemoveHolds, ReceiveHolds, OtherHolds
<1>5. lastEntryId' \in Nat /\ lastEntryId <= lastEntryId'
  BY <1>2, IInvTypes
<1> QED BY <1>1, <1>2, <1>3, <1>4, <1>5 DEF NodeMoves

(* In a callback the ID is taken and used at once.                         *)
LEMMA CallbackMoves ==
  ASSUME IInv, AppCallInCallback
  PROVE  NodeMoves({})
<1>1. IInv'
  BY NextIInv DEF Next, AppCall, AppCallInCallback
<1>2. CASE \E interest \in Interests : ExpressInterest(interest)
  <2>1. PICK interest \in Interests, id \in Ids :
          GetNextEntryId(id) /\ NodeExpressInterest(id, interest)
    BY <1>2 DEF ExpressInterest
  <2>2. /\ lastEntryId' \in Nat /\ lastEntryId <= lastEntryId'
        /\ \A e \in Ids : e <= lastEntryId => e # id
    BY <2>1, IInvTypes DEF GetNextEntryId
  <2>3. \A e \in Ids : (Unseen(e) /\ e <= lastEntryId) => Unseen(e)'
    BY <2>1, <2>2, NodeExpressUnseen
  <2>4. KeepsHeld
    BY <1>2, ExpressHolds
  <2> QED BY <1>1, <2>2, <2>3, <2>4 DEF NodeMoves
<1>3. CASE \E prefix \in Prefixes : SetInterestFilter(prefix)
  <2>1. PICK prefix \in Prefixes, id \in Ids :
          GetNextEntryId(id) /\ NodeSetInterestFilter(id, prefix)
    BY <1>3 DEF SetInterestFilter
  <2>2. SetsFilter
    BY <2>1 DEF SetsFilter
  <2>3. \A e \in Ids : Unseen(e) => Unseen(e)'
    BY <2>2, OtherUnseen
  <2>4. KeepsHeld
    BY <2>2, OtherHolds
  <2>5. lastEntryId' \in Nat /\ lastEntryId <= lastEntryId'
    BY <2>1, IInvTypes DEF GetNextEntryId
  <2> QED BY <1>1, <2>3, <2>4, <2>5 DEF NodeMoves
<1>4. CASE ~(\/ \E interest \in Interests : ExpressInterest(interest)
             \/ \E prefix \in Prefixes : SetInterestFilter(prefix))
  BY <1>4, PlainCallMoves DEF AppCallInCallback
<1> QED BY <1>2, <1>3, <1>4

LEMMA UnsetMoves ==
  ASSUME IInv, NEW id \in Ids, Unset(id)
  PROVE  NodeMoves({})
BY PlainCallMoves, StillMoves DEF Unset

LEMMA CallTypes ==
  /\ \A call \in Makings : call \in Calls /\ Makes(call) /\ call.id \in Ids
  /\ \A call \in Calls : /\ Makes(call) => call \in Makings
                         /\ call.method \in {"removePendingInterest", "unsetInterestFilter"}
                              => call.id \in Ids
<1>1. ASSUME NEW call \in Makings
      PROVE  call \in Calls /\ Makes(call) /\ call.id \in Ids
  BY DEF Makings, Calls, Makes
<1>2. ASSUME NEW call \in Calls, Makes(call)
      PROVE  call \in Makings
  BY <1>2 DEF Calls, Makes
<1>3. ASSUME NEW call \in Calls,
             call.method \in {"removePendingInterest", "unsetInterestFilter"}
      PROVE  call.id \in Ids
  BY <1>3 DEF Calls, Makings
<1> QED BY <1>1, <1>2, <1>3

(* The methods which take no ID and unset no filter.                       *)
LEMMA OtherMethods ==
  ASSUME NEW call \in Calls, NodeMethod(call),
         call.method \in {"removePendingInterest", "putData", "shutdown"}
  PROVE  \/ UNCHANGED vars
         \/ \E id \in Ids : RemovePendingInterest(id)
         \/ \E d \in Packets : PutData(d)
         \/ Shutdown
<1>1. CASE call.method = "removePendingInterest"
  BY <1>1, CallTypes DEF NodeMethod
<1>2. CASE call.method = "putData"
  <2>1. call.data \in Packets
    BY <1>2 DEF Calls, Makings
  <2> QED BY <1>2, <2>1 DEF NodeMethod
<1>3. CASE call.method = "shutdown"
  BY <1>3 DEF NodeMethod
<1> QED BY <1>1, <1>2, <1>3

(* The method which the io_service runs.                                   *)
LEMMA MethodMoves ==
  ASSUME IInv, NEW call \in Calls, NodeMethod(call),
         Makes(call) => Unseen(call.id) /\ call.id <= lastEntryId
  PROVE  /\ NodeMoves(IF call.method = "expressInterest" THEN {call.id} ELSE {})
         /\ call.method = "expressInterest" => HeldStep({call.id}) \/ ExpressConnectFails
         /\ unset' = unset \/ (call.id \in Ids /\ unset' = unset \cup {call.id})
<1>1. CASE call.method = "expressInterest"
  <2>1. call \in Makings
    BY <1>1, CallTypes DEF Makes
  <2>2. call.id \in Ids /\ call.interest \in Interests
    BY <1>1, <2>1 DEF Makings
  <2>3. /\ NodeExpressInterest(call.id, call.interest)
        /\ UNCHANGED <<lastEntryId, unset>>
    BY <1>1 DEF NodeMethod
  <2>4. Unseen(call.id) /\ call.id <= lastEntryId
    BY <1>1 DEF Makes
  <2>5. /\ CounterGrows /\ call.id <= lastEntryId' /\ lastEntryId' \in Nat
        /\ lastEntryId <= lastEntryId'
    BY <2>3, <2>4, IInvTypes DEF CounterGrows, TypeOK, NodeTypeOK
  <2>6. IInv'
    BY <2>2, <2>3, <2>4, <2>5, NodeExpressKeeps
  <2>7. KeepsHeld /\ (HeldStep({call.id}) \/ ExpressConnectFails)
    BY <2>2, <2>3, <2>4, NodeExpressHolds
  <2>8. \A e \in Ids \ {call.id} : Unseen(e) => Unseen(e)'
    BY <2>2, <2>3, NodeExpressUnseen
  <2>9. NodeMoves({call.id})
    BY <2>5, <2>6, <2>7, <2>8 DEF NodeMoves
  <2> QED BY <1>1, <2>3, <2>7, <2>9
<1>2. CASE call.method = "setInterestFilter"
  <2>1. call \in Makings
    BY <1>2, CallTypes DEF Makes
  <2>2. call.id \in Ids /\ call.prefix \in Prefixes
    BY <1>2, <2>1 DEF Makings
  <2>3. /\ NodeSetInterestFilter(call.id, call.prefix)
        /\ UNCHANGED <<lastEntryId, unset>>
    BY <1>2 DEF NodeMethod
  <2>4. SetsFilter /\ CounterGrows /\ lastEntryId' \in Nat /\ lastEntryId <= lastEntryId'
    BY <2>2, <2>3, IInvTypes DEF SetsFilter, CounterGrows, TypeOK, NodeTypeOK
  <2>5. IInv'
    BY <2>4, OtherKeeps
  <2>6. \A e \in Ids : Unseen(e) => Unseen(e)'
    BY <2>4, OtherUnseen
  <2>7. KeepsHeld
    BY <2>4, OtherHolds
  <2>8. NodeMoves({})
    BY <2>4, <2>5, <2>6, <2>7 DEF NodeMoves
  <2> QED BY <1>2, <2>3, <2>8
<1>3. CASE call.method = "unsetInterestFilter"
  <2>1. call.id \in Ids /\ Unset(call.id) /\ unset' = unset \cup {call.id}
    BY <1>3, CallTypes DEF NodeMethod
  <2> QED BY <1>3, <2>1, UnsetMoves
<1>4. CASE call.method \in {"removePendingInterest", "putData", "shutdown"}
  <2>1. unset' = unset
    BY <1>4 DEF NodeMethod
  <2>2. NodeMoves({})
    BY <1>4, OtherMethods, StillMoves, PlainCallMoves
  <2> QED BY <1>4, <2>1, <2>2
<1>5. call.method \in {"expressInterest", "setInterestFilter", "removePendingInterest",
                       "unsetInterestFilter", "putData", "shutdown"}
  BY DEF Calls, Makings
<1> QED BY <1>1, <1>2, <1>3, <1>4, <1>5

-----------------------------------------------------------------------------
(* FaceInv is inductive.                                                   *)

LEMMA HeadTail ==
  ASSUME NEW S, NEW s \in Seq(S), s # <<>>
  PROVE  /\ 1 \in DOMAIN s /\ Head(s) = s[1] /\ Head(s) \in S /\ Tail(s) \in Seq(S)
         /\ \A k \in DOMAIN Tail(s) : /\ k + 1 \in DOMAIN s /\ Tail(s)[k] = s[k + 1]
                                     /\ k \in Nat /\ k + 1 > 1
         /\ \A k \in DOMAIN s : k = 1 \/ (k - 1 \in DOMAIN Tail(s) /\ Tail(s)[k - 1] = s[k])
OBVIOUS

LEMMA AppendOne ==
  ASSUME NEW S, NEW s \in Seq(S), NEW x \in S, NEW t, t = Append(s, x)
  PROVE  \E n \in Nat :
           /\ t \in Seq(S) /\ DOMAIN t = DOMAIN s \cup {n} /\ n \notin DOMAIN s /\ t[n] = x
           /\ \A k \in DOMAIN s : k \in Nat /\ k < n /\ t[k] = s[k]
<1> DEFINE n == Len(s) + 1
<1>1. n \in Nat /\ t \in Seq(S) /\ t[n] = x
  OBVIOUS
<1>2. DOMAIN t = DOMAIN s \cup {n} /\ n \notin DOMAIN s
  OBVIOUS
<1>3. \A k \in DOMAIN s : k \in Nat /\ k < n /\ t[k] = s[k]
  OBVIOUS
<1> QED BY <1>1, <1>2, <1>3

LEMMA MakingTypes ==
  ASSUME FaceTypeOK
  PROVE  /\ \A t \in Threads : \A call \in making[t] : call \in Makings /\ call.id \in Ids
         /\ \A k \in DOMAIN waiting : waiting[k] \in Calls
         /\ \A k \in DOMAIN waiting : Makes(waiting[k]) => waiting[k].id \in Ids
<1>1. \A t \in Threads : making[t] \subseteq Makings
  BY DEF FaceTypeOK
<1>2. \A k \in DOMAIN waiting : waiting[k] \in Calls
  BY DEF FaceTypeOK
<1> QED BY <1>1, <1>2, CallTypes

(* Steps of the Node while the calls of the threads stay as they are.      *)
LEMMA MovesKeepFace ==
  ASSUME FaceInv, NodeMoves({}), UNCHANGED <<making, waiting>>,
         filterIds' \subseteq Ids, unset' \subseteq Ids
  PROVE  FaceInv'
<1>1. /\ IInv' /\ lastEntryId \in Nat /\ lastEntryId' \in Nat /\ lastEntryId <= lastEntryId'
      /\ Ids \subseteq Nat
      /\ \A e \in Ids : (Unseen(e) /\ e <= lastEntryId) => Unseen(e)'
  BY IInvTypes DEF NodeMoves, FaceInv
<1>2. FaceTypeOK'
  BY <1>1 DEF FaceInv, FaceTypeOK, IInv
<1>3. OwnerInv'
  BY DEF FaceInv, OwnerInv
<1>4. \A e \in Ids : e <= lastEntryId => e <= lastEntryId'
  BY <1>1
<1>5. ComingInv'
  BY <1>1, <1>4, MakingTypes DEF FaceInv, ComingInv
<1> QED BY <1>1, <1>2, <1>3, <1>5 DEF FaceInv

LEMMA TakeIdKeepsFace ==
  ASSUME FaceInv, NEW t \in Threads, TakeId(t)
  PROVE  FaceInv'
<1>1. PICK call \in Makings : GetNextEntryId(call.id) /\ making' = [making EXCEPT ![t] = {call}]
  BY DEF TakeId, TakesOwnId
<1>2. /\ call.id = lastEntryId + 1 /\ lastEntryId' = call.id /\ call.id \in Ids
      /\ lastEntryId \in Nat /\ Ids \subseteq Nat /\ lastEntryId <= lastEntryId'
      /\ \A n \in Nat : n <= lastEntryId => n <= lastEntryId' /\ n # call.id
  BY <1>1, IInvTypes DEF GetNextEntryId, FaceInv
<1>3. UNCHANGED <<table, older, isRemoved, removeRequests, interestOf, connectStatus,
                  onConnectedCallbacks, flushed, transport, connects, delayed, filter, stack,
                  known, sent, calls, silenced, waiting, filterIds, unset>>
  BY DEF TakeId, pitVars
<1>4. IInv'
  <2>1. TypeOK'
    <3>1. lastEntryId' \in 0 .. MaxEntryId
      BY <1>2, IdsInRange
    <3> QED BY <1>3, <3>1 DEF FaceInv, IInv, TypeOK, PitTypeOK, NodeTypeOK
  <2>2. FreshInv'
    <3>1. lastEntryId' \in Nat
      BY <1>2
    <3>2. /\ \A id \in table \cup isRemoved \cup removeRequests \cup silenced
                       \cup known \cup delayed : id <= lastEntryId'
          /\ \A k \in DOMAIN onConnectedCallbacks : onConnectedCallbacks[k] <= lastEntryId'
          /\ \A i \in DOMAIN stack : stack[i].id <= lastEntryId'
      BY <1>2, <3>1, FreshGrows DEF FaceInv, IInv
    <3> QED BY <1>3, <3>2 DEF FreshInv
  <2> QED BY <1>3, <2>1, <2>2
      DEF FaceInv, IInv, StackInv, TableInv, QueueInv, RemovedStaysSilent, PendingIsTimed,
          UsesTimer, Extracted
<1>5. \A e \in Ids : Unseen(e)' <=> Unseen(e)
  BY <1>3 DEF Unseen, Extracted
<1>6. Unseen(call.id)
  BY <1>2, FreshIsUnseen DEF FaceInv
<1>7. /\ making' \in [Threads -> SUBSET Makings] /\ making'[t] = {call}
      /\ \A u \in Threads \ {t} : making'[u] = making[u]
  BY <1>1 DEF FaceInv, FaceTypeOK
<1>8. \A u \in Threads : \A other \in making[u] : other.id \in Ids /\ other.id # call.id
  BY <1>2, MakingTypes DEF FaceInv, ComingInv
<1>9. \A k \in DOMAIN waiting : Makes(waiting[k]) => waiting[k].id \in Ids /\ waiting[k].id # call.id
  BY <1>2, MakingTypes DEF FaceInv, ComingInv
<1>10. FaceTypeOK'
  <2>1. \A u \in Threads : \A c, d \in making'[u] : c = d
    BY <1>7 DEF FaceInv, FaceTypeOK
  <2> QED BY <1>3, <1>4, <1>7, <2>1 DEF FaceInv, FaceTypeOK, IInv
<1>11. OwnerInv'
  BY <1>3, <1>7, <1>8, <1>9 DEF FaceInv, OwnerInv
<1>12. ComingInv'
  <2>1. ASSUME NEW u \in Threads, NEW other \in making'[u]
        PROVE  Unseen(other.id)' /\ other.id <= lastEntryId'
    <3>1. CASE u = t
      <4>1. other = call
        BY <1>7, <3>1
      <4> QED BY <1>2, <1>5, <1>6, <4>1
    <3>2. CASE u # t
      <4>1. other \in making[u]
        BY <1>7, <3>2
      <4> QED BY <1>2, <1>5, <1>8, <4>1 DEF FaceInv, ComingInv
    <3> QED BY <3>1, <3>2
  <2>2. ASSUME NEW k \in DOMAIN waiting, Makes(waiting[k])
        PROVE  \A e \in Ids : e = waiting[k].id => Unseen(e)' /\ e <= lastEntryId'
    <3>1. /\ waiting[k].id \in Ids /\ Unseen(waiting[k].id)
          /\ waiting[k].id <= lastEntryId
      BY <1>9, <2>2 DEF FaceInv, ComingInv
    <3> QED BY <1>2, <1>5, <3>1
  <2> QED BY <1>3, <1>9, <2>1, <2>2 DEF ComingInv
<1> QED BY <1>4, <1>10, <1>11, <1>12 DEF FaceInv

(* A call joins those that wait.                                           *)
LEMMA DispatchKeepsFace ==
  ASSUME FaceInv, NEW call \in Calls, waiting' = Append(waiting, call),
         making' \in [Threads -> SUBSET Makings],
         \A t \in Threads : making'[t] \subseteq making[t],
         Makes(call) => /\ \E t \in Threads : call \in making[t]
                        /\ \A t \in Threads : \A other \in making'[t] : other.id # call.id
                        /\ \A k \in DOMAIN waiting :
                             Makes(waiting[k]) => waiting[k].id # call.id,
         filterIds' \subseteq IF Makes(call) THEN filterIds \cup {call.id} ELSE filterIds,
         known' \subseteq IF Makes(call) THEN known \cup {call.id} ELSE known,
         UNCHANGED <<pitVars, lastEntryId, connectStatus, onConnectedCallbacks, flushed,
                     transport, connects, delayed, filter, stack, sent, calls, silenced, unset>>
  PROVE  FaceInv'
<1>1. PICK n \in Nat :
        /\ waiting' \in Seq(Calls) /\ DOMAIN waiting' = DOMAIN waiting \cup {n}
        /\ n \notin DOMAIN waiting /\ waiting'[n] = call
        /\ \A k \in DOMAIN waiting : k \in Nat /\ k < n /\ waiting'[k] = waiting[k]
  <2>1. waiting \in Seq(Calls)
    BY DEF FaceInv, FaceTypeOK
  <2> QED BY <2>1, AppendOne
<1>2. Makes(call) => /\ call.id \in Ids /\ Unseen(call.id) /\ call.id <= lastEntryId
  BY MakingTypes DEF FaceInv, ComingInv
<1>3. IInv'
  <2>1. known' \in SUBSET Ids /\ \A id \in known' : id <= lastEntryId
    BY <1>2 DEF FaceInv, IInv, FreshInv, TypeOK, NodeTypeOK
  <2> QED BY <2>1
      DEF FaceInv, IInv, TypeOK, PitTypeOK, NodeTypeOK, FreshInv, StackInv, TableInv, QueueInv,
          RemovedStaysSilent, PendingIsTimed, UsesTimer, Extracted, pitVars
<1>4. \A e \in Ids : Unseen(e)' <=> Unseen(e)
  BY DEF Unseen, Extracted, pitVars
<1>5. FaceTypeOK'
  <2>1. \A t \in Threads : \A c, d \in making'[t] : c = d
    BY DEF FaceInv, FaceTypeOK
  <2>2. filterIds' \in SUBSET Ids /\ unset' \in SUBSET Ids
    BY <1>2 DEF FaceInv, FaceTypeOK
  <2> QED BY <1>1, <1>3, <2>1, <2>2 DEF FaceTypeOK, IInv
<1>6. OwnerInv'
  <2>1. \A t, u \in Threads : \A c \in making'[t], d \in making'[u] : t # u => c.id # d.id
    BY DEF FaceInv, OwnerInv
  <2>2. ASSUME NEW t \in Threads, NEW k \in DOMAIN waiting', NEW c \in making'[t],
               Makes(waiting'[k])
        PROVE  waiting'[k].id # c.id
    <3>1. CASE k = n
      BY <1>1, <2>2, <3>1
    <3>2. CASE k \in DOMAIN waiting
      BY <1>1, <2>2, <3>2 DEF FaceInv, OwnerInv
    <3> QED BY <1>1, <3>1, <3>2
  <2>3. ASSUME NEW k \in DOMAIN waiting', NEW l \in DOMAIN waiting', k # l,
               Makes(waiting'[k]), Makes(waiting'[l])
        PROVE  waiting'[k].id # waiting'[l].id
    <3>1. CASE k = n
      BY <1>1, <2>3, <3>1
    <3>2. CASE l = n
      BY <1>1, <2>3, <3>2
    <3>3. CASE k \in DOMAIN waiting /\ l \in DOMAIN waiting
      BY <1>1, <2>3, <3>3 DEF FaceInv, OwnerInv
    <3> QED BY <1>1, <3>1, <3>2, <3>3
  <2> QED BY <2>1, <2>2, <2>3 DEF OwnerInv
<1>7. ComingInv'
  <2>1. ASSUME NEW t \in Threads, NEW c \in making'[t]
        PROVE  Unseen(c.id)' /\ c.id <= lastEntryId
    BY <1>4, MakingTypes DEF FaceInv, ComingInv
  <2>2. ASSUME NEW k \in DOMAIN waiting', Makes(waiting'[k])
        PROVE  \E e \in Ids : e = waiting'[k].id /\ Unseen(e)' /\ e <= lastEntryId
    <3>1. CASE k = n
      BY <1>1, <1>2, <1>4, <2>2, <3>1
    <3>2. CASE k \in DOMAIN waiting
      <4>1. Makes(waiting[k]) /\ waiting'[k] = waiting[k]
        BY <1>1, <2>2, <3>2
      <4>2. waiting[k].id \in Ids /\ Unseen(waiting[k].id) /\ waiting[k].id <= lastEntryId
        BY <3>2, <4>1, MakingTypes DEF FaceInv, ComingInv
      <4> QED BY <1>4, <4>1, <4>2
    <3> QED BY <1>1, <3>1, <3>2
  <2>3. ASSUME NEW k \in DOMAIN waiting', Makes(waiting[k])'
        PROVE  (Unseen(waiting[k].id) /\ waiting[k].id <= lastEntryId)'
    BY <2>2, <2>3
  <2>4. ASSUME NEW t \in Threads, NEW c \in making'[t]
        PROVE  (Unseen(c.id) /\ c.id <= lastEntryId)'
    BY <2>1
  <2> QED BY <2>3, <2>4 DEF ComingInv
<1> QED BY <1>3, <1>5, <1>6, <1>7 DEF FaceInv

LEMMA DispatchMakingKeepsFace ==
  ASSUME FaceInv, NEW t \in Threads, DispatchMaking(t)
  PROVE  FaceInv'
<1>1. PICK call \in making[t] :
        /\ waiting' = Append(waiting, call)
        /\ IF call.method = "expressInterest"
           THEN known' = known \cup {call.id} /\ UNCHANGED filterIds
           ELSE filterIds' = filterIds \cup {call.id} /\ UNCHANGED known
  BY DEF DispatchMaking, DispatchLast
<1>2. /\ making' = [making EXCEPT ![t] = {}]
      /\ UNCHANGED <<pitVars, lastEntryId, connectStatus, onConnectedCallbacks, flushed,
                     transport, connects, delayed, filter, stack, sent, calls, silenced, unset>>
  BY DEF DispatchMaking
<1>3. call \in Calls /\ Makes(call)
  BY MakingTypes, CallTypes DEF FaceInv
<1>4. /\ making' \in [Threads -> SUBSET Makings] /\ making'[t] = {}
      /\ \A u \in Threads \ {t} : making'[u] = making[u]
  BY <1>2 DEF FaceInv, FaceTypeOK
<1>5. \A u \in Threads : \A other \in making'[u] : other.id # call.id
  BY <1>4 DEF FaceInv, OwnerInv
<1>6. \A k \in DOMAIN waiting : Makes(waiting[k]) => waiting[k].id # call.id
  BY DEF FaceInv, OwnerInv
<1> QED BY <1>1, <1>2, <1>3, <1>4, <1>5, <1>6, DispatchKeepsFace

LEMMA DispatchOtherKeepsFace ==
  ASSUME FaceInv, NEW t \in Threads, DispatchOther(t)
  PROVE  FaceInv'
<1>1. PICK call \in Calls \ Makings : waiting' = Append(waiting, call)
  BY DEF DispatchOther, DispatchLast
<1>2. ~Makes(call) /\ UNCHANGED <<vars, making, filterIds, unset>>
  BY <1>1, CallTypes DEF DispatchOther
<1>3. making \in [Threads -> SUBSET Makings]
  BY DEF FaceInv, FaceTypeOK
<1> QED BY <1>1, <1>2, <1>3, DispatchKeepsFace DEF vars, nodeVars

(* The io_service runs the first call that waits.                          *)
LEMMA HeadMoves ==
  ASSUME FaceInv, RunWaiting
  PROVE  LET call == Head(waiting) IN
         /\ call \in Calls /\ call = waiting[1] /\ 1 \in DOMAIN waiting
         /\ Makes(call) => call.id \in Ids /\ Unseen(call.id) /\ call.id <= lastEntryId
         /\ NodeMoves(IF call.method = "expressInterest" THEN {call.id} ELSE {})
         /\ call.method = "expressInterest" => HeldStep({call.id}) \/ ExpressConnectFails
         /\ unset' = unset \/ (call.id \in Ids /\ unset' = unset \cup {call.id})
         /\ waiting' \in Seq(Calls)
         /\ \A k \in DOMAIN waiting' :
              /\ k + 1 \in DOMAIN waiting /\ waiting'[k] = waiting[k + 1]
              /\ k \in Nat /\ k + 1 > 1
         /\ \A k \in DOMAIN waiting :
              k = 1 \/ (k - 1 \in DOMAIN waiting' /\ waiting'[k - 1] = waiting[k])
<1> DEFINE call == Head(waiting)
<1>1. waiting \in Seq(Calls) /\ waiting # <<>> /\ waiting' = Tail(waiting) /\ NodeMethod(call)
  BY DEF FaceInv, FaceTypeOK, RunWaiting
<1>2. /\ call \in Calls /\ call = waiting[1] /\ 1 \in DOMAIN waiting
      /\ waiting' \in Seq(Calls)
      /\ \A k \in DOMAIN waiting' :
           /\ k + 1 \in DOMAIN waiting /\ waiting'[k] = waiting[k + 1]
           /\ k \in Nat /\ k + 1 > 1
      /\ \A k \in DOMAIN waiting :
           k = 1 \/ (k - 1 \in DOMAIN waiting' /\ waiting'[k - 1] = waiting[k])
  BY <1>1, HeadTail
<1> HIDE DEF call
<1>3. Makes(call) => call.id \in Ids /\ Unseen(call.id) /\ call.id <= lastEntryId
  BY <1>2, MakingTypes DEF FaceInv, ComingInv
<1>4. IInv
  BY DEF FaceInv
<1>5. /\ NodeMoves(IF call.method = "expressInterest" THEN {call.id} ELSE {})
      /\ call.method = "expressInterest" => HeldStep({call.id}) \/ ExpressConnectFails
      /\ unset' = unset \/ (call.id \in Ids /\ unset' = unset \cup {call.id})
  BY <1>1, <1>2, <1>3, <1>4, MethodMoves
<1> QED BY <1>2, <1>3, <1>5 DEF call

LEMMA RunWaitingKeepsFace ==
  ASSUME FaceInv, RunWaiting
  PROVE  FaceInv'
<1> DEFINE call == Head(waiting)
<1>1. /\ call \in Calls /\ call = waiting[1] /\ 1 \in DOMAIN waiting
      /\ Makes(call) => call.id \in Ids
      /\ NodeMoves(IF call.method = "expressInterest" THEN {call.id} ELSE {})
      /\ unset' = unset \/ (call.id \in Ids /\ unset' = unset \cup {call.id})
      /\ waiting' \in Seq(Calls)
      /\ \A k \in DOMAIN waiting' :
           /\ k + 1 \in DOMAIN waiting /\ waiting'[k] = waiting[k + 1]
           /\ k \in Nat /\ k + 1 > 1
  BY HeadMoves
<1> HIDE DEF call
<1>2. UNCHANGED <<making, filterIds>>
  BY DEF RunWaiting
<1>3. call.method = "expressInterest" => Makes(call)
  BY DEF Makes
<1>4. /\ IInv' /\ lastEntryId \in Nat /\ lastEntryId' \in Nat /\ lastEntryId <= lastEntryId'
      /\ Ids \subseteq Nat
  BY <1>1, IInvTypes DEF NodeMoves, FaceInv
<1>5. ASSUME NEW e \in Ids, e <= lastEntryId
      PROVE  /\ e <= lastEntryId'
             /\ (Unseen(e) /\ (Makes(call) => call.id # e)) => Unseen(e)'
  <2>1. e <= lastEntryId'
    BY <1>4, <1>5
  <2> QED BY <1>1, <1>3, <1>5, <2>1 DEF NodeMoves
<1>6. FaceTypeOK'
  <2>1. unset' \subseteq Ids
    BY <1>1 DEF FaceInv, FaceTypeOK
  <2> QED BY <1>1, <1>2, <1>4, <2>1 DEF FaceInv, FaceTypeOK, IInv
<1>7. ASSUME NEW t \in Threads, NEW c \in making[t]
      PROVE  /\ c.id \in Ids /\ c.id <= lastEntryId /\ Unseen(c.id)
             /\ Makes(call) => call.id # c.id
  BY <1>1, MakingTypes DEF FaceInv, ComingInv, OwnerInv
<1>8. ASSUME NEW k \in DOMAIN waiting', Makes(waiting'[k])
      PROVE  /\ waiting'[k].id \in Ids /\ waiting'[k].id <= lastEntryId
             /\ Unseen(waiting[k + 1].id) /\ waiting[k + 1] = waiting'[k]
             /\ Makes(call) => call.id # waiting'[k].id
  <2>1. k + 1 \in DOMAIN waiting /\ waiting'[k] = waiting[k + 1] /\ k + 1 # 1
    BY <1>1
  <2> QED BY <1>1, <1>8, <2>1, MakingTypes DEF FaceInv, ComingInv, OwnerInv
<1>9. OwnerInv'
  <2>1. \A t, u \in Threads : \A c \in making'[t], d \in making'[u] : t # u => c.id # d.id
    BY <1>2 DEF FaceInv, OwnerInv
  <2>2. \A t \in Threads, k \in DOMAIN waiting' : \A c \in making'[t] :
          Makes(waiting'[k]) => waiting'[k].id # c.id
    BY <1>1, <1>2 DEF FaceInv, OwnerInv
  <2>3. ASSUME NEW k \in DOMAIN waiting', NEW l \in DOMAIN waiting', k # l,
               Makes(waiting'[k]), Makes(waiting'[l])
        PROVE  waiting'[k].id # waiting'[l].id
    <3>1. k + 1 # l + 1
      BY <1>1, <2>3
    <3> QED BY <1>1, <2>3, <3>1 DEF FaceInv, OwnerInv
  <2> QED BY <2>1, <2>2, <2>3 DEF OwnerInv
<1>10. ComingInv'
  <2>1. ASSUME NEW t \in Threads, NEW c \in making[t]
        PROVE  (Unseen(c.id) /\ c.id <= lastEntryId)'
    BY <1>5, <1>7
  <2>2. ASSUME NEW k \in DOMAIN waiting', Makes(waiting'[k])
        PROVE  \E e \in Ids : e = waiting'[k].id /\ Unseen(e)' /\ e <= lastEntryId'
    BY <1>5, <1>8, <2>2
  <2>3. ASSUME NEW k \in DOMAIN waiting', Makes(waiting[k])'
        PROVE  (Unseen(waiting[k].id) /\ waiting[k].id <= lastEntryId)'
    BY <2>2, <2>3
  <2> QED BY <1>2, <2>1, <2>3 DEF ComingInv
<1> QED BY <1>4, <1>6, <1>9, <1>10 DEF FaceInv

LEMMA CallbackKeepsFace ==
  ASSUME FaceInv, CallInCallback
  PROVE  FaceInv' /\ KeepsHeld
<1>1. /\ UNCHANGED <<making, waiting>> /\ filterIds' \subseteq Ids
      /\ filterIds \subseteq Ids /\ unset \subseteq Ids
  BY DEF CallInCallback, FaceInv, FaceTypeOK
<1>2. CASE AppCallInCallback /\ UNCHANGED unset
  <2>1. NodeMoves({})
    BY <1>2, CallbackMoves DEF FaceInv
  <2> QED BY <1>1, <1>2, <2>1, MovesKeepFace DEF NodeMoves
<1>3. CASE UnsetInCallback
  <2>1. PICK id \in Ids : Unset(id) /\ unset' = unset \cup {id}
    BY <1>1, <1>3 DEF UnsetInCallback
  <2>2. NodeMoves({})
    BY <2>1, UnsetMoves DEF FaceInv
  <2> QED BY <1>1, <2>1, <2>2, MovesKeepFace DEF NodeMoves
<1> QED BY <1>2, <1>3 DEF CallInCallback

LEMMA NodeKeepsFace ==
  ASSUME FaceInv, RunNode \/ UNCHANGED faceVars
  PROVE  FaceInv' /\ KeepsHeld
<1>1. NodeMoves({})
  BY LibraryMoves, StillMoves DEF FaceInv, RunNode, faceVars
<1>2. UNCHANGED <<making, waiting, filterIds, unset>>
  BY DEF RunNode, faceVars, threadVars
<1>3. filterIds' \subseteq Ids /\ unset' \subseteq Ids
  BY <1>2 DEF FaceInv, FaceTypeOK
<1> QED BY <1>1, <1>2, <1>3, MovesKeepFace DEF NodeMoves

LEMMA InitFaceInv == FaceInit => FaceInv
<1> SUFFICES ASSUME FaceInit PROVE FaceInv
  OBVIOUS
<1>1. IInv
  BY InitIInv DEF FaceInit
<1>2. /\ making = [t \in Threads |-> {}] /\ waiting = <<>> /\ filterIds = {} /\ unset = {}
  BY DEF FaceInit
<1>3. FaceTypeOK
  BY <1>1, <1>2 DEF FaceTypeOK, IInv
<1>4. OwnerInv /\ ComingInv
  BY <1>2 DEF OwnerInv, ComingInv
<1> QED BY <1>1, <1>3, <1>4 DEF FaceInv

LEMMA NextFaceInv == FaceInv /\ [FaceNext]_faceVars => FaceInv'
<1> SUFFICES ASSUME FaceInv, [FaceNext]_faceVars PROVE FaceInv'
  OBVIOUS
<1>1. CASE \E t \in Threads : TakeId(t) \/ DispatchMaking(t) \/ DispatchOther(t)
  BY <1>1, TakeIdKeepsFace, DispatchMakingKeepsFace, DispatchOtherKeepsFace
<1>2. CASE RunWaiting
  BY <1>2, RunWaitingKeepsFace
<1>3. CASE CallInCallback
  BY <1>3, CallbackKeepsFace
<1>4. CASE RunNode \/ UNCHANGED faceVars
  BY <1>4, NodeKeepsFace
<1> QED BY <1>1, <1>2, <1>3, <1>4 DEF FaceNext

(* FaceInv is an invariant of the threads and the io_service.              *)
THEOREM FaceInductive == FaceSpec => []FaceInv
BY InitFaceInv, NextFaceInv, PTL DEF FaceSpec

(* Also with calls of many threads which are dispatched to the io_service, *)
(* an Interest that removePendingInterest found in time gets no callback:  *)
(* the request may overtake the expressInterest which returned the ID.     *)
THEOREM RemovedIsSilentInThreads == FaceSpec => []RemovedStaysSilent
<1>1. FaceInv => RemovedStaysSilent
  BY DEF FaceInv, IInv
<1> QED BY <1>1, FaceInductive, PTL

-----------------------------------------------------------------------------
(* The Face keeps its promise for the calls of all threads.                *)

(* The steps of the threads do not touch what the Node holds.              *)
LEMMA ThreadKeepsPromise ==
  ASSUME NEW t \in Threads, TakeId(t) \/ DispatchMaking(t) \/ DispatchOther(t)
  PROVE  UNCHANGED PromiseState
<1>1. UNCHANGED <<table, isRemoved, onConnectedCallbacks, flushed, stack, calls, silenced>>
  BY DEF TakeId, DispatchMaking, DispatchOther, pitVars, vars, nodeVars
<1>2. \A id \in Ids : StateOf(id)' = StateOf(id)
  BY <1>1, StateStays DEF Extracted, Queued
<1> QED BY <1>2, Stutters

LEMMA PlainCallKeepsPromise ==
  ASSUME IInv, IInv',
         \/ \E id \in Ids : RemovePendingInterest(id) \/ UnsetInterestFilter(id)
         \/ \E d \in Packets : PutData(d)
         \/ Shutdown \/ SetsFilter \/ UNCHANGED vars
  PROVE  [Promise!Next]_PromiseState
BY RemoveKeepsPromise, ReceiveKeepsPromise, OtherKeepsPromise

(* The io_service runs the method of a call long after its ID was taken.   *)
LEMMA RunWaitingKeepsPromise ==
  ASSUME FaceInv, FaceInv', RunWaiting
  PROVE  [Promise!Next]_PromiseState
<1> DEFINE call == Head(waiting)
<1>1. /\ call \in Calls /\ NodeMethod(call)
      /\ Makes(call) => call.id \in Ids /\ Unseen(call.id)
  BY HeadMoves DEF RunWaiting
<1> HIDE DEF call
<1>2. IInv /\ IInv'
  BY DEF FaceInv
<1>3. CASE call.method = "expressInterest"
  <2>1. call \in Makings /\ Makes(call)
    BY <1>1, <1>3, CallTypes DEF Makes
  <2>2. call.interest \in Interests
    BY <1>3, <2>1 DEF Makings
  <2>3. NodeExpressInterest(call.id, call.interest)
    BY <1>1, <1>3 DEF NodeMethod
  <2> QED BY <1>1, <1>2, <2>1, <2>2, <2>3, NodeExpressKeepsPromise
<1>4. CASE call.method = "setInterestFilter"
  <2>1. call \in Makings /\ Makes(call)
    BY <1>1, <1>4, CallTypes DEF Makes
  <2>2. call.prefix \in Prefixes
    BY <1>4, <2>1 DEF Makings
  <2>3. NodeSetInterestFilter(call.id, call.prefix)
    BY <1>1, <1>4 DEF NodeMethod
  <2>4. SetsFilter
    BY <1>1, <2>1, <2>2, <2>3 DEF SetsFilter
  <2> QED BY <1>2, <2>4, PlainCallKeepsPromise
<1>5. CASE call.method = "unsetInterestFilter"
  <2>1. call.id \in Ids /\ Unset(call.id)
    BY <1>1, <1>5, CallTypes DEF NodeMethod
  <2> QED BY <1>2, <2>1, PlainCallKeepsPromise DEF Unset
<1>6. CASE call.method \in {"removePendingInterest", "putData", "shutdown"}
  BY <1>1, <1>2, <1>6, OtherMethods, PlainCallKeepsPromise
<1>7. call.method \in {"expressInterest", "setInterestFilter", "removePendingInterest",
                       "unsetInterestFilter", "putData", "shutdown"}
  BY <1>1 DEF Calls, Makings
<1> QED BY <1>3, <1>4, <1>5, <1>6, <1>7

LEMMA CallbackKeepsPromise ==
  ASSUME FaceInv, FaceInv', CallInCallback
  PROVE  [Promise!Next]_PromiseState
<1>1. IInv /\ IInv' /\ TypeOK /\ filterIds \subseteq Ids
  BY DEF FaceInv, FaceTypeOK
<1>2. CASE AppCallInCallback
  BY <1>1, <1>2, ExpressKeepsPromise, SetFilterTakesId, PlainCallKeepsPromise
  DEF AppCallInCallback
<1>3. CASE UnsetInCallback
  BY <1>1, <1>3, PlainCallKeepsPromise DEF UnsetInCallback, Unset
<1> QED BY <1>2, <1>3 DEF CallInCallback

(* The ThreadsafeFace keeps the promise of the Face for all threads: the   *)
(* IDs are taken in one order, the methods run in another, callbacks run   *)
(* theirs before those that wait, and yet each step moves the Interests it *)
(* concerns as InterestPromise allows, or none.                            *)
THEOREM ThreadsKeepPromise == FaceSpec => FaceKeepsPromise
<1>1. FaceInit => Promise!Init
  BY InitKeepsPromise DEF FaceInit
<1>2. FaceInv /\ FaceInv' /\ [FaceNext]_faceVars => [Promise!Next]_PromiseState
  <2> SUFFICES ASSUME FaceInv, FaceInv', [FaceNext]_faceVars
               PROVE  [Promise!Next]_PromiseState
    OBVIOUS
  <2>1. IInv /\ IInv'
    BY DEF FaceInv
  <2>2. CASE \E t \in Threads : TakeId(t) \/ DispatchMaking(t) \/ DispatchOther(t)
    BY <2>2, ThreadKeepsPromise
  <2>3. CASE RunWaiting
    BY <2>3, RunWaitingKeepsPromise
  <2>4. CASE CallInCallback
    BY <2>4, CallbackKeepsPromise
  <2>5. CASE RunNode
    BY <2>1, <2>5, LibraryKeepsPromise DEF RunNode
  <2>6. CASE UNCHANGED faceVars
    BY <2>1, <2>6, PlainCallKeepsPromise DEF faceVars
  <2> QED BY <2>2, <2>3, <2>4, <2>5, <2>6 DEF FaceNext
<1> QED BY <1>1, <1>2, FaceInductive, PTL
        DEF FaceSpec, FaceKeepsPromise, KeepsPromise, Promise!Spec, PromiseState

-----------------------------------------------------------------------------
(* No thread loses an Interest.                                            *)

LEMMA FaceHeldFollows ==
  ASSUME FaceInv, FaceHeldInv, NEW new \in SUBSET Ids, HeldStep(new),
         \A id \in Ids \ new :
           IsWaiting("expressInterest", id) => IsWaiting("expressInterest", id)'
  PROVE  FaceHeldInv'
<1>1. known \cup Returning \subseteq Ids
  BY ReturningType DEF FaceInv, IInv, TypeOK, NodeTypeOK
<1>2. \A id \in known \cup Returning : WaitsOrHeld(id)
  BY DEF FaceHeldInv, NoThreadLosesInterest, WaitsOrHeld, Held, Returning
<1>3. ASSUME NEW id \in known' \cup Returning'
      PROVE  WaitsOrHeld(id)'
  <2>1. CASE id \in new
    BY <2>1 DEF HeldStep, WaitsOrHeld
  <2>2. CASE id \notin new
    <3>1. id \in known \cup Returning
      BY <1>3, <2>2 DEF HeldStep
    <3> QED BY <1>1, <1>2, <2>2, <3>1 DEF HeldStep, WaitsOrHeld
  <2> QED BY <2>1, <2>2
<1>4. NoThreadLosesInterest'
  BY <1>3 DEF NoThreadLosesInterest, WaitsOrHeld, Held
<1>5. \A i \in DOMAIN stack' : stack'[i].id # 0 => stack'[i].id \in Returning'
  BY DEF Returning
<1> QED BY <1>3, <1>4, <1>5 DEF FaceHeldInv

LEMMA DispatchMakingHolds ==
  ASSUME FaceInv, FaceHeldInv, NEW t \in Threads, DispatchMaking(t)
  PROVE  FaceHeldInv'
<1>1. PICK call \in making[t] :
        /\ waiting' = Append(waiting, call)
        /\ \/ call.method = "expressInterest" /\ known' = known \cup {call.id}
           \/ known' = known
  BY DEF DispatchMaking, DispatchLast
<1>2. UNCHANGED <<table, isRemoved, interestOf, onConnectedCallbacks, flushed, delayed, stack,
                  calls, silenced>>
  BY DEF DispatchMaking, pitVars
<1>3. call \in Calls /\ waiting \in Seq(Calls)
  BY MakingTypes, CallTypes DEF FaceInv, FaceTypeOK
<1>4. PICK n \in Nat :
        /\ DOMAIN waiting' = DOMAIN waiting \cup {n} /\ waiting'[n] = call
        /\ \A k \in DOMAIN waiting : waiting'[k] = waiting[k]
  BY <1>1, <1>3, AppendOne
<1>5. ASSUME NEW id, WaitsOrHeld(id) PROVE WaitsOrHeld(id)'
  <2>1. Held(id)' <=> Held(id)
    BY <1>2 DEF Held, Queued, ExpiredSilently, Extracted
  <2>2. IsWaiting("expressInterest", id) => IsWaiting("expressInterest", id)'
    BY <1>4 DEF IsWaiting
  <2> QED BY <1>5, <2>1, <2>2 DEF WaitsOrHeld
<1>6. call.method = "expressInterest" => IsWaiting("expressInterest", call.id)'
  BY <1>4 DEF IsWaiting
<1>7. \A id \in known : WaitsOrHeld(id)
  BY DEF FaceHeldInv, NoThreadLosesInterest, WaitsOrHeld, Held
<1>8. \A id \in known' : WaitsOrHeld(id)'
  BY <1>1, <1>5, <1>6, <1>7 DEF WaitsOrHeld
<1>9. NoThreadLosesInterest'
  BY <1>8 DEF NoThreadLosesInterest, WaitsOrHeld, Held
<1> QED BY <1>2, <1>5, <1>9 DEF FaceHeldInv

(* The other steps of the threads touch no Interest of the Node.           *)
LEMMA ThreadHolds ==
  ASSUME FaceInv, FaceHeldInv, NEW t \in Threads, TakeId(t) \/ DispatchOther(t)
  PROVE  FaceHeldInv'
<1>1. UNCHANGED <<table, isRemoved, interestOf, onConnectedCallbacks, flushed, delayed, stack,
                  known, calls, silenced>>
  BY DEF TakeId, DispatchOther, pitVars, vars, nodeVars
<1>2. ASSUME NEW id \in Ids, IsWaiting("expressInterest", id)
      PROVE  IsWaiting("expressInterest", id)'
  <2>1. CASE TakeId(t)
    BY <1>2, <2>1 DEF TakeId, IsWaiting
  <2>2. CASE DispatchOther(t)
    <3>1. PICK call \in Calls : waiting' = Append(waiting, call)
      BY <2>2 DEF DispatchOther, DispatchLast
    <3>2. waiting \in Seq(Calls)
      BY DEF FaceInv, FaceTypeOK
    <3>3. \A k \in DOMAIN waiting : k \in DOMAIN waiting' /\ waiting'[k] = waiting[k]
      BY <3>1, <3>2, AppendOne
    <3> QED BY <1>2, <3>3 DEF IsWaiting
  <2> QED BY <2>1, <2>2
<1>3. \A id \in Ids : Held(id) => Held(id)'
  BY <1>1 DEF Held, Queued, ExpiredSilently, Extracted
<1>4. {} \in SUBSET Ids /\ HeldStep({})
  BY <1>1, <1>3 DEF HeldStep, Returning
<1> QED BY <1>2, <1>4, FaceHeldFollows

LEMMA RunWaitingHolds ==
  ASSUME FaceInv, FaceHeldInv, RunWaiting, IsAsync \/ ~ConnectMayFail
  PROVE  FaceHeldInv'
<1> DEFINE call == Head(waiting)
<1>1. /\ call \in Calls /\ call = waiting[1] /\ 1 \in DOMAIN waiting
      /\ Makes(call) => call.id \in Ids
      /\ KeepsHeld
      /\ call.method = "expressInterest" => HeldStep({call.id})
      /\ \A k \in DOMAIN waiting :
           k = 1 \/ (k - 1 \in DOMAIN waiting' /\ waiting'[k - 1] = waiting[k])
  BY HeadMoves DEF NodeMoves, ExpressConnectFails
<1> HIDE DEF call
<1>2. ASSUME NEW id, IsWaiting("expressInterest", id),
             ~(call.method = "expressInterest" /\ call.id = id)
      PROVE  IsWaiting("expressInterest", id)'
  <2>1. PICK k \in DOMAIN waiting : waiting[k].method = "expressInterest" /\ waiting[k].id = id
    BY <1>2 DEF IsWaiting
  <2>2. k - 1 \in DOMAIN waiting' /\ waiting'[k - 1] = waiting[k]
    BY <1>1, <1>2, <2>1
  <2> QED BY <2>1, <2>2 DEF IsWaiting
<1>3. CASE call.method = "expressInterest"
  <2>1. {call.id} \in SUBSET Ids
    BY <1>1, <1>3 DEF Makes
  <2> QED BY <1>1, <1>2, <1>3, <2>1, FaceHeldFollows
<1>4. CASE call.method # "expressInterest"
  <2>1. PICK new \in SUBSET Ids : HeldStep(new)
    BY <1>1 DEF KeepsHeld
  <2> QED BY <1>2, <1>4, <2>1, FaceHeldFollows
<1> QED BY <1>3, <1>4

LEMMA NextFaceHeld ==
  ASSUME IsAsync \/ ~ConnectMayFail
  PROVE  FaceInv /\ FaceHeldInv /\ [FaceNext]_faceVars => FaceHeldInv'
<1> SUFFICES ASSUME FaceInv, FaceHeldInv, [FaceNext]_faceVars PROVE FaceHeldInv'
  OBVIOUS
<1>1. CASE \E t \in Threads : TakeId(t) \/ DispatchMaking(t) \/ DispatchOther(t)
  BY <1>1, ThreadHolds, DispatchMakingHolds
<1>2. CASE RunWaiting
  BY <1>2, RunWaitingHolds
<1>3. CASE CallInCallback \/ RunNode \/ UNCHANGED faceVars
  <2>1. PICK new \in SUBSET Ids : HeldStep(new)
    BY <1>3, CallbackKeepsFace, NodeKeepsFace DEF KeepsHeld
  <2>2. waiting' = waiting
    BY <1>3 DEF CallInCallback, RunNode, faceVars, threadVars
  <2>3. \A id \in Ids : IsWaiting("expressInterest", id) => IsWaiting("expressInterest", id)'
    BY <2>2 DEF IsWaiting
  <2> QED BY <2>1, <2>3, FaceHeldFollows
<1> QED BY <1>1, <1>2, <1>3 DEF FaceNext

(* Every Interest whose ID was returned in any thread waits in the         *)
(* io_service or is held by the Node.  On a synchronous transport whose    *)
(* connect fails this is not so: there the Node's method throws in the     *)
(* io_service thread, after the ID was returned in another one.            *)
THEOREM ThreadsLoseNothing ==
  ASSUME IsAsync \/ ~ConnectMayFail
  PROVE  FaceSpec => []NoThreadLosesInterest
<1>1. FaceInit => FaceHeldInv
  BY DEF FaceInit, Init, FaceHeldInv, NoThreadLosesInterest
<1>2. FaceInv /\ FaceHeldInv /\ [FaceNext]_faceVars => FaceHeldInv'
  BY NextFaceHeld
<1>3. FaceHeldInv => NoThreadLosesInterest
  BY DEF FaceHeldInv
<1> QED BY <1>1, <1>2, <1>3, FaceInductive, PTL DEF FaceSpec
=============================================================================
