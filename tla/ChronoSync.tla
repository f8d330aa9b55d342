----------------------------- MODULE ChronoSync -----------------------------
(***************************************************************************)
(* The instances of an application which synchronise their sequence        *)
(* numbers with ChronoSync2013 (src/src/sync/chrono-sync2013.cpp), over a  *)
(* network that loses and delays Interests and Data, and repeats           *)
(* Interests.  A digest is collision free: it stands for the digest tree   *)
(* it is computed from, and "00" for the empty tree.  Loopback of          *)
(* Interests is disabled (the default), and an Interest that is expressed  *)
(* again under the same name is the same pending Interest.                 *)
(***************************************************************************)
EXTENDS Integers, Sequences, FiniteSets

CONSTANTS
  Instances,
  PrefixOf,       \* applicationDataPrefixUri_ of each instance
  SessionOf,      \* sessionNo_ of each instance
  PreviousOf,     \* initialPreviousSequenceNo_, -1 when it is not given
  MaxSequenceNo,  \* bound: the last sequence number each instance publishes
  MaxWaiting,     \* bound: the timers of an instance, and its recoveries
  PublishEarly,   \* whether the application publishes before onInitialized
  Stops           \* the instances that may call shutdown

ASSUME SyncAssumption ==
  /\ IsFiniteSet(Instances) /\ Stops \subseteq Instances
  /\ SessionOf \in [Instances -> Nat]
  /\ PreviousOf \in [Instances -> {-1} \cup Nat]
  /\ MaxSequenceNo \in [Instances -> Nat] /\ MaxWaiting \in Nat /\ PublishEarly \in BOOLEAN

VARIABLES
  status,        \* "new", "running", or "shut" when enabled_ is FALSE
  tree,          \* digestTree_: a set of sync states
  log,           \* digestLog_
  sequenceNo,    \* sequenceNo_
  cache,         \* the Data in contentCache_, by the digest in its name
  timers,        \* the digests that wait for judgeRecovery
  pending,       \* the names of the Interests without a Data or timeout yet
  initialized,   \* how often onInitialized was called
  network,       \* the Data on its way to an Interest
  threw          \* whether publishNextSequenceNo threw

vars == <<status, tree, log, sequenceNo, cache, timers, pending, initialized, threw, network>>

SyncName(digest) == [recovery |-> FALSE, digest |-> digest]
RecoveryName(digest) == [recovery |-> TRUE, digest |-> digest]

State(p, seq) == [name |-> PrefixOf[p], session |-> SessionOf[p], seq |-> seq]
SameNode(s, t) == s.name = t.name /\ s.session = t.session
Owns(p, s) == SameNode(s, State(p, 0))

Newest(states) == CHOOSE s \in states : \A t \in states : t.session <= s.session
-----------------------------------------------------------------------------
(* DigestTree::update, on all of a message.  The mutant also takes older   *)
(* sequence numbers.                                                       *)
IsChanged(t, s) == s \notin t
IsNewer(t, s) == \A n \in t : SameNode(n, s) => n.seq < s.seq

NewStates(t, content) == {s \in content : IsNewer(t, s)}

Merge(t, content) ==
  LET new == NewStates(t, content) IN
  {n \in t : \A s \in new : ~SameNode(n, s)} \cup new

(* logFind.                                                                *)
IsLogged(l, digest) == \E k \in DOMAIN l : l[k].digest = digest

(* ChronoSync2013::Impl::update on [tree, log, sequenceNo].  A message     *)
(* lists the sessions of a name in ascending order.  The mutant takes the  *)
(* sequence number of any name.                                            *)
OfAnyName(p, states) == states
OfOwnName(p, states) == {t \in states : t.name = PrefixOf[p]}

Update(p, s, content) ==
  LET merged == Merge(s.tree, content)
      own == OfOwnName(p, NewStates(s.tree, content))
  IN [tree |-> merged,
      log |-> IF IsLogged(s.log, merged) THEN s.log
              ELSE Append(s.log, [digest |-> merged, data |-> content]),
      sequenceNo |-> IF own = {} THEN s.sequenceNo ELSE Newest(own).seq]

Current(p) == [tree |-> tree[p], log |-> log[p], sequenceNo |-> sequenceNo[p]]

Become(p, s) ==
  /\ tree' = [tree EXCEPT ![p] = s.tree]
  /\ log' = [log EXCEPT ![p] = s.log]
  /\ sequenceNo' = [sequenceNo EXCEPT ![p] = s.sequenceNo]

Increment(s) == [s EXCEPT !.sequenceNo = @ + 1]

(* A Data goes to the Interests for its name; when one ends, so does what  *)
(* was on its way to it.                                                   *)
Sent(q, name, content) ==
  {[to |-> p, name |-> name, content |-> content] :
     p \in {p \in Instances \ {q} : name \in pending[p]}}

Unanswered(p, name) == {m \in network : ~(m.to = p /\ m.name = name)}

(* broadcastSyncState: add to the content cache, where the first Data of a *)
(* name is found, and answer the Interests for it that are stored there    *)
(* and have not timed out.  Whether one was received before it timed out   *)
(* is left open.                                                           *)
Broadcast(p, digest, content, before) ==
  LET data == [name |-> SyncName(digest), content |-> content] IN
  /\ cache' = [cache EXCEPT ![p] =
       IF \E d \in @ : d.name = data.name THEN @ ELSE @ \cup {data}]
  /\ \E answered \in {{}, Sent(p, data.name, content)} :
       network' = before \cup answered

(* After the change of its tree an instance asks for the next one.  The    *)
(* mutant asks with the digest before it.                                  *)
AsksBefore(p, rest) == pending' = [pending EXCEPT ![p] = rest \cup {SyncName(tree[p])}]
Asks(p, rest) == pending' = [pending EXCEPT ![p] = rest \cup {SyncName(tree'[p])}]
-----------------------------------------------------------------------------
Init ==
  /\ status = [p \in Instances |-> "new"]
  /\ tree = [p \in Instances |-> {}]
  /\ log = [p \in Instances |-> <<[digest |-> {}, data |-> {}]>>]
  /\ sequenceNo = PreviousOf
  /\ cache = [p \in Instances |-> {}]
  /\ timers = [p \in Instances |-> {}] /\ pending = [p \in Instances |-> {}]
  /\ initialized = [p \in Instances |-> 0]
  /\ threw = [p \in Instances |-> FALSE] /\ network = {}

(* An instance with the prefix and session of another one starts after the *)
(* other has stopped.                                                      *)
Initialize(p) ==
  /\ status[p] = "new"
  /\ \A q \in Instances : status[q] = "running" => ~Owns(p, State(q, 0))
  /\ status' = [status EXCEPT ![p] = "running"]
  /\ pending' = [pending EXCEPT ![p] = {SyncName({})}]
  /\ UNCHANGED <<tree, log, sequenceNo, cache, timers, initialized, threw, network>>

(* Afterwards the callbacks of pending Interests do nothing, so they end   *)
(* here.                                                                   *)
Shutdown(p) ==
  /\ p \in Stops /\ status[p] = "running"
  /\ status' = [status EXCEPT ![p] = "shut"]
  /\ pending' = [pending EXCEPT ![p] = {}]
  /\ timers' = [timers EXCEPT ![p] = {}]
  /\ network' = {m \in network : m.to # p}
  /\ UNCHANGED <<tree, log, sequenceNo, cache, initialized, threw>>

InitialTimeOut(p) ==
  /\ SyncName({}) \in pending[p] /\ status[p] = "running"
  /\ LET s == Increment(Current(p))
         rest == pending[p] \ {SyncName({})} IN
     IF s.sequenceNo # PreviousOf[p] + 1
     THEN /\ Become(p, s) /\ pending' = [pending EXCEPT ![p] = rest]
          /\ UNCHANGED initialized
     ELSE /\ Become(p, Update(p, s, {State(p, s.sequenceNo)}))
          /\ initialized' = [initialized EXCEPT ![p] = @ + 1]
          /\ Asks(p, rest)
  /\ network' = Unanswered(p, SyncName({}))
  /\ UNCHANGED <<status, cache, timers, threw>>

(* syncTimeout: an Interest for the root is expressed again and stays      *)
(* pending, any other one is given up.  The mutant gives up both.          *)
GivesUpAll(p, name) == TRUE
GivesUp(p, name) == name # SyncName(tree[p])

SyncTimeout(p, name) ==
  /\ name \in pending[p] /\ name # SyncName({})
  /\ GivesUp(p, name)
  /\ pending' = [pending EXCEPT ![p] = @ \ {name}]
  /\ network' = Unanswered(p, name)
  /\ UNCHANGED <<status, tree, log, sequenceNo, cache, timers, initialized, threw>>

Publish(p) ==
  /\ status[p] = "running" /\ sequenceNo[p] < MaxSequenceNo[p]
  /\ PublishEarly \/ initialized[p] > 0
  /\ LET s == Increment(Current(p))
         content == {State(p, s.sequenceNo)}
         updated == Update(p, s, content) IN
     /\ Broadcast(p, tree[p], content, network)
     /\ Become(p, updated)
     /\ IF updated.log = s.log
        THEN threw' = [threw EXCEPT ![p] = TRUE] /\ UNCHANGED pending
        ELSE Asks(p, pending[p]) /\ UNCHANGED threw
  /\ UNCHANGED <<status, timers, initialized>>
-----------------------------------------------------------------------------
(* onInterest.  The content cache looks for its own Data first.            *)
Reply(q, name, content) == network' = network \cup Sent(q, name, content)

(* The states that were logged after digestLog_[index]: of each name those *)
(* of the last message with it.                                            *)
StatesOf(m, name) == {s \in m : s.name = name}

Difference(l, index) ==
  LET With(name) == {k \in index + 1 .. Len(l) : StatesOf(l[k].data, name) # {}}
      Latest(name) == CHOOSE k \in With(name) : \A j \in With(name) : j <= k
      names == {PrefixOf[p] : p \in Instances}
  IN {Newest(StatesOf(l[Latest(name)].data, name)) : name \in {n \in names : With(n) # {}}}

IndexOf(l, digest) == CHOOSE k \in DOMAIN l : l[k].digest = digest

ProcessSyncInterest(q, digest) ==
  LET content == Difference(log[q], IndexOf(log[q], digest)) IN
  IF content = {} THEN UNCHANGED network ELSE Reply(q, SyncName(digest), content)

(* A newcomer or a recovery Interest gets all of the tree.                 *)
Knows(q, digest) == IsLogged(log[q], digest)

ProcessRecoveryInterest(q, name) ==
  IF Knows(q, name.digest) /\ tree[q] # {}
  THEN Reply(q, name, tree[q]) ELSE UNCHANGED network

OnInterest(q, name) ==
  IF name.recovery \/ name.digest = {}
  THEN ProcessRecoveryInterest(q, name) /\ UNCHANGED timers
  ELSE IF name.digest = tree[q]
  THEN UNCHANGED <<timers, network>>
  ELSE IF Knows(q, name.digest)
  THEN ProcessSyncInterest(q, name.digest) /\ UNCHANGED timers
  ELSE /\ Cardinality(timers[q]) < MaxWaiting
       /\ timers' = [timers EXCEPT ![q] = @ \cup {name.digest}]
       /\ UNCHANGED network

ReceiveInterest(q, p, name) ==
  /\ p # q /\ status[q] = "running" /\ name \in pending[p]
  /\ \/ \E d \in cache[q] : d.name = name /\ Reply(q, name, d.content)
        /\ UNCHANGED timers
     \/ (\A d \in cache[q] : d.name # name) /\ OnInterest(q, name)
  /\ UNCHANGED <<status, tree, log, sequenceNo, cache, pending, initialized, threw>>

(* judgeRecovery, 2 s after the Interest: the initial Interest, which was  *)
(* expressed before and lives for 1 s, is no longer pending.               *)
JudgeRecovery(q, digest) ==
  /\ digest \in timers[q] /\ SyncName({}) \notin pending[q]
  /\ timers' = [timers EXCEPT ![q] = @ \ {digest}]
  /\ IF digest = tree[q]
     THEN UNCHANGED <<pending, network>>
     ELSE IF Knows(q, digest)
     THEN ProcessSyncInterest(q, digest) /\ UNCHANGED pending
     ELSE /\ Cardinality({n \in pending[q] : n.recovery}) < MaxWaiting
          /\ pending' = [pending EXCEPT ![q] = @ \cup {RecoveryName(digest)}]
          /\ UNCHANGED network
  /\ UNCHANGED <<status, tree, log, sequenceNo, cache, initialized, threw>>
-----------------------------------------------------------------------------
(* initialOndata.  The mutant forgets to follow the number that an earlier *)
(* run of the instance has published.                                      *)
SameNumber(p, s, content) == s
FollowEarlier(p, s, content) ==
  LET own == {t \in content : Owns(p, t)} IN
  IF own = {} THEN s
  ELSE Update(p, s, {State(p, (CHOOSE t \in own : TRUE).seq + 1)})

(* The number in the Data for the others.                                  *)
Announced(s) == IF s.sequenceNo >= 0 THEN s.sequenceNo ELSE 0

JoinTree(p, s) ==
  IF \E n \in s.tree : Owns(p, n) THEN s
  ELSE LET next == Increment(s) IN Update(p, next, {State(p, next.sequenceNo)})

InitialOnData(p, content, before) ==
  LET received == Update(p, Current(p), content)
      followed == FollowEarlier(p, received, content)
      joined == JoinTree(p, followed)
  IN /\ Become(p, joined)
     /\ Broadcast(p, received.tree, {State(p, Announced(followed))}, before)
     /\ initialized' = [initialized EXCEPT ![p] =
          @ + (IF followed.log # received.log THEN 1 ELSE 0)
            + (IF joined.log # followed.log THEN 1 ELSE 0)]

OnData(p, data, before) ==
  /\ Become(p, Update(p, Current(p), data.content))
  /\ network' = before
  /\ UNCHANGED <<cache, initialized>>

ReceiveData(p, data) ==
  /\ data \in network /\ data.to = p /\ status[p] = "running"
  /\ LET before == Unanswered(p, data.name) IN
     IF tree[p] = {} THEN InitialOnData(p, data.content, before)
                     ELSE OnData(p, data, before)
  /\ Asks(p, pending[p] \ {data.name})
  /\ UNCHANGED <<status, timers, threw>>

Next ==
  \E p \in Instances :
    \/ Initialize(p) \/ Shutdown(p) \/ InitialTimeOut(p) \/ Publish(p)
    \/ \E name \in pending[p] : SyncTimeout(p, name)
    \/ \E q \in Instances : \E name \in pending[q] : ReceiveInterest(p, q, name)
    \/ \E digest \in timers[p] : JudgeRecovery(p, digest)
    \/ \E data \in network : ReceiveData(p, data)

Spec == Init /\ [][Next]_vars

(* The network is fair to the Interests for the present roots and to the   *)
(* answers of recoveries; every timer and every other Interest ends.       *)
HearsOf(q, p) ==
  /\ SF_vars(ReceiveInterest(q, p, SyncName(tree[p])))
  /\ SF_vars(ReceiveInterest(p, q, RecoveryName(tree[p])))
  /\ SF_vars(\E data \in network :
       data.name = RecoveryName(tree[p]) /\ ReceiveData(q, data))

FairSpec ==
  /\ Spec
  /\ \A p \in Instances :
       /\ WF_vars(Initialize(p) \/ InitialTimeOut(p))
       /\ WF_vars(\E name \in pending[p] : SyncTimeout(p, name))
       /\ WF_vars(\E digest \in timers[p] : JudgeRecovery(p, digest))
       /\ \A q \in Instances \ {p} : HearsOf(q, p)

-----------------------------------------------------------------------------
States == [name : {PrefixOf[p] : p \in Instances}, session : Nat, seq : Nat]
Names == [recovery : BOOLEAN, digest : SUBSET States]

TypeOK ==
  /\ status \in [Instances -> {"new", "running", "shut"}]
  /\ tree \in [Instances -> SUBSET States]
  /\ log \in [Instances -> Seq([digest : SUBSET States, data : SUBSET States])]
  /\ sequenceNo \in [Instances -> {-1} \cup Nat]
  /\ cache \in [Instances -> SUBSET [name : Names, content : SUBSET States]]
  /\ timers \in [Instances -> SUBSET SUBSET States]
  /\ pending \in [Instances -> SUBSET Names]
  /\ initialized \in [Instances -> Nat] /\ threw \in [Instances -> BOOLEAN]
  /\ network \subseteq [to : Instances, name : Names, content : SUBSET States]

(* An instance waits at all times for the change of its present root: the  *)
(* chain of its Interests does not break.                                  *)
RootIsAsked ==
  \A p \in Instances :
    status[p] = "running" /\ tree[p] # {} => SyncName(tree[p]) \in pending[p]

(* "Get the sequence number of the latest data published by this           *)
(* application instance" (chrono-sync2013.hpp, line 261).                  *)
SequenceNoIsOwn ==
  \A p \in Instances : initialized[p] > 0 => State(p, sequenceNo[p]) \in tree[p]

(* "Since we incremented the sequence number, we expect there to be a new  *)
(* digest log entry" (chrono-sync2013.cpp, line 157).                      *)
PublishSucceeds == \A p \in Instances : ~threw[p]

(* "This calls onInitialized() when the first sync data is received (or    *)
(* the interest times out" (chrono-sync2013.hpp, line 75), once.           *)
InitializedOnce ==
  \A p \in Instances :
    status[p] = "running" =>
      initialized[p] = IF SyncName({}) \in pending[p] THEN 0 ELSE 1

(* The answer to a sync Interest holds "the difference after syncDigest"   *)
(* (chrono-sync2013.hpp, line 423): it leads from that digest to the       *)
(* present root.                                                           *)
AnswerIsDifference ==
  \A p \in Instances : \A k \in 2 .. Len(log[p]) :
    Merge(log[p][k].digest, Difference(log[p], k)) = tree[p]

(* The running instances end up with the same tree, whatever was lost.     *)
AllAgree ==
  \A p, q \in Instances :
    status[p] = "running" /\ status[q] = "running" => tree[p] = tree[q]

Converges == <>[]AllAgree
-----------------------------------------------------------------------------
(* Why they hold: the inductive invariants.                                *)

(* A tree or a message has one sequence number for a name and session, and *)
(* they are those of an instance.                                          *)
IsMessage(m) ==
  /\ \A s \in m : \E p \in Instances : Owns(p, s)
  /\ \A s, t \in m : SameNode(s, t) => s = t

MessagesInv ==
  /\ \A p \in Instances :
       /\ IsMessage(tree[p])
       /\ \A k \in DOMAIN log[p] : IsMessage(log[p][k].data)
       /\ \A d \in cache[p] : IsMessage(d.content)
  /\ \A m \in network : IsMessage(m.content)

(* The tree has come after all the trees that are logged.                  *)
Precedes(t, u) == \A s \in t : \E n \in u : SameNode(n, s) /\ s.seq <= n.seq

LogInv ==
  \A p \in Instances : \A k \in DOMAIN log[p] : Precedes(log[p][k].digest, tree[p])

(* An instance whose tree is empty has not begun, or waits for the initial *)
(* Interest only.                                                          *)
StartInv ==
  \A p \in Instances :
    /\ status[p] = "new" => tree[p] = {} /\ pending[p] = {} /\ timers[p] = {}
    /\ tree[p] = {} =>
         /\ Len(log[p]) = 1 /\ log[p][1].digest = {}
         /\ sequenceNo[p] = PreviousOf[p] /\ initialized[p] = 0
         /\ status[p] = "running" => pending[p] = {SyncName({})}
    /\ SyncName({}) \in pending[p] => initialized[p] = 0

(* Data only goes to Interests that are pending.                           *)
NetworkInv == \A m \in network : m.name \in pending[m.to]

SyncInv == TypeOK /\ MessagesInv /\ LogInv /\ StartInv /\ NetworkInv /\ RootIsAsked

(* An instance has published what its tree has of it, when all instances   *)
(* of its prefix are of one session.                                       *)
SingleSession ==
  \A p, q \in Instances : PrefixOf[p] = PrefixOf[q] => SessionOf[p] = SessionOf[q]

OwnNumbersInv ==
  \A p \in Instances : \A s \in tree[p] : Owns(p, s) => s.seq <= sequenceNo[p]

NumbersInv == OwnNumbersInv /\ SequenceNoIsOwn /\ PublishSucceeds

(* When nothing is published before, onInitialized is called by the first  *)
(* Data or timeout.                                                        *)
BegunInv ==
  \A p \in Instances :
    status[p] = "running" =>
      IF tree[p] = {} THEN initialized[p] = 0
      ELSE initialized[p] = 1 /\ SyncName({}) \notin pending[p]
=============================================================================
