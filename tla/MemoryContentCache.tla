------------------------- MODULE MemoryContentCache -------------------------
(***************************************************************************)
(* The cache with which a producer answers Interests, and the Interests it *)
(* stores until their Data is added                                        *)
(* (src/src/util/memory-content-cache.cpp).  Everything runs on the thread *)
(* of processEvents, but doCleanup calls onContentRemoved and onInterest   *)
(* calls onDataNotFound, and these callbacks call the cache again.  The    *)
(* executions of add and onInterest are therefore a stack of frames.       *)
(***************************************************************************)
EXTENDS Integers, Sequences, FiniteSets

CONSTANTS
  Prefixes,          \* the prefixes that are registered
  Data,              \* Data packets: [name, component, freshness], where
                     \* component is the rank of the name component that
                     \* follows the name of the Interest (0: there is none)
                     \* and freshness is -1 when it is omitted
  Interests,         \* Interests: [names, child, mustBeFresh, lifetime],
                     \* where names are those that matchesName accepts
  Callbacks,         \* the kinds of onDataNotFound that are registered: none,
                     \* getStorePendingInterest() or one of the application
  CleanupInterval,   \* cleanupIntervalMilliseconds_
  MinLifetimes,      \* what setMinimumCacheLifetime is given
  HasOnContentRemoved, \* whether setOnContentRemoved was called
  SendFails,         \* whether Face::send can throw
  MaxAdded, MaxStored, MaxArrived, MaxFilters, MaxClock, MaxDepth  \* bounds

ASSUME CacheAssumption ==
  /\ CleanupInterval \in Nat \ {0} /\ MinLifetimes \subseteq Nat
  /\ HasOnContentRemoved \in BOOLEAN /\ SendFails \in BOOLEAN
  /\ \A b \in {MaxAdded, MaxStored, MaxArrived, MaxFilters, MaxClock, MaxDepth} :
       b \in Nat
  /\ Callbacks \subseteq {"none", "store", "application"}
  /\ \A d \in Data : d.component \in Nat /\ d.freshness \in Nat \cup {-1}
  /\ \A i \in Interests : /\ i.child \in {-1, 0, 1}
                          /\ i.mustBeFresh \in BOOLEAN /\ i.lifetime \in Nat

VARIABLES
  clock,        \* ndn_getNowMilliseconds()
  contents,     \* every Data added so far, with its times
  staleTime,    \* staleTimeCache_, as positions in contents
  noStaleTime,  \* noStaleTimeCache_, as positions in contents
  removed,      \* the contents given to onContentRemoved, in order
  stored,       \* every Interest stored so far, with its times
  pending,      \* pendingInterestTable_, as positions in stored: it is in
                \* the order of storing
  sent,         \* the replies to stored Interests
  failed,       \* the replies to stored Interests whose send threw
  answer,       \* the outcome of the onInterest that ended last
  nextCleanup,  \* nextCleanupTime_
  minLifetime,  \* minimumCacheLifetime_
  filters,      \* the prefixes in registeredPrefixIdList_ and
                \* interestFilterIdList_, which the Face calls onInterest for
  notFound,     \* onDataNotFoundForPrefix_
  frames,       \* the add and onInterest being executed, the innermost last
  dispatch,     \* the calls of onInterest the Face still makes for an Interest
  arrived       \* how many Interests arrived

cacheVars == <<contents, staleTime, noStaleTime, removed, nextCleanup>>
pendingVars == <<stored, pending, sent, failed>>
prefixVars == <<minLifetime, filters, notFound>>
faceVars == <<dispatch, arrived>>
vars == <<clock, cacheVars, pendingVars, prefixVars, faceVars, frames, answer>>

NoAnswer == [content |-> -1]

Contents == [data : Data, at : Nat, least : Nat, removal : Nat, expiry : Int]
PendingInterests == [interest : Interests, timeout : Nat, since : Nat]
Calls == [op : {"add"}, data : Data]
         \cup [op : {"onInterest"}, interest : Interests, prefix : Prefixes]
Frames == [call : Calls, now : Nat, at : {"body", "onContentRemoved", "onDataNotFound"}]

TypeOK ==
  /\ clock \in Nat /\ nextCleanup \in Nat /\ minLifetime \in Nat
  /\ contents \in Seq(Contents)
  /\ staleTime \in Seq(DOMAIN contents) /\ noStaleTime \in Seq(DOMAIN contents)
  /\ removed \in Seq(DOMAIN contents)
  /\ stored \in Seq(PendingInterests) /\ pending \subseteq DOMAIN stored
  /\ sent \cup failed \subseteq [key : DOMAIN stored, content : DOMAIN contents]
  /\ answer \in {NoAnswer}
                 \cup [content : {0} \cup DOMAIN contents, interest : Interests, now : Nat]
  /\ filters \in Seq(Prefixes) /\ notFound \in [Prefixes -> {"none"} \cup Callbacks]
  /\ frames \in Seq(Frames)
  /\ dispatch \in [prefixes : {<<>>}] \cup [prefixes : Seq(Prefixes), interest : Interests]
  /\ arrived \in Nat

Init ==
  /\ clock = 0 /\ contents = <<>> /\ staleTime = <<>> /\ noStaleTime = <<>>
  /\ removed = <<>> /\ stored = <<>> /\ pending = {} /\ sent = {}
  /\ failed = {}
  /\ answer = NoAnswer /\ nextCleanup = CleanupInterval /\ minLifetime = 0
  /\ filters = <<>> /\ notFound = [p \in Prefixes |-> "none"]
  /\ frames = <<>> /\ dispatch = [prefixes |-> <<>>] /\ arrived = 0

Top == frames[Len(frames)]
Pop == SubSeq(frames, 1, Len(frames) - 1)
IsAt(place) == frames # <<>> /\ Top.at = place
Callee(place) == Append(Pop, [Top EXCEPT !.at = place])

(* The application runs between events and inside the callbacks.           *)
ApplicationRuns ==
  \/ frames = <<>> /\ dispatch.prefixes = <<>>
  \/ IsAt("onContentRemoved") \/ IsAt("onDataNotFound")

-----------------------------------------------------------------------------
(* The registrations.  The callback of the last one for a prefix is used.  *)
RegisterPrefix(prefix, callback) ==
  /\ ApplicationRuns /\ Len(filters) < MaxFilters
  /\ filters' = Append(filters, prefix)
  /\ notFound' = [notFound EXCEPT ![prefix] = callback]
  /\ UNCHANGED <<clock, cacheVars, pendingVars, minLifetime, faceVars, frames, answer>>

UnregisterAll ==
  /\ ApplicationRuns
  /\ filters' = <<>>
  /\ notFound' = [p \in Prefixes |-> "none"]
  /\ UNCHANGED <<clock, cacheVars, pendingVars, minLifetime, faceVars, frames, answer>>

SetMinimumCacheLifetime(lifetime) ==
  /\ ApplicationRuns
  /\ minLifetime' = lifetime
  /\ UNCHANGED <<clock, cacheVars, pendingVars, filters, notFound, faceVars, frames, answer>>

-----------------------------------------------------------------------------
(* Pending Interests.  The mutant forgets the time of storing.             *)
MatchesName(interest, data) == data.name \in interest.names

IsTimedOutAtStart(key, now) == now >= stored[key].interest.lifetime
IsTimedOut(key, now) == now >= stored[key].timeout

Store(interest) ==
  /\ Len(stored) < MaxStored
  /\ stored' = Append(stored, [interest |-> interest,
                               timeout |-> clock + interest.lifetime,
                               since |-> Len(contents)])
  /\ pending' = pending \cup {Len(stored) + 1}
  /\ UNCHANGED <<sent, failed>>

StorePendingInterest(interest) ==
  /\ ApplicationRuns
  /\ Store(interest)
  /\ UNCHANGED <<clock, cacheVars, prefixVars, faceVars, frames, answer>>

(* getPendingInterestsForName and getPendingInterestsWithPrefix.           *)
GetPendingInterests ==
  /\ ApplicationRuns
  /\ pending' = {key \in pending : ~IsTimedOut(key, clock)}
  /\ UNCHANGED <<clock, cacheVars, stored, sent, failed, prefixVars, faceVars, frames, answer>>

-----------------------------------------------------------------------------
(* doCleanup, which add and onInterest call first.  It erases the contents *)
(* at the front that are past their removal time, then calls               *)
(* onContentRemoved; calls made by that callback do no cleanup.            *)
IsPastRemovalTime(id, now) == contents[id].removal <= now

IsDoingCleanup == \E k \in DOMAIN frames : frames[k].at = "onContentRemoved"
IsCleanupDue == ~IsDoingCleanup /\ clock >= nextCleanup

PastAtFront ==
  CHOOSE n \in 0 .. Len(staleTime) :
    /\ \A k \in 1 .. n : IsPastRemovalTime(staleTime[k], clock)
    /\ n < Len(staleTime) => ~IsPastRemovalTime(staleTime[n + 1], clock)

RemovedFirst(n) == SubSeq(staleTime, 1, n)

DoCleanup(frame) ==
  LET n == IF IsCleanupDue THEN PastAtFront ELSE 0
      place == IF n > 0 /\ HasOnContentRemoved THEN "onContentRemoved" ELSE "body"
  IN  /\ Len(frames) < MaxDepth
      /\ staleTime' = SubSeq(staleTime, n + 1, Len(staleTime))
      /\ removed' = removed \o RemovedFirst(n)
      /\ nextCleanup' = IF IsCleanupDue THEN clock + CleanupInterval ELSE nextCleanup
      /\ frames' = Append(frames, [call |-> frame, now |-> clock, at |-> place])
      /\ UNCHANGED <<contents, noStaleTime>>

OnContentRemovedReturns ==
  /\ IsAt("onContentRemoved")
  /\ frames' = Callee("body")
  /\ UNCHANGED <<clock, cacheVars, pendingVars, prefixVars, faceVars, answer>>

-----------------------------------------------------------------------------
(* add, whose frame keeps the time it read before the cleanup.             *)
AddsInProgress == Cardinality({k \in DOMAIN frames : frames[k].call.op = "add"})

Add(data) ==
  /\ ApplicationRuns
  /\ Len(contents) + AddsInProgress < MaxAdded
  /\ DoCleanup([op |-> "add", data |-> data])
  /\ answer' = NoAnswer
  /\ UNCHANGED <<clock, pendingVars, prefixVars, faceVars>>

MinOf(a, b) == IF a < b THEN a ELSE b
MaxOf(a, b) == IF a > b THEN a ELSE b

KeptAtMost(data) == MinOf(data.freshness, minLifetime)
KeptFor(data) == MaxOf(data.freshness, minLifetime)

(* lower_bound on the removal time.  The mutant takes the back.            *)
InsertionPoint(removal) ==
  CHOOSE k \in 1 .. Len(staleTime) + 1 :
    /\ \A j \in 1 .. k - 1 : contents[staleTime[j]].removal < removal
    /\ k <= Len(staleTime) => removal <= contents[staleTime[k]].removal

InsertLast(id, removal) == Append(staleTime, id)
InsertSorted(id, removal) ==
  LET k == InsertionPoint(removal)
  IN  SubSeq(staleTime, 1, k - 1) \o <<id>> \o SubSeq(staleTime, k, Len(staleTime))

Insert(data, now) ==
  LET id == Len(contents) + 1
      removal == now + KeptFor(data)
  IN  /\ contents' = Append(contents,
           [data |-> data, at |-> now, least |-> minLifetime,
            removal |-> removal, expiry |-> now + data.freshness])
      /\ IF data.freshness >= 0
         THEN staleTime' = InsertSorted(id, removal) /\ UNCHANGED noStaleTime
         ELSE noStaleTime' = Append(noStaleTime, id) /\ UNCHANGED staleTime
      /\ UNCHANGED <<removed, nextCleanup>>

(* The loop goes backward over the pending Interests.  It ends at the send *)
(* which throws, if any.  The mutant does not reach the first Interest.    *)
IsAnswered(key, data, now) ==
  ~IsTimedOut(key, now) /\ MatchesName(stored[key].interest, data)

LoopEnds(data, now) ==
  {0} \cup {key \in pending : SendFails /\ IsAnswered(key, data, now)}

VisitedButFirst(end) == {key \in pending : key > end + 1}
Visited(end) == {key \in pending : key > end}

AnswerPending(data, now) ==
  \E end \in LoopEnds(data, now) :
    LET replied == {key \in Visited(end) : IsAnswered(key, data, now)}
        replies(keys) == [key : keys, content : {Len(contents) + 1}]
    IN  /\ pending' = pending \ (replied \cup {key \in Visited(end) : IsTimedOut(key, now)})
        /\ sent' = sent \cup replies(replied)
        /\ failed' = failed \cup replies({end} \ {0})
        /\ UNCHANGED stored

AddBody ==
  /\ IsAt("body") /\ Top.call.op = "add"
  /\ Insert(Top.call.data, Top.now)
  /\ AnswerPending(Top.call.data, Top.now)
  /\ frames' = Pop
  /\ answer' = NoAnswer
  /\ UNCHANGED <<clock, prefixVars, faceVars>>

-----------------------------------------------------------------------------
(* onInterest.  Node::dispatchInterest collects the filters that match,    *)
(* then calls onInterest for each.                                         *)
ReceiveInterest(interest) ==
  /\ frames = <<>> /\ dispatch.prefixes = <<>> /\ filters # <<>>
  /\ arrived < MaxArrived
  /\ arrived' = arrived + 1
  /\ dispatch' = [prefixes |-> filters, interest |-> interest]
  /\ UNCHANGED <<clock, cacheVars, pendingVars, prefixVars, frames, answer>>

OnInterest ==
  /\ frames = <<>> /\ dispatch.prefixes # <<>>
  /\ dispatch' =
       IF Len(dispatch.prefixes) = 1 THEN [prefixes |-> <<>>]
       ELSE [dispatch EXCEPT !.prefixes = Tail(dispatch.prefixes)]
  /\ DoCleanup([op |-> "onInterest", interest |-> dispatch.interest,
                prefix |-> Head(dispatch.prefixes)])
  /\ answer' = NoAnswer
  /\ UNCHANGED <<clock, pendingVars, prefixVars, arrived>>

IsFresh(id, now) == contents[id].data.freshness < 0 \/ contents[id].expiry > now

IsCandidate(id, interest, now) ==
  /\ MatchesName(interest, contents[id].data)
  /\ ~(interest.mustBeFresh /\ ~IsFresh(id, now))

ComponentOf(id) == contents[id].data.component

(* Leftmost for a ChildSelector of 0, else rightmost.                      *)
IsBetterLeftmost(id, selected, child) == ComponentOf(id) < ComponentOf(selected)
IsBetter(id, selected, child) ==
  \/ child = 0 /\ ComponentOf(id) < ComponentOf(selected)
  \/ child = 1 /\ ComponentOf(id) > ComponentOf(selected)

(* The loop over both caches: what is selected after k contents, 0 if      *)
(* nothing.                                                                *)
Selected(interest, now) ==
  LET all == staleTime \o noStaleTime
      after[k \in 0 .. Len(all)] ==
        IF k = 0 THEN 0
        ELSE IF /\ IsCandidate(all[k], interest, now)
                /\ after[k - 1] # 0 =>
                     IsBetter(all[k], after[k - 1], interest.child)
             THEN all[k] ELSE after[k - 1]
  IN  after[Len(all)]

OnInterestBody ==
  LET call == Top.call
      selected == Selected(call.interest, Top.now)
      callback == notFound[call.prefix]
  IN  /\ IsAt("body") /\ call.op = "onInterest"
      /\ answer' = [content |-> selected, interest |-> call.interest, now |-> Top.now]
      /\ IF selected = 0 /\ callback = "store" THEN Store(call.interest)
         ELSE UNCHANGED pendingVars
      /\ frames' = IF selected = 0 /\ callback = "application"
                   THEN Callee("onDataNotFound") ELSE Pop
      /\ UNCHANGED <<clock, cacheVars, prefixVars, faceVars>>

OnDataNotFoundReturns ==
  /\ IsAt("onDataNotFound")
  /\ frames' = Pop
  /\ UNCHANGED <<clock, cacheVars, pendingVars, prefixVars, faceVars, answer>>

(* The clock is the time of day.  Here it only goes forward.               *)
Tick ==
  /\ clock < MaxClock
  /\ clock' = clock + 1
  /\ UNCHANGED <<cacheVars, pendingVars, prefixVars, faceVars, frames, answer>>

Next ==
  \/ \E p \in Prefixes, c \in Callbacks : RegisterPrefix(p, c)
  \/ UnregisterAll
  \/ \E t \in MinLifetimes : SetMinimumCacheLifetime(t)
  \/ \E i \in Interests : StorePendingInterest(i) \/ ReceiveInterest(i)
  \/ GetPendingInterests
  \/ \E d \in Data : Add(d)
  \/ AddBody \/ OnContentRemovedReturns
  \/ OnInterest \/ OnInterestBody \/ OnDataNotFoundReturns
  \/ Tick

Spec == Init /\ [][Next]_vars

-----------------------------------------------------------------------------
(* doCleanup only looks at the front of staleTimeCache_ (lines 316-331).   *)
(* Nothing past its removal time is left behind, whatever freshness        *)
(* periods and minimum lifetimes the contents were added with, and no Data *)
(* is given to onContentRemoved while it is fresh, nor before the minimum  *)
(* lifetime that was set when it was added.                                *)
CleanupIsExact ==
  [][/\ nextCleanup' # nextCleanup =>
          \A k \in DOMAIN staleTime' : ~IsPastRemovalTime(staleTime'[k], clock)
     /\ \A k \in Len(removed) + 1 .. Len(removed') :
          LET c == contents[removed'[k]]
          IN  clock >= c.at + c.data.freshness /\ clock >= c.at + c.least]_vars

(* A stored Interest stays in the table until it is answered or its        *)
(* lifetime is over, whichever call goes through the table.                *)
LivePendingIsKept ==
  \A key \in DOMAIN stored :
    \/ key \in pending
    \/ \E s \in sent : s.key = key
    \/ clock >= stored[key].timeout

(* No Interest is left waiting for Data which was added after the Interest *)
(* was stored, also when it was stored by onContentRemoved, called by the  *)
(* very add: unless its own reply could not be sent.                       *)
AddAnswersPending ==
  \A key \in pending :
    LET p == stored[key]
    IN  \A id \in p.since + 1 .. Len(contents) :
          MatchesName(p.interest, contents[id].data) =>
            \/ contents[id].at >= p.timeout
            \/ [key |-> key, content |-> id] \in failed

(* onInterest replies with the leftmost or rightmost of the contents which *)
(* the Interest accepts, or the first without ChildSelector, and reports   *)
(* that there is none only when there is none.                             *)
AnswerIsBest ==
  answer.content # -1 =>
    LET all == staleTime \o noStaleTime
        candidates == {k \in DOMAIN all : IsCandidate(all[k], answer.interest, answer.now)}
        best == {k \in candidates : \A j \in candidates :
                   CASE answer.interest.child = -1 -> k <= j
                     [] answer.interest.child = 0 ->
                          ComponentOf(all[k]) <= ComponentOf(all[j])
                     [] OTHER -> ComponentOf(all[k]) >= ComponentOf(all[j])}
    IN  IF answer.content = 0 THEN candidates = {}
        ELSE \E k \in best : all[k] = answer.content

(* An Interest with MustBeFresh is answered with fresh Data, from the      *)
(* cache and from add: "True if the content must be fresh" (interest.hpp,  *)
(* line 449).                                                              *)
MustBeFreshGetsFresh ==
  \A s \in sent :
    stored[s.key].interest.mustBeFresh => IsFresh(s.content, contents[s.content].at)

(* After unregisterAll the cache "will not receive interests any more"     *)
(* (memory-content-cache.hpp, line 304).                                   *)
UnregisteredReceivesNothing ==
  [][OnInterest => \E k \in DOMAIN filters : filters[k] = Head(dispatch.prefixes)]_vars

-----------------------------------------------------------------------------
(* Why they hold: the inductive invariant.                                 *)

RemovalOf(k) == contents[staleTime[k]].removal

(* staleTimeCache_ is sorted, which both lower_bound and doCleanup rely on.*)
StaleTimeIsSorted ==
  \A j, k \in DOMAIN staleTime : j < k => RemovalOf(j) <= RemovalOf(k)

(* Every time was read from the clock, and no content is removed early.    *)
TimesInv ==
  /\ \A k \in DOMAIN frames : frames[k].now <= clock
  /\ \A id \in DOMAIN contents :
       LET c == contents[id]
       IN  c.removal >= c.at + c.data.freshness /\ c.removal >= c.at + c.least

(* A matching Data which leaves an Interest waiting came too late, or its  *)
(* add ended at a send that threw, of this or of an Interest stored later. *)
EndedAtSend(id, key) == \E s \in failed : s.content = id /\ s.key >= key
AddsReachPending ==
  \A key \in pending : \A id \in stored[key].since + 1 .. Len(contents) :
    MatchesName(stored[key].interest, contents[id].data) =>
      contents[id].at >= stored[key].timeout \/ EndedAtSend(id, key)

CacheInv ==
  /\ TypeOK /\ StaleTimeIsSorted /\ TimesInv
  /\ LivePendingIsKept /\ AddsReachPending /\ AnswerIsBest
=============================================================================
