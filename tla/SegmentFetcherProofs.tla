------------------------ MODULE SegmentFetcherProofs ------------------------
(***************************************************************************)
(* A fetch has one result at most, and onComplete is called with the whole *)
(* of one version, for any Data that arrives.                              *)
(***************************************************************************)
EXTENDS SegmentFetcher, FiniteSetTheorems, TLAPS

(* The fetch waits for one Data, verifies one, or is over.                 *)
Waits(name) == interest = {name} /\ verifying = {} /\ results = <<>>
Verifies(data) == interest = {} /\ verifying = {data} /\ results = <<>>
IsOver == interest = {} /\ verifying = {} /\ Len(results) <= 1

OneAtATime ==
  \/ \E name \in interest : Waits(name)
  \/ \E data \in Packets : Verifies(data)
  \/ IsOver

(* The contents so far are verified segments 0, 1, ..., of which only the  *)
(* last one of a fetch that is over can be the final block.                *)
PartsInOrder ==
  \A i \in DOMAIN contentParts :
    /\ contentParts[i].valid /\ Last(contentParts[i].name) = i - 1
    /\ contentParts[i].finalBlock = i - 1 => i = Len(contentParts) /\ results # <<>>

CompleteHasFinal ==
  \A k \in DOMAIN results : results[k] = "complete" =>
    /\ contentParts # <<>>
    /\ contentParts[Len(contentParts)].finalBlock = Len(contentParts) - 1

(* What comes next is of the version of the contents.                      *)
IsOf(name, version) == 1 \in DOMAIN name /\ name[1] = version

SameVersion ==
  \A i \in DOMAIN contentParts :
    LET version == contentParts[i].name[1] IN
    /\ \A j \in DOMAIN contentParts : contentParts[j].name[1] = version
    /\ \A name \in interest : IsOf(name, version)
    /\ \A data \in verifying : data.name[1] = version

Results == {"complete", "timeout", "no segment", "not verified"}

FetchInv ==
  /\ contentParts \in Seq(Packets) /\ results \in Seq(Results)
  /\ OneAtATime /\ PartsInOrder /\ CompleteHasFinal /\ SameVersion
-----------------------------------------------------------------------------
(* The Interest for another segment of a Data names its version.           *)
LEMMA NextNameIsOf ==
  ASSUME NEW data \in Packets, HasSegment(data), NEW segment
  PROVE  IsOf(NextName(data, segment), data.name[1])
<1> DEFINE n == data.name
           S == {n[k] : k \in DOMAIN n}
<1>1. n \in Seq(S) /\ n # <<>> /\ n[1] \notin Nat /\ n[Len(n)] \in Nat
  BY FetcherAssumption DEF HasSegment, Last
<1> HIDE DEF n, S
<1>2. Len(n) \in Nat /\ Len(n) > 1
  BY <1>1
<1>3. /\ Parent(n) \in Seq(S) /\ Len(Parent(n)) = Len(n) - 1
      /\ Parent(n)[1] = n[1]
  BY <1>1, <1>2 DEF Parent
<1> DEFINE p == Parent(n)
           T == S \cup {segment}
<1> HIDE DEF p
<1>4. p \in Seq(T) /\ Len(p) >= 1 /\ p[1] = n[1]
  BY <1>2, <1>3 DEF p
<1>5. 1 \in DOMAIN Append(p, segment) /\ Append(p, segment)[1] = n[1]
  BY <1>4
<1> QED
  BY <1>5 DEF IsOf, NextName, n, p

(* The Data that answers an Interest which names a version is of it.       *)
LEMMA AnswerIsOf ==
  ASSUME NEW name, NEW data \in Packets, NEW version,
         IsOf(name, version), IsPrefixOf(name, data.name)
  PROVE  data.name[1] = version
BY DEF IsOf, IsPrefixOf

LEMMA FirstFetch == Init => FetchInv
BY DEF Init, FetchInv, OneAtATime, Waits, PartsInOrder, CompleteHasFinal, SameVersion

(* A call is the first result.                                             *)
LEMMA CallIsFirst ==
  ASSUME results = <<>>, NEW r \in Results, Call(r)
  PROVE  /\ results' \in Seq(Results) /\ Len(results') = 1
         /\ \A k \in DOMAIN results' : results'[k] = r
<1>1. <<>> \in Seq(Results) /\ results' = Append(<<>>, r)
  BY DEF Call
<1> QED
  BY <1>1

(* An error ends the fetch.                                                *)
LEMMA ErrorKeeps ==
  ASSUME FetchInv, results = <<>>, NEW r \in Results \ {"complete"}, Call(r),
         interest' = {}, verifying' = {}, contentParts' = contentParts
  PROVE  FetchInv'
<1>1. /\ results' \in Seq(Results) /\ Len(results') = 1 /\ results' # <<>>
      /\ \A k \in DOMAIN results' : results'[k] # "complete"
  BY CallIsFirst
<1> QED
  BY <1>1 DEF FetchInv, OneAtATime, IsOver, PartsInOrder, CompleteHasFinal, SameVersion

LEMMA TimeoutKeeps ==
  ASSUME FetchInv, NEW name, OnTimeout(name)
  PROVE  FetchInv'
<1>1. results = <<>> /\ interest = {name} /\ verifying = {}
  BY DEF FetchInv, OneAtATime, Waits, Verifies, IsOver, OnTimeout
<1>2. /\ Call("timeout") /\ contentParts' = contentParts
      /\ interest' = {} /\ verifying' = {}
  BY <1>1 DEF OnTimeout
<1> QED
  BY <1>1, <1>2, ErrorKeeps DEF Results

LEMMA SegmentReceivedKeeps ==
  ASSUME FetchInv, NEW name, NEW data \in Packets, OnSegmentReceived(name, data)
  PROVE  FetchInv'
<1>1. results = <<>> /\ interest = {name} /\ verifying = {}
  BY DEF FetchInv, OneAtATime, Waits, Verifies, IsOver, OnSegmentReceived
<1>2. /\ interest' = {} /\ verifying' = {data} /\ results' = <<>>
      /\ contentParts' = contentParts /\ results' = results
  BY <1>1 DEF OnSegmentReceived
<1>3. OneAtATime'
  BY <1>2 DEF OneAtATime, Verifies
<1>4. SameVersion'
  <2> SUFFICES ASSUME NEW i \in DOMAIN contentParts
               PROVE  data.name[1] = contentParts[i].name[1]
    BY <1>2 DEF SameVersion, FetchInv
  <2>1. IsOf(name, contentParts[i].name[1])
    BY <1>1 DEF SameVersion, FetchInv
  <2> QED
    BY <2>1, AnswerIsOf DEF OnSegmentReceived
<1> QED
  BY <1>2, <1>3, <1>4 DEF FetchInv, PartsInOrder, CompleteHasFinal

LEMMA VerifiesOne ==
  ASSUME FetchInv, NEW data \in verifying
  PROVE  data \in Packets /\ Verifies(data)
BY DEF FetchInv, OneAtATime, Waits, Verifies, IsOver

LEMMA ValidationFailedKeeps ==
  ASSUME FetchInv, NEW data \in verifying, OnValidationFailed(data)
  PROVE  FetchInv'
<1>1. interest = {} /\ verifying = {data} /\ results = <<>>
  BY VerifiesOne DEF Verifies
<1>2. /\ Call("not verified") /\ contentParts' = contentParts
      /\ interest' = {} /\ verifying' = {}
  BY <1>1 DEF OnValidationFailed
<1> QED
  BY <1>1, <1>2, ErrorKeeps DEF Results

LEMMA ThrowKeeps ==
  ASSUME FetchInv, NEW data \in verifying, VerifyThrows(data)
  PROVE  FetchInv'
<1>1. interest = {} /\ verifying = {data} /\ results = <<>>
  BY VerifiesOne DEF Verifies
<1>2. /\ interest' = {} /\ verifying' = {} /\ results' = results
      /\ contentParts' = contentParts
  BY <1>1 DEF VerifyThrows
<1> QED
  BY <1>1, <1>2 DEF FetchInv, OneAtATime, IsOver, PartsInOrder, CompleteHasFinal, SameVersion
-----------------------------------------------------------------------------
(* The next segment is appended: with a result the fetch is over, without  *)
(* one the segment was not the final block.                                *)
LEMMA AppendKeeps ==
  ASSUME FetchInv, NEW data \in Packets, Verifies(data), data.valid,
         IsExpected(data), contentParts' = Append(contentParts, data),
         results' \in Seq(Results), Len(results') <= 1, verifying' = {},
         \/ interest' = {} /\ results' # <<>>
         \/ /\ interest' = {NextName(data, Last(data.name) + 1)} /\ results' = <<>>
            /\ data.finalBlock # Last(data.name) /\ HasSegment(data),
         \A k \in DOMAIN results' :
           results'[k] = "complete" => data.finalBlock = Last(data.name)
  PROVE  FetchInv'
<1> DEFINE n == Len(contentParts)
<1>1. contentParts \in Seq(Packets) /\ n \in Nat
  BY DEF FetchInv
<1>2. /\ contentParts' \in Seq(Packets) /\ DOMAIN contentParts' = 1 .. n + 1
      /\ DOMAIN contentParts = 1 .. n /\ Len(contentParts') = n + 1
      /\ contentParts'[n + 1] = data
      /\ \A i \in 1 .. n : contentParts'[i] = contentParts[i]
  BY <1>1
<1>3. Last(data.name) = n
  BY DEF IsExpected
<1> HIDE DEF n
<1>4. OneAtATime'
  BY DEF OneAtATime, Waits, IsOver
<1>5. PartsInOrder'
  <2> SUFFICES ASSUME NEW i \in 1 .. n + 1
               PROVE  /\ contentParts'[i].valid /\ Last(contentParts'[i].name) = i - 1
                      /\ contentParts'[i].finalBlock = i - 1 => i = n + 1 /\ results' # <<>>
    BY <1>2 DEF PartsInOrder
  <2>1. CASE i = n + 1
    BY <1>1, <1>2, <1>3, <2>1
  <2>2. CASE i # n + 1
    <3>1. i \in 1 .. n
      BY <1>1, <2>2
    <3>2. /\ contentParts[i].valid /\ Last(contentParts[i].name) = i - 1
          /\ contentParts[i].finalBlock # i - 1
      BY <3>1, <1>2 DEF FetchInv, PartsInOrder, Verifies
    <3> QED
      BY <3>1, <3>2, <1>2
  <2> QED
    BY <2>1, <2>2
<1>6. CompleteHasFinal'
  BY <1>1, <1>2, <1>3 DEF CompleteHasFinal
<1>7. SameVersion'
  <2>1. \A i \in 1 .. n + 1 : contentParts'[i].name[1] = data.name[1]
    <3> SUFFICES ASSUME NEW i \in 1 .. n + 1
                 PROVE  contentParts'[i].name[1] = data.name[1]
      OBVIOUS
    <3>1. CASE i = n + 1
      BY <1>2, <3>1
    <3>2. CASE i # n + 1
      <4>1. i \in 1 .. n
        BY <1>1, <3>2
      <4> QED
        BY <4>1, <1>2 DEF FetchInv, SameVersion, Verifies
    <3> QED
      BY <3>1, <3>2
  <2>2. \A name \in interest' : IsOf(name, data.name[1])
    BY NextNameIsOf
  <2> QED
    BY <1>2, <2>1, <2>2 DEF SameVersion
<1> QED
  BY <1>2, <1>4, <1>5, <1>6, <1>7 DEF FetchInv

LEMMA AppendAndEnd ==
  ASSUME FetchInv, NEW data \in Packets, Verifies(data), data.valid,
         IsExpected(data), contentParts' = Append(contentParts, data),
         NEW r \in Results, Call(r), interest' = {}, verifying' = {},
         r = "complete" => data.finalBlock = Last(data.name)
  PROVE  FetchInv'
<1>1. /\ results' \in Seq(Results) /\ Len(results') = 1
      /\ \A k \in DOMAIN results' : results'[k] = r
  BY CallIsFirst DEF Verifies
<1>2. Len(<<>>) = 0
  OBVIOUS
<1>3. Len(results') = 1
  BY <1>1
<1>4. results' # <<>> /\ Len(results') <= 1
  BY <1>2, <1>3
<1> QED
  BY <1>1, <1>4, AppendKeeps

LEMMA VerifiedKeeps ==
  ASSUME FetchInv, NEW data \in verifying, OnVerified(data)
  PROVE  FetchInv'
<1>1. data \in Packets /\ Verifies(data) /\ data.valid /\ verifying' = {}
  BY VerifiesOne DEF OnVerified, Verifies
<1>2. interest = {} /\ results = <<>>
  BY <1>1 DEF Verifies
<1>3. CASE ~HasSegment(data)
  <2>1. /\ Call("no segment") /\ interest' = {} /\ contentParts' = contentParts
    BY <1>2, <1>3 DEF OnVerified
  <2> QED
    BY <1>1, <1>2, <2>1, ErrorKeeps DEF Results
<1>4. CASE HasSegment(data) /\ IsExpected(data)
  <2>1. Accept(data)
    BY <1>4 DEF OnVerified
  <2>0. Last(data.name) # BadSegment
    BY <1>4, FetcherAssumption DEF HasSegment
  <2>2. CASE data.finalBlock = BadSegment
    <3>1. Call("no segment") /\ interest' = {}
      BY <1>2, <2>0, <2>1, <2>2 DEF Accept, Fail
    <3> QED
      BY <1>1, <1>4, <2>1, <3>1, AppendAndEnd DEF Accept, Results
  <2>3. CASE data.finalBlock # BadSegment /\ data.finalBlock = Last(data.name)
    <3>1. Call("complete") /\ interest' = {}
      BY <1>2, <2>1, <2>3 DEF Accept
    <3> QED
      BY <1>1, <1>4, <2>1, <2>3, <3>1, AppendAndEnd DEF Accept, Results
  <2>4. CASE data.finalBlock # BadSegment /\ data.finalBlock # Last(data.name)
    <3>1. FetchNext(data, Last(data.name) + 1)
      BY <2>1, <2>4 DEF Accept
    <3>2. interest' = {NextName(data, Last(data.name) + 1)} /\ results' = <<>>
      BY <1>2, <3>1 DEF FetchNext
    <3>3. results' \in Seq(Results) /\ Len(results') <= 1
      BY <3>2
    <3> QED
      BY <1>1, <1>4, <2>1, <2>4, <3>2, <3>3, AppendKeeps DEF Accept
  <2> QED
    BY <2>2, <2>3, <2>4
<1>5. CASE HasSegment(data) /\ ~IsExpected(data)
  <2>1. /\ interest' = {NextName(data, ExpectedSegment(data))} /\ results' = <<>>
        /\ contentParts' = contentParts /\ results' = results
    BY <1>2, <1>5 DEF OnVerified, FetchNext
  <2>2. OneAtATime'
    BY <1>1, <2>1 DEF OneAtATime, Waits
  <2>3. SameVersion'
    <3> SUFFICES ASSUME NEW i \in DOMAIN contentParts
                 PROVE  IsOf(NextName(data, ExpectedSegment(data)), contentParts[i].name[1])
      BY <1>1, <2>1 DEF SameVersion, FetchInv
    <3>1. data.name[1] = contentParts[i].name[1]
      BY DEF FetchInv, SameVersion
    <3> QED
      BY <1>1, <1>5, <3>1, NextNameIsOf
  <2> QED
    BY <2>1, <2>2, <2>3 DEF FetchInv, PartsInOrder, CompleteHasFinal
<1> QED
  BY <1>3, <1>4, <1>5

(* In every reachable state the fetch waits for one thing, and what it has *)
(* is the beginning of one version (segment-fetcher.cpp).                  *)
THEOREM FetchIsKept == Spec => []FetchInv
<1>1. FetchInv /\ [Next]_vars => FetchInv'
  <2> SUFFICES ASSUME FetchInv, [Next]_vars PROVE FetchInv'
    OBVIOUS
  <2>1. ASSUME NEW name \in interest, OnTimeout(name) PROVE FetchInv'
    BY <2>1, TimeoutKeeps
  <2>2. ASSUME NEW name \in interest, NEW d \in Packets, OnSegmentReceived(name, d)
        PROVE  FetchInv'
    BY <2>2, SegmentReceivedKeeps
  <2>3. ASSUME NEW d \in verifying, OnValidationFailed(d) \/ OnVerified(d) \/ VerifyThrows(d)
        PROVE  FetchInv'
    BY <2>3, ValidationFailedKeeps, VerifiedKeeps, ThrowKeeps
  <2>4. CASE UNCHANGED vars
    BY <2>4 DEF vars, FetchInv, OneAtATime, Waits, Verifies, IsOver, PartsInOrder,
                CompleteHasFinal, SameVersion
  <2> QED
    BY <2>1, <2>2, <2>3, <2>4 DEF Next
<1> QED
  BY FirstFetch, <1>1, PTL DEF Spec

(* Never both onComplete and onError, nor one of them twice, and no        *)
(* Interest after them.                                                    *)
THEOREM FetchHasOneResult == Spec => []OneResult
<1>1. FetchInv => OneResult
  <2> SUFFICES ASSUME FetchInv PROVE OneResult
    OBVIOUS
  <2>1. Cardinality({}) = 0 /\ Len(<<>>) = 0
    BY FS_EmptySet
  <2>2. ASSUME NEW name \in interest, Waits(name) PROVE OneResult
    <3>1. Cardinality({name}) = 1
      BY FS_Singleton
    <3> QED
      BY <2>1, <2>2, <3>1 DEF OneResult, Waits
  <2>3. ASSUME NEW data \in Packets, Verifies(data) PROVE OneResult
    <3>1. Cardinality({data}) = 1
      BY FS_Singleton
    <3> QED
      BY <2>1, <2>3, <3>1 DEF OneResult, Verifies
  <2>4. CASE IsOver
    <3>1. Len(results) \in Nat
      BY DEF FetchInv
    <3> QED
      BY <2>1, <2>4, <3>1 DEF OneResult, IsOver
  <2> QED
    BY <2>2, <2>3, <2>4 DEF FetchInv, OneAtATime
<1> QED
  BY <1>1, FetchIsKept, PTL

(* onComplete is called with all segments up to the final block, verified. *)
THEOREM CompleteFetchIsWhole == Spec => []CompleteIsWhole
<1>1. FetchInv => CompleteIsWhole
  <2> SUFFICES ASSUME FetchInv, NEW k \in DOMAIN results, results[k] = "complete",
                      NEW i \in DOMAIN contentParts
               PROVE  contentParts[i].finalBlock = i - 1 <=> i = Len(contentParts)
    BY DEF FetchInv, CompleteIsWhole, PartsInOrder, CompleteHasFinal
  <2> QED
    BY DEF FetchInv, PartsInOrder, CompleteHasFinal
<1> QED
  BY <1>1, FetchIsKept, PTL

(* The contents are never put together from two versions of the object.    *)
THEOREM PartsAreOfOneVersion == Spec => []OneVersion
<1>1. FetchInv => OneVersion
  BY DEF FetchInv, SameVersion, OneVersion
<1> QED
  BY <1>1, FetchIsKept, PTL
=============================================================================
