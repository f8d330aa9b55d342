---------------------------- MODULE CacheProofs -----------------------------
(***************************************************************************)
(* The cache answers with the best of its contents, keeps the Interests    *)
(* that wait and removes exactly what is due, for any Data, Interests and  *)
(* nesting of its calls.                                                   *)
(***************************************************************************)
EXTENDS MemoryContentCache, SequenceTheorems, WellFoundedInduction, TLAPS

(* A set of positions has a first one.                                     *)
LEMMA FirstPosition ==
  ASSUME NEW T, T \subseteq Nat, T # {}
  PROVE  \E x \in T : \A y \in T : x <= y
<1> DEFINE R == OpToRel(<, Nat)
<1>1. PICK x \in T : \A y \in T : <<y, x>> \notin R
  BY NatLessThanWellFounded, WFMin
<1>2. \A y \in T : ~(y < x)
  BY <1>1 DEF OpToRel
<1> QED BY <1>2

(* What holds before a loop and is kept by each round holds after it.      *)
LEMMA LoopKeeps ==
  ASSUME NEW n \in Nat, NEW S, 0 \in S, \A k \in 1 .. n : k - 1 \in S => k \in S
  PROVE  n \in S
<1> DEFINE T == (0 .. n) \ S
<1>1. ASSUME T # {} PROVE FALSE
  <2>1. T \subseteq Nat
    OBVIOUS
  <2>2. PICK m \in T : \A k \in T : m <= k
    BY <1>1, <2>1, FirstPosition
  <2>3. m \in 1 .. n /\ m - 1 \in 0 .. n /\ m - 1 \notin T
    BY <2>2
  <2> QED BY <2>2, <2>3
<1> QED BY <1>1

-----------------------------------------------------------------------------
(* The loop of onInterest.                                                 *)

All == staleTime \o noStaleTime

LEMMA AllTypes ==
  ASSUME TypeOK
  PROVE  /\ All \in Seq(DOMAIN contents) /\ Len(All) \in Nat /\ DOMAIN All = 1 .. Len(All)
         /\ \A k \in 1 .. Len(All) : All[k] \in DOMAIN contents
         /\ DOMAIN contents \subseteq Nat \ {0}
         /\ \A id \in DOMAIN contents : contents[id] \in Contents /\ ComponentOf(id) \in Nat
<1>1. All \in Seq(DOMAIN contents)
  BY ConcatProperties DEF TypeOK, All
<1> HIDE DEF All
<1>2. \A id \in DOMAIN contents : contents[id] \in Contents
  BY DEF TypeOK
<1>3. DOMAIN contents \subseteq Nat \ {0}
  BY DEF TypeOK
<1>4. Len(All) \in Nat /\ DOMAIN All = 1 .. Len(All)
  BY <1>1
<1>5. \A k \in 1 .. Len(All) : All[k] \in DOMAIN contents
  BY <1>1
<1> QED BY <1>1, <1>2, <1>3, <1>4, <1>5, CacheAssumption DEF Contents, ComponentOf

Chosen(k, v, interest, now) ==
  IF /\ IsCandidate(All[k], interest, now)
     /\ v # 0 => IsBetter(All[k], v, interest.child)
  THEN All[k] ELSE v

(* What is selected after each of the first m rounds.                      *)
AreRounds(f, m, interest, now) ==
  f = [k \in 0 .. m |-> IF k = 0 THEN 0 ELSE Chosen(k, f[k - 1], interest, now)]

LEMMA RoundsByElement ==
  ASSUME NEW m, NEW interest, NEW now, NEW f
  PROVE  AreRounds(f, m, interest, now) <=>
           /\ f = [k \in 0 .. m |-> f[k]]
           /\ \A k \in 0 .. m :
                f[k] = IF k = 0 THEN 0 ELSE Chosen(k, f[k - 1], interest, now)
<1> DEFINE value(k) == IF k = 0 THEN 0 ELSE Chosen(k, f[k - 1], interest, now)
           h == [k \in 0 .. m |-> value(k)]
<1> HIDE DEF value
<1>1. ASSUME f = h PROVE f = [k \in 0 .. m |-> f[k]] /\ \A k \in 0 .. m : f[k] = value(k)
  <2>1. h = [k \in 0 .. m |-> h[k]] /\ \A k \in 0 .. m : h[k] = value(k)
    OBVIOUS
  <2> HIDE DEF h
  <2> QED BY <1>1, <2>1
<1>2. ASSUME f = [k \in 0 .. m |-> f[k]], \A k \in 0 .. m : f[k] = value(k)
      PROVE  f = h
  BY <1>2, Zenon
<1> QED BY <1>1, <1>2 DEF AreRounds, value

(* The loop has a result, so that its recursive definition is a function.  *)
LEMMA RoundsExist ==
  ASSUME NEW n \in Nat, NEW interest, NEW now
  PROVE  \E f : AreRounds(f, n, interest, now)
<1> DEFINE T == {m \in Nat : \A f : ~AreRounds(f, m, interest, now)}
<1>1. ASSUME T # {} PROVE FALSE
  <2>1. T \subseteq Nat
    OBVIOUS
  <2>2. PICK m \in T : \A k \in T : m <= k
    BY <1>1, <2>1, FirstPosition
  <2>3. m # 0
    <3> DEFINE zero == [k \in 0 .. 0 |-> 0]
    <3>1. zero = [k \in 0 .. 0 |-> zero[k]]
      OBVIOUS
    <3>2. ASSUME NEW k \in 0 .. 0
          PROVE  zero[k] = IF k = 0 THEN 0 ELSE Chosen(k, zero[k - 1], interest, now)
      OBVIOUS
    <3> HIDE DEF zero
    <3>3. AreRounds(zero, 0, interest, now)
      BY <3>1, <3>2, RoundsByElement
    <3> QED BY <2>2, <3>3
  <2>4. m \in Nat /\ m - 1 \in Nat /\ m - 1 \notin T
    BY <2>2, <2>3
  <2>5. PICK f : AreRounds(f, m - 1, interest, now)
    BY <2>4
  <2>6. \A k \in 0 .. m - 1 :
          f[k] = IF k = 0 THEN 0 ELSE Chosen(k, f[k - 1], interest, now)
    BY <2>5, RoundsByElement
  <2> DEFINE g == [k \in 0 .. m |->
                     IF k = m THEN Chosen(m, f[m - 1], interest, now) ELSE f[k]]
  <2>7. ASSUME NEW k \in 0 .. m
        PROVE  g[k] = IF k = 0 THEN 0 ELSE Chosen(k, g[k - 1], interest, now)
    <3>1. CASE k = m
      <4>1. k - 1 \in 0 .. m /\ k - 1 # m /\ k # 0
        BY <2>3, <2>4, <3>1
      <4> QED BY <3>1, <4>1
    <3>2. CASE k # m
      <4>1. k \in 0 .. m - 1
        BY <2>4, <3>2
      <4>2. k = 0 \/ (k - 1 \in 0 .. m /\ k - 1 # m)
        BY <4>1, <2>4
      <4> QED BY <2>6, <3>2, <4>1, <4>2
    <3> QED BY <3>1, <3>2
  <2>8. g = [k \in 0 .. m |-> g[k]]
    OBVIOUS
  <2> HIDE DEF g
  <2>9. AreRounds(g, m, interest, now)
    BY <2>7, <2>8, RoundsByElement
  <2> QED BY <2>2, <2>9
<1>2. n \notin T
  BY <1>1
<1> QED BY <1>2

LEMMA SelectedByLoop ==
  ASSUME TypeOK, NEW interest, NEW now
  PROVE  \E f : /\ f[0] = 0 /\ f[Len(All)] = Selected(interest, now)
                /\ \A k \in 1 .. Len(All) : f[k] = Chosen(k, f[k - 1], interest, now)
<1> DEFINE n == Len(All)
           f == CHOOSE h : AreRounds(h, n, interest, now)
<1>1. n \in Nat
  BY AllTypes
<1>2. Selected(interest, now) = f[n]
  BY Zenon DEF Selected, Chosen, All, AreRounds
<1> HIDE DEF n
<1>3. AreRounds(f, n, interest, now)
  BY <1>1, RoundsExist
<1> HIDE DEF f
<1>4. \A k \in 0 .. n : f[k] = IF k = 0 THEN 0 ELSE Chosen(k, f[k - 1], interest, now)
  BY <1>3, RoundsByElement
<1>5. 0 \in 0 .. n /\ \A k \in 1 .. n : k \in 0 .. n /\ k # 0
  BY <1>1
<1>6. f[0] = 0 /\ \A k \in 1 .. n : f[k] = Chosen(k, f[k - 1], interest, now)
  BY <1>4, <1>5
<1> QED BY <1>2, <1>6 DEF n

(* Whether an Interest prefers the i-th content to the j-th.               *)
Precedes(i, j, child) ==
  CASE child = -1 -> i <= j
    [] child = 0 -> ComponentOf(All[i]) <= ComponentOf(All[j])
    [] OTHER -> ComponentOf(All[i]) >= ComponentOf(All[j])

Candidates(k, interest, now) == {j \in 1 .. k : IsCandidate(All[j], interest, now)}

BestOf(v, k, interest, now) ==
  IF v = 0 THEN Candidates(k, interest, now) = {}
  ELSE \E i \in Candidates(k, interest, now) :
         /\ All[i] = v
         /\ \A j \in Candidates(k, interest, now) : Precedes(i, j, interest.child)

LEMMA PrecedesIsOrder ==
  ASSUME TypeOK, NEW child \in {-1, 0, 1}, NEW i \in 1 .. Len(All), NEW j \in 1 .. Len(All)
  PROVE  /\ Precedes(i, i, child)
         /\ i < j => (IsBetter(All[j], All[i], child) <=> ~Precedes(i, j, child))
         /\ i < j => Precedes(i, j, child) \/ Precedes(j, i, child)
         /\ \A k \in 1 .. Len(All) :
              Precedes(i, j, child) /\ Precedes(j, k, child) => Precedes(i, k, child)
<1>1. \A k \in 1 .. Len(All) : ComponentOf(All[k]) \in Nat
  BY AllTypes
<1>2. Len(All) \in Nat
  BY AllTypes
<1>3. \A a, b : IsBetter(a, b, child) <=>
        \/ child = 0 /\ ComponentOf(a) < ComponentOf(b)
        \/ child = 1 /\ ComponentOf(a) > ComponentOf(b)
  BY DEF IsBetter
<1>4. CASE child = -1
  BY <1>2, <1>3, <1>4 DEF Precedes
<1>5. CASE child = 0
  BY <1>1, <1>3, <1>5 DEF Precedes
<1>6. CASE child = 1
  BY <1>1, <1>3, <1>6 DEF Precedes
<1> QED BY <1>4, <1>5, <1>6

LEMMA RoundKeepsBest ==
  ASSUME TypeOK, NEW interest \in Interests, NEW now, NEW k \in 1 .. Len(All), NEW v,
         BestOf(v, k - 1, interest, now)
  PROVE  BestOf(Chosen(k, v, interest, now), k, interest, now)
<1> DEFINE C(m) == Candidates(m, interest, now)
           child == interest.child
<1>1. Len(All) \in Nat /\ All[k] # 0
  BY AllTypes
<1>2. child \in {-1, 0, 1}
  BY CacheAssumption
<1>3. C(k - 1) \subseteq 1 .. k - 1 /\ 1 .. k - 1 \subseteq 1 .. Len(All)
  BY <1>1 DEF Candidates
<1>4. CASE ~IsCandidate(All[k], interest, now)
  <2>1. C(k) = C(k - 1)
    BY <1>1, <1>4 DEF Candidates
  <2> QED BY <1>4, <2>1 DEF BestOf, Chosen
<1>5. CASE IsCandidate(All[k], interest, now)
  <2>1. C(k) = C(k - 1) \cup {k}
    BY <1>1, <1>5 DEF Candidates
  <2>2. CASE v = 0
    <3>1. C(k) = {k} /\ Chosen(k, v, interest, now) = All[k]
      BY <1>5, <2>1, <2>2 DEF BestOf, Chosen
    <3> QED BY <1>1, <1>2, <3>1, PrecedesIsOrder DEF BestOf
  <2>3. CASE v # 0
    <3>1. PICK i \in C(k - 1) : All[i] = v /\ \A j \in C(k - 1) : Precedes(i, j, child)
      BY <2>3 DEF BestOf
    <3>2. i \in 1 .. Len(All) /\ i < k
      BY <1>3, <3>1
    <3>3. CASE Precedes(i, k, child)
      <4>1. Chosen(k, v, interest, now) = v
        BY <1>2, <2>3, <3>1, <3>2, <3>3, PrecedesIsOrder DEF Chosen
      <4>2. i \in C(k) /\ \A j \in C(k) : Precedes(i, j, child)
        BY <2>1, <3>1, <3>3
      <4> QED BY <2>3, <3>1, <4>1, <4>2 DEF BestOf
    <3>4. CASE ~Precedes(i, k, child)
      <4>1. Chosen(k, v, interest, now) = All[k]
        BY <1>2, <1>5, <2>3, <3>1, <3>2, <3>4, PrecedesIsOrder DEF Chosen
      <4>2. Precedes(k, i, child) /\ Precedes(k, k, child)
        BY <1>2, <3>2, <3>4, PrecedesIsOrder
      <4>3. \A j \in C(k - 1) : Precedes(k, j, child)
        BY <1>2, <1>3, <3>1, <3>2, <4>2, PrecedesIsOrder
      <4>4. k \in C(k) /\ \A j \in C(k) : Precedes(k, j, child)
        BY <2>1, <4>2, <4>3
      <4> QED BY <1>1, <4>1, <4>4 DEF BestOf
    <3> QED BY <3>3, <3>4
  <2> QED BY <2>2, <2>3
<1> QED BY <1>4, <1>5

(* onInterest selects the best candidate of both caches.                   *)
LEMMA SelectedIsBest ==
  ASSUME TypeOK, NEW interest \in Interests, NEW now
  PROVE  /\ BestOf(Selected(interest, now), Len(All), interest, now)
         /\ Selected(interest, now) \in {0} \cup DOMAIN contents
<1> DEFINE n == Len(All)
<1>1. PICK f : /\ f[0] = 0 /\ f[n] = Selected(interest, now)
               /\ \A k \in 1 .. n : f[k] = Chosen(k, f[k - 1], interest, now)
  BY SelectedByLoop
<1> DEFINE S == {k \in 0 .. n : BestOf(f[k], k, interest, now)}
<1>2. n \in Nat
  BY AllTypes
<1>3. 0 \in S
  <2>1. Candidates(0, interest, now) = {}
    BY DEF Candidates
  <2> QED BY <1>1, <1>2, <2>1 DEF BestOf
<1>4. ASSUME NEW k \in 1 .. n, k - 1 \in S PROVE k \in S
  <2>1. BestOf(f[k - 1], k - 1, interest, now)
    BY <1>4
  <2>2. BestOf(f[k], k, interest, now)
    BY <1>1, <2>1, RoundKeepsBest
  <2> QED BY <1>2, <2>2
<1>5. n \in S
  <2> HIDE DEF S, n
  <2> QED BY <1>2, <1>3, <1>4, LoopKeeps
<1>6. BestOf(Selected(interest, now), n, interest, now)
  BY <1>1, <1>5
<1>7. \A i \in 1 .. n : All[i] \in DOMAIN contents
  BY AllTypes
<1>8. Candidates(n, interest, now) \subseteq 1 .. n
  BY DEF Candidates
<1> QED BY <1>6, <1>7, <1>8 DEF BestOf

-----------------------------------------------------------------------------
(* The calls being executed.                                               *)

LEMMA ElementTypes ==
  ASSUME TypeOK
  PROVE  /\ \A id \in DOMAIN contents :
              /\ contents[id].data \in Data /\ contents[id].at \in Nat
              /\ contents[id].removal \in Nat /\ contents[id].data.freshness \in Int
         /\ \A key \in DOMAIN stored :
              /\ stored[key].interest \in Interests
              /\ stored[key].timeout \in Nat /\ stored[key].since \in Nat
         /\ \A k \in DOMAIN frames : frames[k].now \in Nat
         /\ Len(contents) \in Nat /\ DOMAIN contents = 1 .. Len(contents)
         /\ Len(stored) \in Nat /\ DOMAIN stored = 1 .. Len(stored)
<1>1. \A id \in DOMAIN contents : contents[id] \in Contents
  BY DEF TypeOK
<1>2. \A key \in DOMAIN stored : stored[key] \in PendingInterests
  BY DEF TypeOK
<1>3. \A k \in DOMAIN frames : frames[k] \in Frames
  BY DEF TypeOK
<1>4. /\ Len(contents) \in Nat /\ DOMAIN contents = 1 .. Len(contents)
      /\ Len(stored) \in Nat /\ DOMAIN stored = 1 .. Len(stored)
  BY DEF TypeOK
<1>5. \A d \in Data : d.freshness \in Int
  BY CacheAssumption
<1> QED BY <1>1, <1>2, <1>3, <1>4, <1>5 DEF Contents, PendingInterests, Frames

LEMMA FrameTypes ==
  ASSUME TypeOK, frames # <<>>
  PROVE  /\ Len(frames) \in DOMAIN frames /\ Top = frames[Len(frames)]
         /\ Top \in Frames /\ Pop \in Seq(Frames)
         /\ \A k \in DOMAIN Pop : k \in DOMAIN frames /\ Pop[k] = frames[k]
         /\ \A place \in {"body", "onContentRemoved", "onDataNotFound"} :
              /\ Callee(place) \in Seq(Frames)
              /\ \A k \in DOMAIN Callee(place) :
                   k \in DOMAIN frames /\ Callee(place)[k].now = frames[k].now
<1>1. frames \in Seq(Frames) /\ Len(frames) \in Nat \ {0} /\ DOMAIN frames = 1 .. Len(frames)
  BY DEF TypeOK
<1>2. Top = frames[Len(frames)] /\ Top \in Frames
  BY <1>1 DEF Top
<1>3. /\ Pop \in Seq(Frames) /\ Len(Pop) = Len(frames) - 1
      /\ \A k \in 1 .. Len(frames) - 1 : Pop[k] = frames[k]
  BY <1>1 DEF Pop
<1>4. ASSUME NEW place \in {"body", "onContentRemoved", "onDataNotFound"}
      PROVE  /\ Callee(place) \in Seq(Frames)
             /\ \A k \in DOMAIN Callee(place) :
                  k \in DOMAIN frames /\ Callee(place)[k].now = frames[k].now
  <2> DEFINE e == [Top EXCEPT !.at = place]
  <2>1. e \in Frames /\ e.now = Top.now
    BY <1>2 DEF Frames, Calls
  <2> HIDE DEF e
  <2>2. Callee(place) = Append(Pop, e)
    BY DEF Callee, e
  <2>3. /\ Callee(place) \in Seq(Frames) /\ Len(Callee(place)) = Len(Pop) + 1
        /\ \A k \in 1 .. Len(Pop) : Callee(place)[k] = Pop[k]
        /\ Callee(place)[Len(Pop) + 1] = e
    BY <1>3, <2>1, <2>2, AppendProperties
  <2> HIDE DEF e
  <2>4. DOMAIN Callee(place) = 1 .. Len(frames)
    BY <1>1, <1>3, <2>3
  <2>5. ASSUME NEW k \in 1 .. Len(frames) PROVE Callee(place)[k].now = frames[k].now
    <3>1. CASE k = Len(frames)
      BY <1>1, <1>2, <1>3, <2>1, <2>3, <3>1
    <3>2. CASE k # Len(frames)
      <4>1. k \in 1 .. Len(frames) - 1
        <5>1. Len(frames) \in Nat
          BY <1>1
        <5> QED BY <3>2, <5>1
      <4>2. k \in 1 .. Len(Pop)
        BY <1>3, <4>1
      <4> QED BY <1>3, <2>3, <4>1, <4>2
    <3> QED BY <3>1, <3>2
  <2> QED BY <1>1, <2>3, <2>4, <2>5
<1>5. DOMAIN Pop = 1 .. Len(frames) - 1
  BY <1>1, <1>3
<1> QED BY <1>1, <1>2, <1>3, <1>4, <1>5

(* What remains true of an answer while nothing is added or removed.       *)
LEMMA AnswerStays ==
  ASSUME AnswerIsBest,
         answer' = NoAnswer \/ UNCHANGED <<answer, contents, staleTime, noStaleTime>>
  PROVE  AnswerIsBest'
<1>1. CASE answer' = NoAnswer
  BY <1>1 DEF AnswerIsBest, NoAnswer
<1>2. CASE UNCHANGED <<answer, contents, staleTime, noStaleTime>>
  BY <1>2 DEF AnswerIsBest, IsCandidate, IsFresh, MatchesName, ComponentOf
<1> QED BY <1>1, <1>2

-----------------------------------------------------------------------------
(* The steps which do not touch the cache.                                 *)

LEMMA RegistrationsKeep ==
  ASSUME CacheInv,
         \/ \E p \in Prefixes, c \in Callbacks : RegisterPrefix(p, c)
         \/ UnregisterAll
         \/ \E t \in MinLifetimes : SetMinimumCacheLifetime(t)
         \/ \E i \in Interests : ReceiveInterest(i)
  PROVE  CacheInv'
<1> USE DEF CacheInv
<1>1. UNCHANGED <<clock, contents, staleTime, noStaleTime, removed, nextCleanup,
                  stored, pending, sent, failed, frames, answer>>
  BY DEF RegisterPrefix, UnregisterAll, SetMinimumCacheLifetime, ReceiveInterest,
         cacheVars, pendingVars
<1>2. /\ minLifetime' \in Nat /\ filters' \in Seq(Prefixes)
      /\ notFound' \in [Prefixes -> {"none"} \cup Callbacks]
      /\ dispatch' \in [prefixes : {<<>>}] \cup [prefixes : Seq(Prefixes), interest : Interests]
      /\ arrived' \in Nat
  <2>1. CASE \E p \in Prefixes, c \in Callbacks : RegisterPrefix(p, c)
    BY <2>1 DEF RegisterPrefix, TypeOK, faceVars
  <2>2. CASE UnregisterAll
    BY <2>2 DEF UnregisterAll, TypeOK, faceVars
  <2>3. CASE \E t \in MinLifetimes : SetMinimumCacheLifetime(t)
    BY <2>3, CacheAssumption DEF SetMinimumCacheLifetime, TypeOK, faceVars
  <2>4. CASE \E i \in Interests : ReceiveInterest(i)
    BY <2>4 DEF ReceiveInterest, TypeOK, prefixVars
  <2> QED BY <2>1, <2>2, <2>3, <2>4
<1>3. TypeOK'
  BY <1>1, <1>2 DEF TypeOK
<1>4. StaleTimeIsSorted' /\ TimesInv' /\ LivePendingIsKept' /\ AddsReachPending'
  BY <1>1 DEF StaleTimeIsSorted, RemovalOf, TimesInv, LivePendingIsKept, AddsReachPending,
              EndedAtSend, MatchesName
<1>5. AnswerIsBest'
  BY <1>1, AnswerStays
<1> QED BY <1>3, <1>4, <1>5

LEMMA TickKeeps ==
  ASSUME CacheInv, Tick
  PROVE  CacheInv'
<1> USE DEF CacheInv
<1>1. /\ UNCHANGED <<contents, staleTime, noStaleTime, removed, nextCleanup,
                     stored, pending, sent, failed, minLifetime, filters, notFound,
                     dispatch, arrived, frames, answer>>
      /\ clock' = clock + 1 /\ clock \in Nat
  BY DEF Tick, cacheVars, pendingVars, prefixVars, faceVars, TypeOK
<1>2. TypeOK'
  BY <1>1 DEF TypeOK
<1>3. StaleTimeIsSorted' /\ AddsReachPending'
  BY <1>1 DEF StaleTimeIsSorted, RemovalOf, AddsReachPending, EndedAtSend, MatchesName
<1>4. TimesInv'
  <2>1. \A k \in DOMAIN frames : frames[k].now \in Nat
    BY ElementTypes
  <2> QED BY <1>1, <2>1 DEF TimesInv
<1>5. LivePendingIsKept'
  <2>1. \A key \in DOMAIN stored : stored[key].timeout \in Nat
    BY ElementTypes
  <2> QED BY <1>1, <2>1 DEF LivePendingIsKept
<1>6. AnswerIsBest'
  BY <1>1, AnswerStays
<1> QED BY <1>2, <1>3, <1>4, <1>5, <1>6

LEMMA CallbackReturnKeeps ==
  ASSUME CacheInv, OnContentRemovedReturns \/ OnDataNotFoundReturns
  PROVE  CacheInv'
<1> USE DEF CacheInv
<1>1. UNCHANGED <<clock, contents, staleTime, noStaleTime, removed, nextCleanup,
                  stored, pending, sent, failed, minLifetime, filters, notFound,
                  dispatch, arrived, answer>>
  BY DEF OnContentRemovedReturns, OnDataNotFoundReturns, cacheVars, pendingVars, prefixVars,
         faceVars
<1>2. /\ frames' \in Seq(Frames)
      /\ \A k \in DOMAIN frames' : k \in DOMAIN frames /\ frames'[k].now = frames[k].now
  <2>1. frames # <<>> /\ (frames' = Callee("body") \/ frames' = Pop)
    BY DEF OnContentRemovedReturns, OnDataNotFoundReturns, IsAt
  <2> QED BY <2>1, FrameTypes
<1>3. TypeOK'
  BY <1>1, <1>2 DEF TypeOK
<1>4. TimesInv'
  BY <1>1, <1>2 DEF TimesInv
<1>5. StaleTimeIsSorted' /\ LivePendingIsKept' /\ AddsReachPending'
  BY <1>1 DEF StaleTimeIsSorted, RemovalOf, LivePendingIsKept, AddsReachPending,
              EndedAtSend, MatchesName
<1>6. AnswerIsBest'
  BY <1>1, AnswerStays
<1> QED BY <1>3, <1>4, <1>5, <1>6

-----------------------------------------------------------------------------
(* doCleanup, with which Add and OnInterest begin.                         *)

LEMMA FrontIsPast ==
  ASSUME TypeOK
  PROVE  /\ PastAtFront \in 0 .. Len(staleTime)
         /\ \A k \in 1 .. PastAtFront : IsPastRemovalTime(staleTime[k], clock)
         /\ PastAtFront < Len(staleTime) =>
              ~IsPastRemovalTime(staleTime[PastAtFront + 1], clock)
<1> DEFINE T == {m \in 0 .. Len(staleTime) :
                   m < Len(staleTime) => ~IsPastRemovalTime(staleTime[m + 1], clock)}
<1>1. Len(staleTime) \in Nat
  BY DEF TypeOK
<1>2. Len(staleTime) \in T /\ T \subseteq Nat
  BY <1>1
<1>3. PICK n \in T : \A m \in T : n <= m
  <2> HIDE DEF T
  <2> QED BY <1>2, FirstPosition
<1>4. ASSUME NEW k \in 1 .. n PROVE IsPastRemovalTime(staleTime[k], clock)
  <2>1. k - 1 \in 0 .. Len(staleTime) /\ k - 1 < n /\ k - 1 + 1 = k
    BY <1>1, <1>3
  <2>2. ~(n <= k - 1)
    BY <1>1, <2>1
  <2>3. k - 1 \notin T
    BY <1>3, <2>2
  <2> QED BY <2>1, <2>3
<1>5. \E m \in 0 .. Len(staleTime) :
         /\ \A k \in 1 .. m : IsPastRemovalTime(staleTime[k], clock)
         /\ m < Len(staleTime) => ~IsPastRemovalTime(staleTime[m + 1], clock)
  BY <1>3, <1>4
<1> HIDE DEF T
<1> QED BY <1>5 DEF PastAtFront

(* What a doCleanup removes is past its removal time, what it leaves is not*)
(* if it was due, and the rest is as it was.                               *)
LEMMA CleanupRemovesPast ==
  ASSUME CacheInv, NEW frame, DoCleanup(frame)
  PROVE  /\ staleTime' \in Seq(DOMAIN contents) /\ removed' \in Seq(DOMAIN contents)
         /\ \A j, k \in DOMAIN staleTime' :
              j < k => contents[staleTime'[j]].removal <= contents[staleTime'[k]].removal
         /\ IsCleanupDue =>
              \A k \in DOMAIN staleTime' : ~IsPastRemovalTime(staleTime'[k], clock)
         /\ \A k \in Len(removed) + 1 .. Len(removed') :
              removed'[k] \in DOMAIN contents /\ IsPastRemovalTime(removed'[k], clock)
<1> USE DEF CacheInv
<1>1. /\ staleTime \in Seq(DOMAIN contents) /\ removed \in Seq(DOMAIN contents)
      /\ Len(staleTime) \in Nat /\ Len(removed) \in Nat
      /\ DOMAIN staleTime = 1 .. Len(staleTime)
      /\ \A k \in DOMAIN staleTime : staleTime[k] \in DOMAIN contents
  BY DEF TypeOK
<1>2. PICK n \in 0 .. Len(staleTime) :
        /\ staleTime' = SubSeq(staleTime, n + 1, Len(staleTime))
        /\ removed' = removed \o SubSeq(staleTime, 1, n)
        /\ \A k \in 1 .. n : IsPastRemovalTime(staleTime[k], clock)
        /\ IsCleanupDue /\ n < Len(staleTime) => ~IsPastRemovalTime(staleTime[n + 1], clock)
  <2>1. CASE IsCleanupDue
    BY <2>1, FrontIsPast DEF DoCleanup, RemovedFirst
  <2>2. CASE ~IsCleanupDue
    <3>1. 0 \in 0 .. Len(staleTime) /\ \A k \in 1 .. 0 : FALSE
      BY <1>1
    <3> QED BY <2>2, <3>1 DEF DoCleanup, RemovedFirst
  <2> QED BY <2>1, <2>2
<1>3. /\ staleTime' \in Seq(DOMAIN contents) /\ DOMAIN staleTime' = 1 .. Len(staleTime) - n
      /\ \A k \in 1 .. Len(staleTime) - n :
           n + k \in DOMAIN staleTime /\ staleTime'[k] = staleTime[n + k]
  <2>1. \A k \in n + 1 .. Len(staleTime) : staleTime[k] \in DOMAIN contents
    BY <1>1
  <2>2. n + 1 \in Int /\ Len(staleTime) \in Int
    BY <1>1
  <2>3. /\ staleTime' \in Seq(DOMAIN contents)
        /\ Len(staleTime') = IF n + 1 <= Len(staleTime) THEN Len(staleTime) - (n + 1) + 1 ELSE 0
        /\ \A k \in 1 .. Len(staleTime) - (n + 1) + 1 : staleTime'[k] = staleTime[n + 1 + k - 1]
    BY <1>2, <2>1, <2>2, SubSeqProperties
  <2>4. Len(staleTime') = Len(staleTime) - n
    <3>1. Len(staleTime) - n =
            IF n + 1 <= Len(staleTime) THEN Len(staleTime) - (n + 1) + 1 ELSE 0
      <4>1. Len(staleTime) \in Nat
        BY <1>1
      <4> QED BY <4>1
    <3> QED BY <2>3, <3>1
  <2>5. DOMAIN staleTime' = 1 .. Len(staleTime) - n
    BY <2>3, <2>4
  <2>6. ASSUME NEW k \in 1 .. Len(staleTime) - n
        PROVE  n + k \in DOMAIN staleTime /\ staleTime'[k] = staleTime[n + k]
    <3>1. k \in 1 .. Len(staleTime) - (n + 1) + 1 /\ n + 1 + k - 1 = n + k
          /\ n + k \in 1 .. Len(staleTime)
      BY <1>1
    <3> QED BY <1>1, <2>3, <3>1
  <2> QED BY <2>3, <2>5, <2>6
<1> DEFINE front == SubSeq(staleTime, 1, n)
<1>4. /\ front \in Seq(DOMAIN contents) /\ Len(front) = n
      /\ \A k \in 1 .. n : front[k] = staleTime[k]
  BY <1>1
<1> HIDE DEF front
<1>5. /\ removed' \in Seq(DOMAIN contents) /\ Len(removed') = Len(removed) + n
      /\ \A k \in 1 .. Len(removed) + n :
           removed'[k] = IF k <= Len(removed) THEN removed[k] ELSE front[k - Len(removed)]
  <2>1. removed' = removed \o front
    BY <1>2 DEF front
  <2> QED BY <1>1, <1>4, <2>1, ConcatProperties
<1>6. ASSUME NEW j \in DOMAIN staleTime', NEW k \in DOMAIN staleTime', j < k
      PROVE  contents[staleTime'[j]].removal <= contents[staleTime'[k]].removal
  <2>1. n + j < n + k
    BY <1>3, <1>6
  <2> QED BY <1>3, <2>1 DEF StaleTimeIsSorted, RemovalOf
<1>7. ASSUME IsCleanupDue, NEW k \in DOMAIN staleTime'
      PROVE  ~IsPastRemovalTime(staleTime'[k], clock)
  <2>1. n + 1 \in DOMAIN staleTime /\ n + k \in DOMAIN staleTime /\ n < Len(staleTime)
        /\ n + 1 <= n + k /\ staleTime'[k] = staleTime[n + k]
    BY <1>1, <1>3
  <2>2. ~IsPastRemovalTime(staleTime[n + 1], clock)
    BY <1>2, <1>7, <2>1
  <2>3. RemovalOf(n + 1) <= RemovalOf(n + k)
    <3>1. RemovalOf(n + 1) \in Nat
      BY <1>1, <2>1, ElementTypes DEF RemovalOf
    <3>2. CASE n + 1 = n + k
      BY <3>1, <3>2
    <3>3. CASE n + 1 # n + k
      <4>1. n + 1 < n + k
        BY <1>1, <1>3, <2>1, <3>3
      <4> QED BY <2>1, <4>1 DEF StaleTimeIsSorted
    <3> QED BY <3>2, <3>3
  <2>4. RemovalOf(n + 1) \in Nat /\ RemovalOf(n + k) \in Nat /\ clock \in Nat
    BY <1>1, <2>1, ElementTypes DEF RemovalOf, TypeOK
  <2> QED BY <2>1, <2>2, <2>3, <2>4 DEF IsPastRemovalTime, RemovalOf
<1>8. ASSUME NEW k \in Len(removed) + 1 .. Len(removed')
      PROVE  removed'[k] \in DOMAIN contents /\ IsPastRemovalTime(removed'[k], clock)
  <2>1. k \in 1 .. Len(removed) + n /\ ~(k <= Len(removed)) /\ k - Len(removed) \in 1 .. n
        /\ k - Len(removed) \in DOMAIN staleTime
    BY <1>1, <1>5
  <2>2. removed'[k] = staleTime[k - Len(removed)]
    BY <1>4, <1>5, <2>1
  <2> QED BY <1>1, <1>2, <2>1, <2>2
<1> QED BY <1>3, <1>5, <1>6, <1>7, <1>8

(* Add and OnInterest.                                                     *)
LEMMA CallKeeps ==
  ASSUME CacheInv, (\E d \in Data : Add(d)) \/ OnInterest
  PROVE  CacheInv'
<1> USE DEF CacheInv
<1>1. PICK frame \in Calls : DoCleanup(frame)
  <2>1. CASE \E d \in Data : Add(d)
    BY <2>1 DEF Add, Calls
  <2>2. CASE OnInterest
    <3>1. /\ dispatch.prefixes # <<>>
          /\ dispatch \in [prefixes : {<<>>}] \cup [prefixes : Seq(Prefixes), interest : Interests]
      BY <2>2 DEF OnInterest, TypeOK
    <3>2. /\ dispatch.prefixes \in Seq(Prefixes) /\ dispatch.prefixes # <<>>
          /\ dispatch.interest \in Interests
      BY <3>1
    <3>3. Head(dispatch.prefixes) \in Prefixes
      BY <3>2
    <3> QED BY <2>2, <3>2, <3>3 DEF OnInterest, Calls
  <2> QED BY <2>1, <2>2
<1>2. /\ UNCHANGED <<clock, contents, noStaleTime, stored, pending, sent, failed,
                     minLifetime, filters, notFound>>
      /\ answer' = NoAnswer
  BY <1>1 DEF Add, OnInterest, DoCleanup, pendingVars, prefixVars
<1>3. arrived' = arrived /\ clock \in Nat
  BY DEF Add, OnInterest, faceVars, TypeOK
<1>4. dispatch' \in [prefixes : {<<>>}] \cup [prefixes : Seq(Prefixes), interest : Interests]
  <2>1. CASE \E d \in Data : Add(d)
    BY <2>1 DEF Add, faceVars, TypeOK
  <2>2. CASE OnInterest
    <3>1. dispatch \in [prefixes : Seq(Prefixes), interest : Interests] /\ dispatch.prefixes # <<>>
      <4>1. dispatch \in [prefixes : {<<>>}] => dispatch.prefixes = <<>>
        OBVIOUS
      <4> QED BY <2>2, <4>1 DEF OnInterest, TypeOK
    <3>2. Tail(dispatch.prefixes) \in Seq(Prefixes)
      BY <3>1
    <3> QED BY <2>2, <3>1, <3>2 DEF OnInterest
  <2> QED BY <2>1, <2>2
<1>5. nextCleanup' \in Nat
  BY <1>1, <1>3, CacheAssumption DEF DoCleanup, TypeOK
<1>6. PICK place \in {"body", "onContentRemoved"} :
        frames' = Append(frames, [call |-> frame, now |-> clock, at |-> place])
  BY <1>1 DEF DoCleanup
<1> DEFINE new == [call |-> frame, now |-> clock, at |-> place]
<1>7. new \in Frames /\ new.now = clock
  BY <1>3 DEF Frames
<1> HIDE DEF new
<1>8. /\ frames' \in Seq(Frames)
      /\ \A k \in DOMAIN frames' : frames'[k].now <= clock
  <2>1. frames \in Seq(Frames) /\ Len(frames) \in Nat /\ DOMAIN frames = 1 .. Len(frames)
    BY DEF TypeOK
  <2>2. /\ frames' \in Seq(Frames) /\ Len(frames') = Len(frames) + 1
        /\ \A k \in 1 .. Len(frames) : frames'[k] = frames[k]
        /\ frames'[Len(frames) + 1] = new
    BY <1>6, <1>7, <2>1, AppendProperties DEF new
  <2>3. ASSUME NEW k \in 1 .. Len(frames) + 1 PROVE frames'[k].now <= clock
    <3>1. CASE k = Len(frames) + 1
      BY <1>3, <1>7, <2>2, <3>1
    <3>2. CASE k # Len(frames) + 1
      <4>1. Len(frames) \in Nat
        BY <2>1
      <4>2. k \in 1 .. Len(frames)
        BY <3>2, <4>1
      <4> QED BY <2>1, <2>2, <4>2 DEF TimesInv
    <3> QED BY <3>1, <3>2
  <2>4. DOMAIN frames' = 1 .. Len(frames) + 1
    BY <2>1, <2>2
  <2> QED BY <2>2, <2>3, <2>4
<1>9. TypeOK'
  BY <1>1, <1>2, <1>3, <1>4, <1>5, <1>8, CleanupRemovesPast DEF TypeOK
<1>10. StaleTimeIsSorted'
  BY <1>1, <1>2, CleanupRemovesPast DEF StaleTimeIsSorted, RemovalOf
<1>11. TimesInv'
  BY <1>2, <1>8 DEF TimesInv
<1>12. LivePendingIsKept' /\ AddsReachPending'
  BY <1>2 DEF LivePendingIsKept, AddsReachPending, EndedAtSend, MatchesName
<1>13. AnswerIsBest'
  BY <1>2, AnswerStays
<1> QED BY <1>9, <1>10, <1>11, <1>12, <1>13

-----------------------------------------------------------------------------
(* Interests are stored, looked up and answered.                           *)

LEMMA StoreKeeps ==
  ASSUME TypeOK, LivePendingIsKept, AddsReachPending, NEW interest \in Interests,
         Store(interest), UNCHANGED <<clock, contents>>
  PROVE  /\ stored' \in Seq(PendingInterests) /\ pending' \subseteq DOMAIN stored'
         /\ DOMAIN stored \subseteq DOMAIN stored' /\ UNCHANGED <<sent, failed>>
         /\ LivePendingIsKept' /\ AddsReachPending'
<1> DEFINE new == [interest |-> interest, timeout |-> clock + interest.lifetime,
                   since |-> Len(contents)]
           n == Len(stored) + 1
<1>1. new \in PendingInterests /\ new.since = Len(contents)
  <2>1. interest.lifetime \in Nat
    BY CacheAssumption
  <2>2. clock \in Nat
    BY DEF TypeOK
  <2>3. Len(contents) \in Nat
    BY ElementTypes
  <2> QED BY <2>1, <2>2, <2>3 DEF PendingInterests
<1>2. stored' = Append(stored, new) /\ pending' = pending \cup {n} /\ UNCHANGED <<sent, failed>>
  BY DEF Store
<1> HIDE DEF new
<1>3. stored \in Seq(PendingInterests) /\ Len(stored) \in Nat /\ DOMAIN stored = 1 .. Len(stored)
  BY DEF TypeOK
<1>4. /\ stored' \in Seq(PendingInterests) /\ Len(stored') = n
      /\ \A k \in 1 .. Len(stored) : stored'[k] = stored[k]
      /\ stored'[n] = new
  BY <1>1, <1>2, <1>3, AppendProperties
<1>5. DOMAIN stored' = DOMAIN stored \cup {n} /\ pending \subseteq DOMAIN stored
  <2>1. DOMAIN stored' = 1 .. n
    BY <1>3, <1>4
  <2>2. Len(stored) \in Nat
    BY <1>3
  <2>3. 1 .. n = 1 .. Len(stored) \cup {n}
    BY <2>2
  <2> QED BY <1>3, <2>1, <2>3 DEF TypeOK
<1> HIDE DEF n
<1>6. LivePendingIsKept'
  <2>1. ASSUME NEW key \in DOMAIN stored PROVE
          \/ key \in pending'
          \/ \E r \in sent' : r.key = key
          \/ clock' >= stored'[key].timeout
    BY <1>2, <1>3, <1>4 DEF LivePendingIsKept
  <2> QED BY <1>2, <1>5, <2>1 DEF LivePendingIsKept
<1>7. AddsReachPending'
  <2>1. ASSUME NEW key \in pending', NEW id \in stored'[key].since + 1 .. Len(contents'),
               MatchesName(stored'[key].interest, contents'[id].data)
        PROVE  contents'[id].at >= stored'[key].timeout \/ EndedAtSend(id, key)'
    <3>1. CASE key = n
      <4>1. Len(contents) \in Nat
        BY ElementTypes
      <4>2. id \in Len(contents) + 1 .. Len(contents)
        BY <1>1, <1>4, <2>1, <3>1
      <4> QED BY <4>1, <4>2
    <3>2. CASE key # n
      <4>1. key \in pending /\ stored'[key] = stored[key]
        BY <1>2, <1>3, <1>4, <1>5, <3>2
      <4> QED BY <1>2, <2>1, <4>1 DEF AddsReachPending, EndedAtSend
    <3> QED BY <3>1, <3>2
  <2> QED BY <2>1 DEF AddsReachPending, MatchesName
<1> QED BY <1>2, <1>4, <1>5, <1>6, <1>7

LEMMA StorePendingKeeps ==
  ASSUME CacheInv, \E i \in Interests : StorePendingInterest(i)
  PROVE  CacheInv'
<1> USE DEF CacheInv
<1>1. PICK interest \in Interests : Store(interest)
  BY DEF StorePendingInterest
<1>2. UNCHANGED <<clock, contents, staleTime, noStaleTime, removed, nextCleanup,
                  minLifetime, filters, notFound, dispatch, arrived, frames, answer>>
  BY DEF StorePendingInterest, cacheVars, prefixVars, faceVars
<1>3. /\ stored' \in Seq(PendingInterests) /\ pending' \subseteq DOMAIN stored'
      /\ DOMAIN stored \subseteq DOMAIN stored' /\ UNCHANGED <<sent, failed>>
      /\ LivePendingIsKept' /\ AddsReachPending'
  BY <1>1, <1>2, StoreKeeps
<1>4. TypeOK'
  BY <1>2, <1>3 DEF TypeOK
<1>5. StaleTimeIsSorted' /\ TimesInv'
  BY <1>2 DEF StaleTimeIsSorted, RemovalOf, TimesInv
<1>6. AnswerIsBest'
  BY <1>2, AnswerStays
<1> QED BY <1>3, <1>4, <1>5, <1>6

LEMMA GetPendingKeeps ==
  ASSUME CacheInv, GetPendingInterests
  PROVE  CacheInv'
<1> USE DEF CacheInv
<1>1. /\ UNCHANGED <<clock, contents, staleTime, noStaleTime, removed, nextCleanup, stored, sent,
                     failed, minLifetime, filters, notFound, dispatch, arrived, frames, answer>>
      /\ pending' = {key \in pending : ~(clock >= stored[key].timeout)}
  BY DEF GetPendingInterests, cacheVars, prefixVars, faceVars, IsTimedOut
<1>2. TypeOK'
  BY <1>1 DEF TypeOK
<1>3. StaleTimeIsSorted' /\ TimesInv'
  BY <1>1 DEF StaleTimeIsSorted, RemovalOf, TimesInv
<1>4. LivePendingIsKept'
  BY <1>1 DEF LivePendingIsKept
<1>5. AddsReachPending'
  BY <1>1 DEF AddsReachPending, EndedAtSend, MatchesName
<1>6. AnswerIsBest'
  BY <1>1, AnswerStays
<1> QED BY <1>2, <1>3, <1>4, <1>5, <1>6

(* onInterest selects, and stores the Interest or calls the application.   *)
LEMMA OnInterestBodyKeeps ==
  ASSUME CacheInv, OnInterestBody
  PROVE  CacheInv'
<1> USE DEF CacheInv
<1> DEFINE interest == Top.call.interest
           chosen == Selected(interest, Top.now)
<1>1. /\ frames # <<>> /\ Top.call.op = "onInterest"
      /\ answer' = [content |-> chosen, interest |-> interest, now |-> Top.now]
      /\ UNCHANGED <<clock, contents, staleTime, noStaleTime, removed, nextCleanup,
                     minLifetime, filters, notFound, dispatch, arrived>>
      /\ Store(interest) \/ UNCHANGED <<stored, pending, sent, failed>>
      /\ frames' = Callee("onDataNotFound") \/ frames' = Pop
  BY DEF OnInterestBody, IsAt, cacheVars, prefixVars, faceVars, pendingVars
<1>2. interest \in Interests /\ Top.now \in Nat
  <2>1. Top \in Frames
    BY <1>1, FrameTypes
  <2>2. Top.call \in Calls /\ Top.now \in Nat
    BY <2>1 DEF Frames
  <2> QED BY <1>1, <2>2 DEF Calls
<1>3. /\ BestOf(chosen, Len(All), interest, Top.now)
      /\ chosen \in {0} \cup DOMAIN contents
  BY <1>2, SelectedIsBest
<1> HIDE DEF interest, chosen
<1>4. /\ stored' \in Seq(PendingInterests) /\ pending' \subseteq DOMAIN stored'
      /\ DOMAIN stored \subseteq DOMAIN stored' /\ UNCHANGED <<sent, failed>>
      /\ LivePendingIsKept' /\ AddsReachPending'
  <2>1. CASE Store(interest)
    BY <1>1, <1>2, <2>1, StoreKeeps
  <2>2. CASE UNCHANGED <<stored, pending, sent, failed>>
    <3>1. LivePendingIsKept' /\ AddsReachPending'
      BY <1>1, <2>2 DEF LivePendingIsKept, AddsReachPending, EndedAtSend, MatchesName
    <3> QED BY <2>2, <3>1 DEF TypeOK
  <2> QED BY <1>1, <2>1, <2>2
<1>5. /\ frames' \in Seq(Frames)
      /\ \A k \in DOMAIN frames' : k \in DOMAIN frames /\ frames'[k].now = frames[k].now
  BY <1>1, FrameTypes
<1>6. answer' \in [content : {0} \cup DOMAIN contents, interest : Interests, now : Nat]
  BY <1>1, <1>2, <1>3
<1>7. TypeOK'
  BY <1>1, <1>4, <1>5, <1>6 DEF TypeOK
<1>8. StaleTimeIsSorted' /\ TimesInv'
  BY <1>1, <1>5 DEF StaleTimeIsSorted, RemovalOf, TimesInv
<1>9. AnswerIsBest'
  <2> DEFINE candidates(a) == {k \in DOMAIN All : IsCandidate(All[k], a.interest, a.now)}
             best(a) == {k \in candidates(a) :
                           \A j \in candidates(a) : Precedes(k, j, a.interest.child)}
             IsBest(a) == IF a.content = 0 THEN candidates(a) = {}
                          ELSE \E k \in best(a) : All[k] = a.content
  <2>1. candidates(answer') = Candidates(Len(All), interest, Top.now)
    BY <1>1, AllTypes DEF Candidates
  <2>2. IsBest(answer')
    <3> HIDE DEF candidates
    <3> QED BY <1>1, <1>3, <2>1 DEF BestOf
  <2>3. IsBest(answer') => AnswerIsBest'
    BY <1>1 DEF AnswerIsBest, All, IsCandidate, IsFresh, MatchesName, ComponentOf, Precedes
  <2> QED BY <2>2, <2>3
<1> QED BY <1>4, <1>7, <1>8, <1>9

-----------------------------------------------------------------------------
(* add inserts the content at its place.                                   *)

InsertAt(s, k, e) == SubSeq(s, 1, k - 1) \o <<e>> \o SubSeq(s, k, Len(s))

LEMMA InsertElements ==
  ASSUME NEW S, NEW s \in Seq(S), NEW e \in S, NEW k \in 1 .. Len(s) + 1,
         NEW new, new = InsertAt(s, k, e)
  PROVE  /\ new \in Seq(S)
         /\ Len(new) = Len(s) + 1
         /\ \A i \in 1 .. Len(s) + 1 :
              new[i] = IF i < k THEN s[i]
                       ELSE IF i = k THEN e ELSE s[i - 1]
<1>1. Len(s) \in Nat /\ DOMAIN s = 1 .. Len(s)
      /\ \A i \in 1 .. Len(s) : s[i] \in S
  OBVIOUS
<1> DEFINE front == SubSeq(s, 1, k - 1)
           rest == SubSeq(s, k, Len(s))
<1>2. /\ front \in Seq(S) /\ Len(front) = k - 1
      /\ \A i \in 1 .. k - 1 : front[i] = s[i]
  <2>1. \A i \in 1 .. k - 1 : s[i] \in S
    BY <1>1
  <2>2. 1 \in Int /\ k - 1 \in Int
    OBVIOUS
  <2> HIDE DEF front
  <2>3. /\ front \in Seq(S)
        /\ Len(front) = IF 1 <= k - 1 THEN k - 1 - 1 + 1 ELSE 0
        /\ \A i \in 1 .. k - 1 - 1 + 1 : front[i] = s[1 + i - 1]
    BY <2>1, <2>2, SubSeqProperties DEF front
  <2>4. k - 1 - 1 + 1 = k - 1 /\ (~(1 <= k - 1) => k - 1 = 0)
    BY <1>1
  <2>5. Len(front) = k - 1
    BY <2>3, <2>4
  <2>6. ASSUME NEW i \in 1 .. k - 1
        PROVE  front[i] = s[i]
    <3>1. 1 + i - 1 = i
      BY <1>1
    <3> QED
      BY <2>3, <2>4, <3>1
  <2> QED
    BY <2>3, <2>5, <2>6
<1>3. /\ rest \in Seq(S) /\ Len(rest) = Len(s) - k + 1
      /\ \A i \in 1 .. Len(s) - k + 1 : rest[i] = s[k + i - 1]
  <2>1. \A i \in k .. Len(s) : s[i] \in S
    BY <1>1
  <2>2. k \in Int /\ Len(s) \in Int
    BY <1>1
  <2> HIDE DEF rest
  <2>3. /\ rest \in Seq(S)
        /\ Len(rest) = IF k <= Len(s) THEN Len(s) - k + 1 ELSE 0
        /\ \A i \in 1 .. Len(s) - k + 1 : rest[i] = s[k + i - 1]
    BY <2>1, <2>2, SubSeqProperties DEF rest
  <2> QED
    BY <1>1, <2>3
<1> DEFINE head == front \o <<e>>
<1>4. <<e>> \in Seq(S) /\ Len(<<e>>) = 1 /\ <<e>>[1] = e
  OBVIOUS
<1> HIDE DEF front, rest
<1>5. /\ head \in Seq(S) /\ Len(head) = k
      /\ \A i \in 1 .. k : head[i] = IF i <= k - 1 THEN front[i] ELSE e
  <2>1. /\ head \in Seq(S)
        /\ Len(head) = Len(front) + Len(<<e>>)
        /\ \A i \in 1 .. Len(front) + Len(<<e>>) :
             head[i] = IF i <= Len(front) THEN front[i]
                       ELSE <<e>>[i - Len(front)]
    BY <1>2, <1>4, ConcatProperties
  <2> HIDE DEF head
  <2>2. \A i \in 1 .. k : i <= k - 1 \/ i - (k - 1) = 1
    BY <1>1
  <2> QED
    BY <1>1, <1>2, <1>4, <2>1, <2>2
<1>6. new = head \o rest
  BY DEF front, rest, InsertAt
<1> HIDE DEF head
<1>7. /\ head \o rest \in Seq(S)
      /\ Len(head \o rest) = Len(head) + Len(rest)
      /\ \A i \in 1 .. Len(head) + Len(rest) :
           (head \o rest)[i] =
             IF i <= Len(head) THEN head[i] ELSE rest[i - Len(head)]
  BY <1>3, <1>5, ConcatProperties
<1>8. Len(head) + Len(rest) = Len(s) + 1
  BY <1>1, <1>3, <1>5
<1>9. ASSUME NEW i \in 1 .. Len(s) + 1
      PROVE  new[i] = IF i < k THEN s[i]
                      ELSE IF i = k THEN e ELSE s[i - 1]
  <2>1. new[i] = IF i <= k THEN head[i] ELSE rest[i - k]
    BY <1>5, <1>6, <1>7, <1>8
  <2>2. CASE i < k
    <3>1. i <= k /\ i <= k - 1 /\ i \in 1 .. k /\ i \in 1 .. k - 1
      BY <1>1, <2>2
    <3> QED
      BY <1>2, <1>5, <2>1, <2>2, <3>1
  <2>3. CASE i = k
    <3>1. i <= k /\ ~(i <= k - 1) /\ i \in 1 .. k /\ ~(i < k)
      BY <1>1, <2>3
    <3> QED
      BY <1>5, <2>1, <2>3, <3>1
  <2>4. CASE k < i
    <3>1. /\ ~(i <= k) /\ ~(i < k) /\ i # k
          /\ i - k \in 1 .. Len(s) - k + 1 /\ k + (i - k) - 1 = i - 1
      BY <1>1, <2>4
    <3> QED
      BY <1>3, <2>1, <3>1
  <2>5. i < k \/ i = k \/ k < i
    <3>1. Len(s) \in Nat
      OBVIOUS
    <3> QED
      BY <3>1
  <2> QED
    BY <2>2, <2>3, <2>4, <2>5
<1> QED
  BY <1>6, <1>7, <1>8, <1>9

(* There is a first position which is not earlier: the end, if no other.   *)
LEMMA InsertionPointExists ==
  ASSUME TypeOK, NEW removal \in Nat
  PROVE  LET k == InsertionPoint(removal)
         IN  /\ k \in 1 .. Len(staleTime) + 1
             /\ \A j \in 1 .. k - 1 : RemovalOf(j) < removal
             /\ k <= Len(staleTime) => removal <= RemovalOf(k)
<1> DEFINE T == {k \in 1 .. Len(staleTime) + 1 :
                   k <= Len(staleTime) => removal <= RemovalOf(k)}
<1>1. Len(staleTime) \in Nat /\ DOMAIN staleTime = 1 .. Len(staleTime)
  BY DEF TypeOK
<1>2. \A i \in 1 .. Len(staleTime) : RemovalOf(i) \in Nat
  BY <1>1, ElementTypes DEF RemovalOf, TypeOK
<1>3. Len(staleTime) + 1 \in T /\ T \subseteq Nat
  BY <1>1
<1>4. PICK k \in T : \A y \in T : k <= y
  <2> HIDE DEF T
  <2> QED BY <1>3, FirstPosition
<1>5. ASSUME NEW i \in 1 .. k - 1 PROVE RemovalOf(i) < removal
  <2>1. i \in 1 .. Len(staleTime) /\ i < k
    BY <1>1, <1>4
  <2>2. i \notin T
    BY <1>1, <1>4, <2>1
  <2> QED BY <1>2, <2>1, <2>2
<1>6. \E m \in 1 .. Len(staleTime) + 1 :
         /\ \A j \in 1 .. m - 1 : RemovalOf(j) < removal
         /\ m <= Len(staleTime) => removal <= RemovalOf(m)
  BY <1>4, <1>5
<1> HIDE DEF T
<1> QED BY <1>6 DEF InsertionPoint, RemovalOf

LEMMA InsertSorts ==
  ASSUME TypeOK, StaleTimeIsSorted, NEW removal \in Nat, NEW id,
         NEW new, new = InsertSorted(id, removal), NEW R,
         R[id] = removal, \A x \in DOMAIN contents : R[x] = contents[x].removal
  PROVE  /\ new \in Seq(DOMAIN contents \cup {id})
         /\ \A i, j \in DOMAIN new : i < j => R[new[i]] <= R[new[j]]
<1> DEFINE k == InsertionPoint(removal)
           S == DOMAIN contents \cup {id}
           n == Len(staleTime)
<1>1. n \in Nat /\ DOMAIN staleTime = 1 .. n
      /\ \A i \in 1 .. n : staleTime[i] \in DOMAIN contents
  BY DEF TypeOK
<1>2. \A i \in 1 .. n : RemovalOf(i) \in Nat
  BY <1>1, ElementTypes DEF RemovalOf
<1>3. /\ k \in 1 .. n + 1
      /\ \A j \in 1 .. k - 1 : RemovalOf(j) < removal
      /\ k <= n => removal <= RemovalOf(k)
  BY InsertionPointExists
<1>4. staleTime \in Seq(S)
  BY SeqMonotonic DEF TypeOK
<1>5. new = InsertAt(staleTime, k, id)
  BY DEF InsertSorted, InsertAt
<1> HIDE DEF k
<1>6. /\ new \in Seq(S) /\ Len(new) = n + 1
      /\ \A i \in 1 .. n + 1 :
           new[i] = IF i < k THEN staleTime[i] ELSE IF i = k THEN id ELSE staleTime[i - 1]
  <2>1. id \in S
    OBVIOUS
  <2> HIDE DEF S
  <2>2. k \in 1 .. Len(staleTime) + 1
    BY <1>3
  <2>3. new \in Seq(S)
    BY <1>4, <1>5, <2>1, <2>2, InsertElements
  <2>4. Len(new) = n + 1
    BY <1>4, <1>5, <2>1, <2>2, InsertElements
  <2>5. ASSUME NEW i \in 1 .. Len(staleTime) + 1
        PROVE  new[i] = IF i < k THEN staleTime[i] ELSE IF i = k THEN id ELSE staleTime[i - 1]
    BY <1>4, <1>5, <2>1, <2>2, InsertElements, SMTT(60)
  <2> QED BY <2>3, <2>4, <2>5
<1>7. \A i \in 1 .. n : R[staleTime[i]] = RemovalOf(i)
  BY <1>1 DEF RemovalOf
<1> HIDE DEF n, S
<1>8. ASSUME NEW i \in 1 .. n + 1
      PROVE  /\ i < k => i \in 1 .. n /\ i \in 1 .. k - 1 /\ R[new[i]] = RemovalOf(i)
             /\ i = k => R[new[i]] = removal
             /\ k < i => i - 1 \in 1 .. n /\ R[new[i]] = RemovalOf(i - 1)
  <2>1. i < k => i \in 1 .. n /\ i \in 1 .. k - 1
    BY <1>1, <1>3
  <2>2. k < i => i - 1 \in 1 .. n /\ ~(i < k) /\ i # k
    BY <1>1, <1>3
  <2>3. i = k => ~(i < k)
    BY <1>3
  <2> QED BY <1>6, <1>7, <2>1, <2>2, <2>3
<1>9. ASSUME NEW i \in 1 .. n, NEW j \in 1 .. n, i <= j
      PROVE  RemovalOf(i) <= RemovalOf(j)
  <2>1. CASE i = j
    BY <1>2, <2>1
  <2>2. CASE i # j
    <3>1. i < j
      BY <1>1, <1>9, <2>2
    <3> QED BY <1>1, <3>1 DEF StaleTimeIsSorted
  <2> QED BY <2>1, <2>2
<1>10. ASSUME NEW i \in 1 .. n, k <= i PROVE removal <= RemovalOf(i)
  <2>1. k \in 1 .. n
    BY <1>1, <1>3, <1>10
  <2>2. RemovalOf(k) <= RemovalOf(i) /\ removal <= RemovalOf(k)
    BY <1>3, <1>9, <1>10, <2>1
  <2> QED BY <1>2, <2>1, <2>2
<1>11. ASSUME NEW i \in 1 .. n + 1, NEW j \in 1 .. n + 1, i < j
       PROVE  R[new[i]] <= R[new[j]]
  <2>1. CASE i < k
    <3>1. R[new[i]] = RemovalOf(i) /\ RemovalOf(i) < removal /\ i \in 1 .. n
          /\ RemovalOf(i) \in Nat
      BY <1>2, <1>3, <1>8, <2>1
    <3>2. CASE j < k
      BY <1>8, <1>9, <1>11, <3>1, <3>2
    <3>3. CASE j = k
      BY <1>8, <3>1, <3>3
    <3>4. CASE k < j
      <4>1. i <= j - 1 /\ j - 1 \in 1 .. n /\ R[new[j]] = RemovalOf(j - 1)
        BY <1>1, <1>8, <1>11, <3>4
      <4> QED BY <1>9, <3>1, <4>1
    <3> QED BY <1>1, <1>3, <3>2, <3>3, <3>4
  <2>2. CASE i = k
    <3>1. k < j
      BY <1>11, <2>2
    <3>2. j - 1 \in 1 .. n /\ k <= j - 1 /\ R[new[j]] = RemovalOf(j - 1)
      BY <1>1, <1>3, <1>8, <3>1
    <3> QED BY <1>8, <1>10, <2>2, <3>2
  <2>3. CASE k < i
    <3>1. k < j
      BY <1>1, <1>3, <1>11, <2>3
    <3>2. /\ i - 1 \in 1 .. n /\ j - 1 \in 1 .. n /\ i - 1 <= j - 1
          /\ R[new[i]] = RemovalOf(i - 1) /\ R[new[j]] = RemovalOf(j - 1)
      BY <1>1, <1>8, <1>11, <2>3, <3>1
    <3> QED BY <1>9, <3>2
  <2> QED BY <1>1, <1>3, <2>1, <2>2, <2>3
<1>12. DOMAIN new = 1 .. n + 1
  BY <1>1, <1>6
<1> QED BY <1>6, <1>11, <1>12 DEF S

-----------------------------------------------------------------------------
(* The rest of add.                                                        *)

AddedContent(data, now) ==
  [data |-> data, at |-> now, least |-> minLifetime,
   removal |-> now + KeptFor(data), expiry |-> now + data.freshness]

LEMMA AddedContentType ==
  ASSUME TypeOK, NEW data \in Data, NEW now \in Nat
  PROVE  LET c == AddedContent(data, now)
         IN  /\ c \in Contents /\ c.removal \in Nat
             /\ c.removal >= c.at + c.data.freshness /\ c.removal >= c.at + c.least
<1>1. data.freshness \in Nat \cup {-1}
  BY CacheAssumption
<1>2. minLifetime \in Nat
  BY DEF TypeOK
<1>3. /\ KeptFor(data) \in Nat /\ KeptFor(data) >= data.freshness
      /\ KeptFor(data) >= minLifetime
  BY <1>1, <1>2 DEF KeptFor, MaxOf
<1>4. now + KeptFor(data) \in Nat /\ now + data.freshness \in Int
  BY <1>1, <1>3
<1> QED BY <1>1, <1>2, <1>3, <1>4 DEF AddedContent, Contents

(* The contents keep their places, and the new one is the last.            *)
LEMMA InsertKeeps ==
  ASSUME CacheInv, NEW data \in Data, NEW now \in Nat, Insert(data, now)
  PROVE  /\ contents' \in Seq(Contents) /\ Len(contents') = Len(contents) + 1
         /\ DOMAIN contents' = DOMAIN contents \cup {Len(contents) + 1}
         /\ \A id \in DOMAIN contents : contents'[id] = contents[id]
         /\ contents'[Len(contents) + 1] = AddedContent(data, now)
         /\ staleTime' \in Seq(DOMAIN contents') /\ noStaleTime' \in Seq(DOMAIN contents')
         /\ removed' \in Seq(DOMAIN contents')
         /\ StaleTimeIsSorted'
<1> USE DEF CacheInv
<1> DEFINE id == Len(contents) + 1
           c == AddedContent(data, now)
<1>1. /\ contents' = Append(contents, c)
      /\ \/ staleTime' = InsertSorted(id, c.removal) /\ noStaleTime' = noStaleTime
         \/ noStaleTime' = Append(noStaleTime, id) /\ staleTime' = staleTime
      /\ removed' = removed
  BY DEF Insert, AddedContent
<1>2. c \in Contents /\ c.removal \in Nat
  BY AddedContentType
<1> HIDE DEF c
<1>3. contents \in Seq(Contents) /\ Len(contents) \in Nat /\ DOMAIN contents = 1 .. Len(contents)
  BY DEF TypeOK
<1>4. /\ contents' \in Seq(Contents) /\ Len(contents') = id
      /\ \A k \in DOMAIN contents : contents'[k] = contents[k]
      /\ contents'[id] = c
  BY <1>1, <1>2, <1>3, AppendProperties
<1>5. DOMAIN contents' = DOMAIN contents \cup {id}
  <2>1. Len(contents) \in Nat
    BY <1>3
  <2>2. 1 .. id = 1 .. Len(contents) \cup {id}
    BY <2>1
  <2>3. DOMAIN contents' = 1 .. id
    BY <1>4
  <2> QED BY <1>3, <2>2, <2>3
<1> HIDE DEF id
<1>6. /\ staleTime \in Seq(DOMAIN contents) /\ noStaleTime \in Seq(DOMAIN contents)
      /\ removed \in Seq(DOMAIN contents)
  BY DEF TypeOK
<1>7. /\ staleTime \in Seq(DOMAIN contents') /\ noStaleTime \in Seq(DOMAIN contents')
      /\ removed \in Seq(DOMAIN contents')
  BY <1>5, <1>6, SeqMonotonic
<1> DEFINE R == [k \in DOMAIN contents' |-> contents'[k].removal]
<1>8. R[id] = c.removal /\ \A k \in DOMAIN contents : R[k] = contents[k].removal
  BY <1>4, <1>5
<1> HIDE DEF R
<1>9. CASE staleTime' = InsertSorted(id, c.removal) /\ noStaleTime' = noStaleTime
  <2>1. /\ staleTime' \in Seq(DOMAIN contents \cup {id})
        /\ \A i, j \in DOMAIN staleTime' : i < j => R[staleTime'[i]] <= R[staleTime'[j]]
    BY <1>2, <1>8, <1>9, InsertSorts
  <2>2. \A i \in DOMAIN staleTime' : staleTime'[i] \in DOMAIN contents'
    BY <1>5, <2>1
  <2>3. StaleTimeIsSorted'
    BY <2>1, <2>2 DEF StaleTimeIsSorted, RemovalOf, R
  <2> QED BY <1>1, <1>3, <1>4, <1>5, <1>7, <1>9, <2>1, <2>3 DEF id, c
<1>10. CASE noStaleTime' = Append(noStaleTime, id) /\ staleTime' = staleTime
  <2>1. noStaleTime' \in Seq(DOMAIN contents')
    BY <1>5, <1>7, <1>10, AppendProperties
  <2>2. \A i \in DOMAIN staleTime : staleTime[i] \in DOMAIN contents
    BY <1>6
  <2>3. StaleTimeIsSorted'
    BY <1>4, <1>10, <2>2 DEF StaleTimeIsSorted, RemovalOf
  <2> QED BY <1>1, <1>3, <1>4, <1>5, <1>7, <1>10, <2>1, <2>3 DEF id, c
<1> QED BY <1>1, <1>9, <1>10

(* add replies to the Interests that wait, until a send throws.            *)
LEMMA AnswerPendingKeeps ==
  ASSUME CacheInv, NEW data \in Data, NEW now \in Nat, now <= clock, UNCHANGED clock,
         Insert(data, now), AnswerPending(data, now)
  PROVE  /\ pending' \subseteq DOMAIN stored /\ UNCHANGED stored
         /\ sent' \cup failed' \subseteq [key : DOMAIN stored', content : DOMAIN contents']
         /\ LivePendingIsKept' /\ AddsReachPending'
<1> USE DEF CacheInv
<1> DEFINE id == Len(contents) + 1
           answered(key) == IsAnswered(key, data, now)
           replied(end) == {key \in Visited(end) : answered(key)}
           replies(keys) == [key : keys, content : {id}]
<1>1. PICK end \in LoopEnds(data, now) :
        /\ pending' = pending \ (replied(end) \cup {key \in Visited(end) : IsTimedOut(key, now)})
        /\ sent' = sent \cup replies(replied(end))
        /\ failed' = failed \cup replies({end} \ {0})
        /\ UNCHANGED stored
  BY DEF AnswerPending
<1>2. /\ Len(contents) \in Nat /\ DOMAIN contents = 1 .. Len(contents)
      /\ Len(contents') = id /\ DOMAIN contents' = DOMAIN contents \cup {id}
      /\ \A k \in DOMAIN contents : contents'[k] = contents[k]
      /\ contents'[id].data = data /\ contents'[id].at = now
  <2>1. /\ Len(contents') = id /\ DOMAIN contents' = DOMAIN contents \cup {id}
        /\ \A k \in DOMAIN contents : contents'[k] = contents[k]
        /\ contents'[id] = AddedContent(data, now)
    <3> HIDE DEF CacheInv
    <3> QED BY InsertKeeps
  <2>2. AddedContent(data, now).data = data /\ AddedContent(data, now).at = now
    BY DEF AddedContent
  <2> QED BY <2>1, <2>2, ElementTypes
<1>3. /\ pending \subseteq DOMAIN stored
      /\ \A key \in DOMAIN stored : /\ key \in Nat \ {0} /\ stored[key].since \in Nat
                                    /\ stored[key].timeout \in Nat
      /\ clock \in Nat
  BY ElementTypes DEF TypeOK
<1>4. end = 0 \/ end \in pending
  BY DEF LoopEnds
<1>5. Visited(end) \subseteq pending
  BY DEF Visited
<1> HIDE DEF id
<1>6. sent' \cup failed' \subseteq [key : DOMAIN stored', content : DOMAIN contents']
  <2>1. sent \cup failed \subseteq [key : DOMAIN stored, content : DOMAIN contents']
    BY <1>2 DEF TypeOK
  <2>2. \A keys : keys \subseteq DOMAIN stored =>
           [key : keys, content : {id}] \subseteq [key : DOMAIN stored, content : DOMAIN contents']
    BY <1>2
  <2>3. replied(end) \subseteq DOMAIN stored /\ {end} \ {0} \subseteq DOMAIN stored
    BY <1>3, <1>4, <1>5
  <2> HIDE DEF replied
  <2> QED BY <1>1, <2>1, <2>2, <2>3
<1>7. ASSUME NEW key \in DOMAIN stored
      PROVE  key \in pending' \/ (\E s \in sent' : s.key = key) \/ clock' >= stored[key].timeout
  <2>1. CASE key \in pending /\ key \notin pending'
    <3>1. key \in Visited(end) /\ (answered(key) \/ IsTimedOut(key, now))
      BY <1>1, <2>1
    <3>2. CASE answered(key)
      <4>1. [key |-> key, content |-> id] \in sent'
        BY <1>1, <3>1, <3>2
      <4> QED BY <4>1
    <3>3. CASE IsTimedOut(key, now)
      BY <1>3, <3>3 DEF IsTimedOut
    <3> QED BY <3>1, <3>2, <3>3
  <2>2. CASE key \notin pending
    <3>1. sent \subseteq sent'
      BY <1>1
    <3> QED BY <2>2, <3>1 DEF LivePendingIsKept
  <2> QED BY <2>1, <2>2
<1>8. LivePendingIsKept'
  BY <1>1, <1>7 DEF LivePendingIsKept
<1>9. ASSUME NEW key \in pending', NEW k \in stored[key].since + 1 .. Len(contents'),
             MatchesName(stored[key].interest, contents'[k].data)
      PROVE  contents'[k].at >= stored[key].timeout \/ EndedAtSend(k, key)'
  <2>1. key \in pending /\ key \in DOMAIN stored
    BY <1>1, <1>3
  <2>2. CASE k # id
    <3>1. k \in stored[key].since + 1 .. Len(contents) /\ k \in DOMAIN contents
      BY <1>2, <1>3, <2>1, <2>2 DEF id
    <3>2. contents[k].at >= stored[key].timeout \/ EndedAtSend(k, key)
      BY <1>2, <1>9, <2>1, <3>1 DEF AddsReachPending, MatchesName
    <3>3. failed \subseteq failed'
      BY <1>1
    <3> QED BY <1>2, <3>1, <3>2, <3>3 DEF EndedAtSend
  <2>3. CASE k = id
    <3>1. CASE key \in Visited(end)
      <4>1. ~answered(key) /\ ~IsTimedOut(key, now)
        BY <1>1, <3>1
      <4> QED BY <1>2, <1>9, <2>3, <4>1 DEF IsAnswered, MatchesName
    <3>2. CASE key \notin Visited(end)
      <4>1. end \in pending /\ end # 0 /\ end >= key
        BY <1>3, <1>4, <2>1, <3>2 DEF Visited
      <4>2. [key |-> end, content |-> id] \in failed'
        BY <1>1, <4>1
      <4> QED BY <2>3, <4>1, <4>2 DEF EndedAtSend
    <3> QED BY <3>1, <3>2
  <2> QED BY <2>2, <2>3
<1>10. AddsReachPending'
  BY <1>1, <1>9 DEF AddsReachPending, MatchesName
<1> QED BY <1>1, <1>3, <1>6, <1>8, <1>10

LEMMA AddBodyKeeps ==
  ASSUME CacheInv, AddBody
  PROVE  CacheInv'
<1> USE DEF CacheInv
<1> DEFINE data == Top.call.data
           now == Top.now
<1>1. /\ frames # <<>> /\ Top.call.op = "add"
      /\ Insert(data, now) /\ AnswerPending(data, now)
      /\ frames' = Pop /\ answer' = NoAnswer /\ nextCleanup' = nextCleanup
      /\ UNCHANGED <<clock, minLifetime, filters, notFound, dispatch, arrived>>
  BY DEF AddBody, IsAt, prefixVars, faceVars, Insert
<1>2. data \in Data /\ now \in Nat /\ now <= clock
  <2>1. Top \in Frames /\ Len(frames) \in DOMAIN frames /\ Top = frames[Len(frames)]
    BY <1>1, FrameTypes
  <2>2. Top.call \in Calls /\ Top.now \in Nat
    BY <2>1 DEF Frames
  <2>3. Top.call.data \in Data
    BY <1>1, <2>2 DEF Calls
  <2> QED BY <2>1, <2>2, <2>3 DEF TimesInv
<1> HIDE DEF data, now
<1>3. /\ contents' \in Seq(Contents)
      /\ DOMAIN contents' = DOMAIN contents \cup {Len(contents) + 1}
      /\ \A id \in DOMAIN contents : contents'[id] = contents[id]
      /\ contents'[Len(contents) + 1] = AddedContent(data, now)
      /\ staleTime' \in Seq(DOMAIN contents') /\ noStaleTime' \in Seq(DOMAIN contents')
      /\ removed' \in Seq(DOMAIN contents')
      /\ StaleTimeIsSorted'
  BY <1>1, <1>2, InsertKeeps
<1>4. /\ pending' \subseteq DOMAIN stored /\ UNCHANGED stored
      /\ sent' \cup failed' \subseteq [key : DOMAIN stored', content : DOMAIN contents']
      /\ LivePendingIsKept' /\ AddsReachPending'
  BY <1>1, <1>2, AnswerPendingKeeps
<1>5. frames' \in Seq(Frames) /\ \A k \in DOMAIN frames' : k \in DOMAIN frames /\ frames'[k] = frames[k]
  BY <1>1, FrameTypes
<1>6. TypeOK'
  BY <1>1, <1>3, <1>4, <1>5 DEF TypeOK
<1>7. TimesInv'
  BY <1>1, <1>2, <1>3, <1>5, AddedContentType DEF TimesInv
<1>8. AnswerIsBest'
  BY <1>1, AnswerStays
<1> QED BY <1>3, <1>4, <1>6, <1>7, <1>8

-----------------------------------------------------------------------------
(* The inductive invariant.                                                *)

LEMMA InitCacheInv == Init => CacheInv
<1> SUFFICES ASSUME Init PROVE CacheInv
  OBVIOUS
<1>1. TypeOK
  BY CacheAssumption DEF Init, TypeOK
<1>2. StaleTimeIsSorted /\ TimesInv /\ LivePendingIsKept /\ AddsReachPending
  BY DEF Init, StaleTimeIsSorted, TimesInv, LivePendingIsKept, AddsReachPending
<1>3. AnswerIsBest
  BY DEF Init, AnswerIsBest, NoAnswer
<1> QED BY <1>1, <1>2, <1>3 DEF CacheInv

LEMMA StutterKeeps ==
  ASSUME CacheInv, UNCHANGED vars
  PROVE  CacheInv'
<1> USE DEF vars, cacheVars, pendingVars, prefixVars, faceVars
<1>1. TypeOK'
  BY DEF CacheInv, TypeOK
<1>2. StaleTimeIsSorted' /\ TimesInv' /\ LivePendingIsKept' /\ AddsReachPending'
  BY DEF CacheInv, StaleTimeIsSorted, RemovalOf, TimesInv, LivePendingIsKept, AddsReachPending,
         EndedAtSend, MatchesName
<1>3. AnswerIsBest'
  BY AnswerStays DEF CacheInv
<1> QED BY <1>1, <1>2, <1>3 DEF CacheInv

LEMMA NextCacheInv == CacheInv /\ [Next]_vars => CacheInv'
<1> SUFFICES ASSUME CacheInv, [Next]_vars PROVE CacheInv'
  OBVIOUS
<1>1. CASE UNCHANGED vars
  BY <1>1, StutterKeeps
<1>2. CASE Next
  BY <1>2, RegistrationsKeep, StorePendingKeeps, GetPendingKeeps, CallKeeps, AddBodyKeeps,
     CallbackReturnKeeps, OnInterestBodyKeeps, TickKeeps DEF Next
<1> QED BY <1>1, <1>2

(* Whatever the callbacks of the application call, and whichever send      *)
(* throws, the cache stays as add and onInterest rely on: staleTimeCache_  *)
(* sorted, the frames' times in the past, the table of pending Interests   *)
(* complete.                                                               *)
THEOREM CacheIsKept == Spec => []CacheInv
  BY InitCacheInv, NextCacheInv, PTL DEF Spec

(* No call takes an Interest out of pendingInterestTable_ unanswered before*)
(* its lifetime is over.                                                   *)
THEOREM LivePendingStays == Spec => []LivePendingIsKept
<1>1. CacheInv => LivePendingIsKept
  BY DEF CacheInv
<1> QED BY <1>1, CacheIsKept, PTL

(* onInterest replies with the content its ChildSelector asks for, and     *)
(* calls onDataNotFound only when no content is accepted.                  *)
THEOREM AnswersAreBest == Spec => []AnswerIsBest
<1>1. CacheInv => AnswerIsBest
  BY DEF CacheInv
<1> QED BY <1>1, CacheIsKept, PTL

(* When Face::send does not throw, add replies to every Interest stored    *)
(* before it which accepts its Data in time.                               *)
THEOREM AddsAnswerPending ==
  ASSUME ~SendFails
  PROVE  Spec => []AddAnswersPending
<1> DEFINE NoneFailed == failed = {}
<1>1. Init => NoneFailed
  BY DEF Init
<1>2. NoneFailed /\ [Next]_vars => NoneFailed'
  <2> SUFFICES ASSUME NoneFailed, [Next]_vars PROVE NoneFailed'
    OBVIOUS
  <2>1. CASE AddBody
    <3>1. PICK end \in LoopEnds(Top.call.data, Top.now) :
            failed' = failed \cup [key : {end} \ {0}, content : {Len(contents) + 1}]
      BY <2>1 DEF AddBody, AnswerPending
    <3>2. {end} \ {0} = {}
      BY DEF LoopEnds
    <3>3. [key : {end} \ {0}, content : {Len(contents) + 1}] = {}
      BY <3>2
    <3> QED BY <3>1, <3>3
  <2>2. CASE UNCHANGED failed
    BY <2>2
  <2>3. UNCHANGED failed \/ AddBody
    BY DEF Next, vars, pendingVars, RegisterPrefix, UnregisterAll, SetMinimumCacheLifetime,
           StorePendingInterest, Store, ReceiveInterest, GetPendingInterests, Add,
           OnContentRemovedReturns, OnInterest, OnInterestBody, OnDataNotFoundReturns, Tick
  <2> QED BY <2>1, <2>2, <2>3
<1>3. CacheInv /\ NoneFailed => AddAnswersPending
  BY DEF CacheInv, AddsReachPending, AddAnswersPending, EndedAtSend
<1> QED BY <1>1, <1>2, <1>3, CacheIsKept, PTL DEF Spec

(* doCleanup leaves no content past its removal time, and gives none to    *)
(* onContentRemoved while it is fresh or within its minimum lifetime.      *)
THEOREM CleanupsAreExact == Spec => CleanupIsExact
<1> DEFINE Exact ==
      /\ nextCleanup' # nextCleanup =>
           \A k \in DOMAIN staleTime' : ~IsPastRemovalTime(staleTime'[k], clock)
      /\ \A k \in Len(removed) + 1 .. Len(removed') :
           LET c == contents[removed'[k]]
           IN  clock >= c.at + c.data.freshness /\ clock >= c.at + c.least
<1>1. ASSUME CacheInv, [Next]_vars PROVE [Exact]_vars
  <2>1. CASE UNCHANGED <<removed, nextCleanup>>
    <3>1. Len(removed) \in Nat
      BY <1>1 DEF CacheInv, TypeOK
    <3>2. Len(removed) + 1 .. Len(removed') = {}
      BY <2>1, <3>1
    <3> QED BY <2>1, <3>2
  <2>2. CASE \E frame : DoCleanup(frame)
    <3>1. PICK frame : DoCleanup(frame)
      BY <2>2
    <3>2. /\ IsCleanupDue =>
               \A k \in DOMAIN staleTime' : ~IsPastRemovalTime(staleTime'[k], clock)
          /\ \A k \in Len(removed) + 1 .. Len(removed') :
               removed'[k] \in DOMAIN contents /\ IsPastRemovalTime(removed'[k], clock)
      BY <1>1, <3>1, CleanupRemovesPast
    <3>3. nextCleanup' # nextCleanup => IsCleanupDue
      BY <3>1 DEF DoCleanup
    <3>4. ASSUME NEW k \in Len(removed) + 1 .. Len(removed')
          PROVE  LET c == contents[removed'[k]]
                 IN  clock >= c.at + c.data.freshness /\ clock >= c.at + c.least
      <4> DEFINE c == contents[removed'[k]]
      <4>1. removed'[k] \in DOMAIN contents /\ c.removal <= clock
        BY <3>2 DEF IsPastRemovalTime
      <4>2. /\ c.removal >= c.at + c.data.freshness /\ c.removal >= c.at + c.least
            /\ c.at \in Nat /\ c.data.freshness \in Int /\ c.least \in Nat /\ c.removal \in Nat
            /\ clock \in Nat
        <5>1. c \in Contents
          BY <1>1, <4>1 DEF CacheInv, TypeOK
        <5>2. c.at \in Nat /\ c.least \in Nat /\ c.removal \in Nat
          BY <5>1 DEF Contents
        <5> QED BY <1>1, <4>1, <5>2, ElementTypes DEF CacheInv, TimesInv, TypeOK
      <4> QED BY <4>1, <4>2
    <3> QED BY <3>2, <3>3, <3>4
  <2>3. UNCHANGED <<removed, nextCleanup>> \/ \E frame : DoCleanup(frame)
    BY <1>1 DEF Next, vars, cacheVars, RegisterPrefix, UnregisterAll, SetMinimumCacheLifetime,
           StorePendingInterest, ReceiveInterest, GetPendingInterests, Add, AddBody, Insert,
           OnContentRemovedReturns, OnInterest, OnInterestBody, OnDataNotFoundReturns, Tick
  <2> QED BY <2>1, <2>2, <2>3
<1>2. CacheInv /\ [Next]_vars => [Exact]_vars
  BY <1>1
<1>3. Spec => [][Exact]_vars
  BY <1>2, CacheIsKept, PTL DEF Spec
<1> QED BY <1>3 DEF CleanupIsExact
=============================================================================
