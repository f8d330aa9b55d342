---------------------------- MODULE AccessProofs ----------------------------
(***************************************************************************)
(* Name based access control, for every number of content keys, tries,     *)
(* KEKs and calls of decrypt: the encryptor does not stop asking for the   *)
(* KEK before it has one, and no call of decrypt is answered twice.        *)
(***************************************************************************)
EXTENDS AccessControl, TLAPS

Encryptors ==
  [ck : 0 .. MaxCks, kek : Keks \cup {NoKek}, isInProgress : BOOLEAN,
   pendingInterestId : 0 .. NRetries, interests : [Tries -> Nat],
   refetches : [Tries -> Nat], retries : Nat, calls : Nat, gaveUp : BOOLEAN,
   storage : SUBSET (Cks \X Keks)]

(* What fetchKekAndPublishCkData and retryFetchingKek rely on: the ID is   *)
(* of an Interest that is pending, and a retrieval in progress has an      *)
(* Interest or a delayed call.                                             *)
IdIsPending(e) ==
  e.pendingInterestId > 0 => e.interests[e.pendingInterestId] > 0
ProgressIsUnderWay(e) == e.isInProgress => IsUnderWay(e)

KeepsUp(e) == e.kek = NoKek => IdIsPending(e) /\ ProgressIsUnderWay(e)
GoesOn(e) == e.kek = NoKek => IsUnderWay(e) \/ e.retries > 0 \/ e.gaveUp

(* The present CK is published with a KEK that encrypts.                   *)
IsPublished(e) == e.kek \in Good => <<e.ck, e.kek>> \in e.storage

(* What holds after each of them.                                          *)
After(e) == e \in Encryptors /\ KeepsUp(e) /\ GoesOn(e) /\ IsPublished(e)
-----------------------------------------------------------------------------
(* The changes of one field.                                               *)
LEMMA InProgressField ==
  ASSUME NEW e \in Encryptors, NEW b \in BOOLEAN
  PROVE  [e EXCEPT !.isInProgress = b] \in Encryptors
BY DEF Encryptors

LEMMA IdField ==
  ASSUME NEW e \in Encryptors, NEW n \in Tries
  PROVE  LET f == [e EXCEPT !.pendingInterestId = n] IN
         /\ f \in Encryptors /\ f.ck = e.ck /\ f.kek = e.kek /\ f.pendingInterestId = n
         /\ f.interests = e.interests /\ f.refetches = e.refetches /\ f.storage = e.storage
<1>1. n \in 0 .. NRetries
  BY EncryptorAssumption DEF Tries
<1> QED
  BY <1>1 DEF Encryptors

LEMMA CallsField ==
  ASSUME NEW e \in Encryptors
  PROVE  LET f == CallsOnError(e) IN
         /\ f \in Encryptors /\ f.ck = e.ck /\ f.kek = e.kek
         /\ f.isInProgress = e.isInProgress /\ f.interests = e.interests
         /\ f.refetches = e.refetches /\ f.pendingInterestId = e.pendingInterestId
         /\ f.retries = e.retries /\ f.gaveUp = e.gaveUp /\ f.storage = e.storage
BY DEF CallsOnError, Encryptors

LEMMA StorageField ==
  ASSUME NEW e \in Encryptors, e.ck > 0, e.kek \in Keks
  PROVE  LET f == Published(e) IN
         f \in Encryptors /\ f.ck = e.ck /\ f.kek = e.kek /\ <<f.ck, f.kek>> \in f.storage
<1>1. <<e.ck, e.kek>> \in Cks \X Keks
  BY EncryptorAssumption DEF Cks, Encryptors
<1> QED
  BY <1>1 DEF Published, Encryptors

(* An Interest that is added is under way.                                 *)
LEMMA ExpressedIsUnderWay ==
  ASSUME NEW e \in Encryptors, NEW n \in Tries
  PROVE  /\ Expressed(e, n) \in Encryptors
         /\ IsUnderWay(Expressed(e, n))
         /\ Expressed(e, n).interests[n] > 0
         /\ e.pendingInterestId > 0 /\ IdIsPending(e) => IdIsPending(Expressed(e, n))
<1> DEFINE f == Expressed(e, n)
<1>1. f \in Encryptors
  BY DEF Expressed, Encryptors
<1>2. f.interests = [e.interests EXCEPT ![n] = @ + 1]
      /\ f.pendingInterestId = e.pendingInterestId
  BY DEF Expressed, Encryptors
<1>3. f.interests[n] > 0
  BY <1>2 DEF Encryptors
<1>4. IsUnderWay(f)
  BY <1>3 DEF IsUnderWay, IsCalled
<1>5. e.pendingInterestId > 0 /\ IdIsPending(e) => IdIsPending(f)
  BY <1>2, EncryptorAssumption DEF IdIsPending, Encryptors, Tries
<1> QED
  BY <1>1, <1>3, <1>4, <1>5

(* onError leaves what is pending as it is.                                *)
LEMMA OnErrorKeeps ==
  ASSUME NEW e \in Encryptors, e.kek = NoKek => IdIsPending(e)
  PROVE  /\ OnError(e) \in Encryptors
         /\ OnError(e).ck = e.ck /\ OnError(e).kek = e.kek
         /\ OnError(e).storage = e.storage
         /\ KeepsUp(OnError(e))
         /\ GoesOn(e) => GoesOn(OnError(e))
<1> DEFINE g == [e EXCEPT !.isInProgress = FALSE]
           f == OnError(e)
<1>0. /\ g \in Encryptors
      /\ g.isInProgress = FALSE /\ g.interests = e.interests
      /\ g.refetches = e.refetches /\ g.pendingInterestId = e.pendingInterestId
      /\ g.retries = e.retries /\ g.gaveUp = e.gaveUp /\ g.kek = e.kek /\ g.ck = e.ck
      /\ g.storage = e.storage
  BY InProgressField DEF Encryptors
<1>1. f = CallsOnError(g)
  BY DEF OnError
<1> HIDE DEF g, f
<1>2. /\ f \in Encryptors
      /\ f.isInProgress = FALSE /\ f.interests = e.interests
      /\ f.refetches = e.refetches /\ f.pendingInterestId = e.pendingInterestId
      /\ f.retries = e.retries /\ f.gaveUp = e.gaveUp /\ f.kek = e.kek /\ f.ck = e.ck
      /\ f.storage = e.storage
  BY <1>0, <1>1, CallsField
<1> QED
  BY <1>2 DEF f, KeepsUp, IdIsPending, ProgressIsUnderWay, GoesOn, IsUnderWay, IsCalled

(* onData: there is a KEK.                                                 *)
LEMMA WithKek ==
  ASSUME NEW e \in Encryptors, e.ck > 0, NEW kek \in Keks
  PROVE  /\ KekRetrieved(e, kek) \in Encryptors
         /\ KekRetrieved(e, kek).kek # NoKek /\ KekRetrieved(e, kek).ck = e.ck
         /\ IsPublished(KekRetrieved(e, kek))
<1> DEFINE f == [e EXCEPT !.pendingInterestId = 0, !.kek = kek]
           h == [e EXCEPT !.pendingInterestId = 0]
<1>0. h \in Encryptors /\ h.ck = e.ck
  BY EncryptorAssumption DEF Encryptors
<1>1. f \in Encryptors /\ f.ck = e.ck /\ f.kek = kek /\ kek # NoKek
  <2>1. f = [h EXCEPT !.kek = kek]
    OBVIOUS
  <2> HIDE DEF h
  <2> QED
    BY <1>0, <2>1, EncryptorAssumption DEF Encryptors
<1>2. KekRetrieved(e, kek) =
        IF kek \in Good THEN [Published(f) EXCEPT !.isInProgress = FALSE] ELSE OnError(f)
  BY DEF KekRetrieved
<1> HIDE DEF f
<1>3. CASE kek \in Good
  <2> DEFINE g == Published(f)
  <2>1. g \in Encryptors /\ g.ck = e.ck /\ g.kek = kek /\ <<g.ck, g.kek>> \in g.storage
    BY <1>1, StorageField
  <2>2. KekRetrieved(e, kek) = [g EXCEPT !.isInProgress = FALSE]
    BY <1>2, <1>3
  <2> HIDE DEF g
  <2>3. [g EXCEPT !.isInProgress = FALSE].ck = g.ck
        /\ [g EXCEPT !.isInProgress = FALSE].kek = g.kek
        /\ [g EXCEPT !.isInProgress = FALSE].storage = g.storage
    BY <2>1 DEF Encryptors
  <2> QED
    BY <1>1, <2>1, <2>2, <2>3, InProgressField DEF IsPublished
<1>4. CASE kek \notin Good
  BY <1>1, <1>2, <1>4, OnErrorKeeps DEF IsPublished
<1> QED
  BY <1>3, <1>4

LEMMA FetchedGoesOn ==
  ASSUME NEW e \in Encryptors, e.ck > 0, NEW n \in Tries,
         e.kek = NoKek => IdIsPending(e), IsPublished(e), NEW f \in Fetched(e, n)
  PROVE  After(f) /\ f.ck > 0
<1> USE EncryptorAssumption
<1>0. /\ Expressed(e, n).ck = e.ck /\ Expressed(e, n).kek = e.kek
      /\ Expressed(e, n).storage = e.storage
  BY DEF Expressed, Encryptors
<1>1. CASE e.pendingInterestId > 0
  <2>1. f = OnError(e)
    BY <1>1 DEF Fetched
  <2>2. e.kek = NoKek => IsUnderWay(e)
    BY <1>1 DEF IdIsPending, IsUnderWay, IsCalled, Encryptors, Tries
  <2> QED
    BY <2>1, <2>2, OnErrorKeeps DEF After, GoesOn, IsPublished
<1>2. CASE ~(e.pendingInterestId > 0)
  <2>1. e.pendingInterestId = 0
    BY <1>2 DEF Encryptors
  <2>2. f = [Expressed(e, n) EXCEPT !.pendingInterestId = n]
        \/ f = OnError(Expressed(e, n))
        \/ \E kek \in Keks : f = [KekRetrieved(e, kek) EXCEPT !.pendingInterestId = n]
    BY <1>2 DEF Fetched
  <2>3. CASE f = [Expressed(e, n) EXCEPT !.pendingInterestId = n]
    <3>1. f \in Encryptors /\ f.ck = e.ck /\ f.kek = e.kek /\ f.storage = e.storage
      BY <2>3, <1>0, ExpressedIsUnderWay, IdField
    <3>2. f.interests = Expressed(e, n).interests /\ f.refetches = Expressed(e, n).refetches
          /\ f.pendingInterestId = n
      BY <2>3, ExpressedIsUnderWay, IdField
    <3>3. IsUnderWay(f) /\ IdIsPending(f)
      BY <3>2, ExpressedIsUnderWay DEF IsUnderWay, IsCalled, IdIsPending
    <3> QED
      BY <3>1, <3>3 DEF After, KeepsUp, GoesOn, ProgressIsUnderWay, IsPublished
  <2>4. CASE f = OnError(Expressed(e, n))
    <3> DEFINE g == Expressed(e, n)
    <3>1. g.pendingInterestId = 0
      BY <2>1 DEF Expressed, Encryptors
    <3>2. IdIsPending(g) /\ g \in Encryptors /\ IsUnderWay(g)
      BY <3>1, ExpressedIsUnderWay DEF IdIsPending
    <3> QED
      BY <2>4, <1>0, <3>2, OnErrorKeeps DEF After, GoesOn, IsPublished
  <2>5. CASE \E kek \in Keks : f = [KekRetrieved(e, kek) EXCEPT !.pendingInterestId = n]
    <3>1. PICK kek \in Keks : f = [KekRetrieved(e, kek) EXCEPT !.pendingInterestId = n]
      BY <2>5
    <3>2. f \in Encryptors /\ f.kek # NoKek /\ f.ck = e.ck /\ IsPublished(f)
      BY <3>1, WithKek, IdField DEF IsPublished
    <3> QED
      BY <3>2 DEF After, KeepsUp, GoesOn
  <2> QED
    BY <2>2, <2>3, <2>4, <2>5
<1> QED
  BY <1>1, <1>2

(* A retrieval in progress is under way, and otherwise one begins.         *)
LEMMA RetriedGoesOn ==
  ASSUME NEW e \in Encryptors, e.ck > 0, KeepsUp(e), IsPublished(e),
         NEW f \in RetriedFetching(e)
  PROVE  After(f) /\ f.ck > 0
<1>1. CASE e.isInProgress
  BY <1>1 DEF RetriedFetching, KeepsUp, ProgressIsUnderWay, After, GoesOn
<1>2. CASE ~e.isInProgress
  <2> DEFINE g == [e EXCEPT !.isInProgress = TRUE]
  <2>1. f \in Fetched(g, NRetries)
    BY <1>2 DEF RetriedFetching
  <2>2. /\ g \in Encryptors /\ g.ck = e.ck /\ g.kek = e.kek
        /\ g.pendingInterestId = e.pendingInterestId /\ g.interests = e.interests
        /\ g.storage = e.storage
    BY DEF Encryptors
  <2>3. (g.kek = NoKek => IdIsPending(g)) /\ IsPublished(g)
    BY <2>2 DEF KeepsUp, IdIsPending, IsPublished
  <2>4. NRetries \in Tries
    BY EncryptorAssumption DEF Tries
  <2> QED
    BY <2>1, <2>2, <2>3, <2>4, FetchedGoesOn
<1> QED
  BY <1>1, <1>2

(* regenerateCk, also in the constructor.                                  *)
LEMMA RegeneratedGoesOn ==
  ASSUME NEW e \in Encryptors, e.ck < MaxCks, KeepsUp(e), NEW f \in Regenerated(e)
  PROVE  After(f) /\ f.ck > 0
<1> USE EncryptorAssumption
<1> DEFINE g == [e EXCEPT !.ck = @ + 1]
<1>1. /\ g \in Encryptors /\ g.ck > 0 /\ g.kek = e.kek
      /\ g.pendingInterestId = e.pendingInterestId /\ g.interests = e.interests
      /\ g.refetches = e.refetches /\ g.isInProgress = e.isInProgress
  BY DEF Encryptors
<1>2. KeepsUp(g)
  BY <1>1 DEF KeepsUp, IdIsPending, ProgressIsUnderWay, IsUnderWay, IsCalled
<1>3. CASE e.kek = NoKek
  <2>1. IsPublished(g)
    BY <1>1, <1>3 DEF IsPublished
  <2> QED
    BY <1>1, <1>2, <1>3, <2>1, RetriedGoesOn DEF Regenerated
<1>4. CASE e.kek # NoKek
  <2>1. f = Published(g) \/ (f = CallsOnError(g) /\ g.kek \notin Good)
    BY <1>1, <1>4 DEF Regenerated
  <2>2. g.kek \in Keks
    BY <1>1, <1>4 DEF Encryptors
  <2> HIDE DEF g
  <2>3. f \in Encryptors /\ f.kek = e.kek /\ f.ck = g.ck /\ IsPublished(f)
    BY <1>1, <2>1, <2>2, StorageField, CallsField DEF IsPublished
  <2> QED
    BY <1>1, <1>4, <2>3 DEF After, KeepsUp, GoesOn
<1> QED
  BY <1>3, <1>4
-----------------------------------------------------------------------------
EncryptorInv == After(encryptor) /\ encryptor.ck > 0

LEMMA InitialGoesOn == EncryptorInit => EncryptorInv
<1>1. NewEncryptor \in Encryptors
  BY EncryptorAssumption DEF NewEncryptor, NoCalls, Encryptors
<1>2. NewEncryptor.ck < MaxCks /\ KeepsUp(NewEncryptor)
  BY EncryptorAssumption
  DEF NewEncryptor, KeepsUp, IdIsPending, ProgressIsUnderWay
<1> QED
  BY <1>1, <1>2, RegeneratedGoesOn DEF EncryptorInit, EncryptorInv

(* The callback of an Interest takes it from the table: the ID is 0 then.  *)
LEMMA AnsweredKeeps ==
  ASSUME NEW e \in Encryptors, NEW n \in Tries, e.interests[n] > 0, IsPublished(e)
  PROVE  LET f == Answered(e, n) IN
         /\ IsPublished(f) /\ f \in Encryptors /\ f.ck = e.ck /\ f.kek = e.kek
         /\ f.pendingInterestId = 0 /\ IdIsPending(f)
<1> DEFINE g == [e EXCEPT !.interests[n] = @ - 1]
<1>1. g \in Encryptors /\ g.ck = e.ck /\ g.kek = e.kek /\ g.storage = e.storage
  BY DEF Encryptors
<1>2. Answered(e, n) = [g EXCEPT !.pendingInterestId = 0]
  BY DEF Answered
<1> HIDE DEF g
<1>3. 0 \in 0 .. NRetries
  BY EncryptorAssumption
<1> QED
  BY <1>1, <1>2, <1>3 DEF Encryptors, IdIsPending, IsPublished

(* After the last try a retry is scheduled.                                *)
LEMMA GaveUpGoesOn ==
  ASSUME NEW e \in Encryptors, IdIsPending(e), IsPublished(e)
  PROVE  After(GaveUp(e)) /\ GaveUp(e).ck = e.ck
<1> DEFINE g == [e EXCEPT !.gaveUp = TRUE]
<1>1. /\ g \in Encryptors /\ g.ck = e.ck /\ g.gaveUp
      /\ g.pendingInterestId = e.pendingInterestId /\ g.interests = e.interests
      /\ g.kek = e.kek /\ g.storage = e.storage
  BY DEF Encryptors
<1>2. GaveUp(e) = OnError(g)
  BY DEF GaveUp
<1> HIDE DEF g
<1> QED
  BY <1>1, <1>2, OnErrorKeeps DEF After, GoesOn, IdIsPending, IsPublished

LEMMA StepGoesOn == EncryptorInv /\ [EncryptorNext]_encryptor => EncryptorInv'
<1> SUFFICES ASSUME EncryptorInv, [EncryptorNext]_encryptor PROVE EncryptorInv'
  OBVIOUS
<1> DEFINE e == encryptor
<1>0. e \in Encryptors /\ KeepsUp(e) /\ GoesOn(e) /\ IsPublished(e) /\ e.ck > 0
  BY DEF EncryptorInv, After
<1>1. CASE RegenerateCk
  BY <1>0, <1>1, RegeneratedGoesOn DEF RegenerateCk, EncryptorInv
<1>2. CASE Return
  <2>1. encryptor' = [e EXCEPT !.calls = @ - 1] /\ e.calls > 0
    BY <1>2 DEF Return
  <2>2. /\ encryptor' \in Encryptors /\ encryptor'.ck = e.ck
        /\ encryptor'.kek = e.kek /\ encryptor'.interests = e.interests
        /\ encryptor'.refetches = e.refetches /\ encryptor'.retries = e.retries
        /\ encryptor'.gaveUp = e.gaveUp /\ encryptor'.isInProgress = e.isInProgress
        /\ encryptor'.pendingInterestId = e.pendingInterestId /\ encryptor'.storage = e.storage
    BY <1>0, <2>1 DEF Encryptors
  <2> QED
    BY <1>0, <2>2
    DEF EncryptorInv, After, KeepsUp, GoesOn, IdIsPending, ProgressIsUnderWay,
        IsUnderWay, IsCalled, IsPublished
<1>3. CASE ScheduleRetry
  <2>1. encryptor' = [e EXCEPT !.gaveUp = FALSE, !.retries = @ + 1]
    BY <1>3 DEF ScheduleRetry, Scheduled
  <2> DEFINE g == [e EXCEPT !.gaveUp = FALSE]
  <2>2. /\ g \in Encryptors /\ g.ck = e.ck /\ g.kek = e.kek
        /\ g.interests = e.interests /\ g.refetches = e.refetches
        /\ g.isInProgress = e.isInProgress /\ g.pendingInterestId = e.pendingInterestId
        /\ g.storage = e.storage
    BY <1>0 DEF Encryptors
  <2>3. encryptor' = [g EXCEPT !.retries = @ + 1]
    BY <2>1
  <2> HIDE DEF g
  <2>4. /\ encryptor' \in Encryptors /\ encryptor'.ck = e.ck
        /\ encryptor'.kek = e.kek /\ encryptor'.interests = e.interests
        /\ encryptor'.refetches = e.refetches /\ encryptor'.retries > 0
        /\ encryptor'.isInProgress = e.isInProgress
        /\ encryptor'.pendingInterestId = e.pendingInterestId /\ encryptor'.storage = e.storage
    BY <2>2, <2>3 DEF Encryptors
  <2> QED
    BY <1>0, <2>4
    DEF EncryptorInv, After, KeepsUp, GoesOn, IdIsPending, ProgressIsUnderWay,
        IsUnderWay, IsCalled, IsPublished
<1>4. CASE RetryFetchingKek
  <2> DEFINE g == [e EXCEPT !.retries = @ - 1]
  <2>1. encryptor' \in RetriedFetching(g) /\ e.retries > 0
    BY <1>4 DEF RetryFetchingKek
  <2>2. /\ g \in Encryptors /\ g.ck = e.ck /\ g.kek = e.kek
        /\ g.interests = e.interests /\ g.refetches = e.refetches
        /\ g.isInProgress = e.isInProgress /\ g.pendingInterestId = e.pendingInterestId
        /\ g.storage = e.storage
    BY <1>0, <2>1 DEF Encryptors
  <2>3. KeepsUp(g) /\ IsPublished(g)
    BY <1>0, <2>2
    DEF KeepsUp, IdIsPending, ProgressIsUnderWay, IsUnderWay, IsCalled, IsPublished
  <2> HIDE DEF g
  <2> QED
    BY <1>0, <2>1, <2>2, <2>3, RetriedGoesOn DEF EncryptorInv
<1>5. ASSUME NEW n \in Tries, OnTimeout(n) PROVE EncryptorInv'
  <2> DEFINE g == Answered(e, n)
  <2>1. e.interests[n] > 0
        /\ encryptor' \in (IF n > 1 THEN Fetched(g, n - 1) ELSE {GaveUp(g)})
    BY <1>5 DEF OnTimeout
  <2>2. /\ g \in Encryptors /\ g.ck = e.ck /\ g.kek = e.kek
        /\ g.pendingInterestId = 0 /\ IdIsPending(g) /\ IsPublished(g)
    BY <1>0, <2>1, AnsweredKeeps
  <2> HIDE DEF g
  <2>3. CASE n > 1
    <3>1. n - 1 \in Tries
      BY <2>3, EncryptorAssumption DEF Tries
    <3> QED
      BY <1>0, <2>1, <2>2, <2>3, <3>1, FetchedGoesOn DEF EncryptorInv
  <2>4. CASE ~(n > 1)
    BY <1>0, <2>1, <2>2, <2>4, GaveUpGoesOn DEF EncryptorInv
  <2> QED
    BY <2>3, <2>4
<1>6. ASSUME NEW n \in Tries, OnNetworkNack(n) PROVE EncryptorInv'
  <2> DEFINE g == Answered(e, n)
  <2>1. e.interests[n] > 0
        /\ encryptor' = IF n > 1 THEN [g EXCEPT !.refetches[n - 1] = @ + 1] ELSE GaveUp(g)
    BY <1>6 DEF OnNetworkNack
  <2>2. /\ g \in Encryptors /\ g.ck = e.ck /\ g.kek = e.kek
        /\ g.pendingInterestId = 0 /\ IdIsPending(g) /\ IsPublished(g)
    BY <1>0, <2>1, AnsweredKeeps
  <2> HIDE DEF g
  <2>3. CASE n > 1
    <3>1. n - 1 \in Tries
      BY <2>3, EncryptorAssumption DEF Tries
    <3>2. encryptor' = [g EXCEPT !.refetches[n - 1] = @ + 1]
      BY <2>1, <2>3
    <3>3. /\ encryptor' \in Encryptors /\ encryptor'.ck = g.ck
          /\ encryptor'.pendingInterestId = 0 /\ encryptor'.refetches[n - 1] > 0
          /\ encryptor'.kek = g.kek /\ encryptor'.storage = g.storage
      BY <2>2, <3>1, <3>2 DEF Encryptors
    <3> QED
      BY <1>0, <2>2, <3>1, <3>3
      DEF EncryptorInv, After, KeepsUp, GoesOn, IdIsPending, ProgressIsUnderWay,
          IsUnderWay, IsCalled, IsPublished
  <2>4. CASE ~(n > 1)
    BY <1>0, <2>1, <2>2, <2>4, GaveUpGoesOn DEF EncryptorInv
  <2> QED
    BY <2>3, <2>4
<1>7. ASSUME NEW n \in Tries, Refetch(n) PROVE EncryptorInv'
  <2> DEFINE g == [e EXCEPT !.refetches[n] = @ - 1]
  <2>1. encryptor' \in Fetched(g, n) /\ e.refetches[n] > 0
    BY <1>7 DEF Refetch
  <2>2. /\ g \in Encryptors /\ g.ck = e.ck /\ g.kek = e.kek
        /\ g.interests = e.interests /\ g.pendingInterestId = e.pendingInterestId
        /\ g.storage = e.storage
    BY <1>0, <2>1 DEF Encryptors
  <2>3. (g.kek = NoKek => IdIsPending(g)) /\ IsPublished(g)
    BY <1>0, <2>2 DEF KeepsUp, IdIsPending, IsPublished
  <2> HIDE DEF g
  <2> QED
    BY <1>0, <2>1, <2>2, <2>3, FetchedGoesOn DEF EncryptorInv
<1>8. ASSUME NEW n \in Tries, NEW kek \in Keks, OnKek(n, kek) PROVE EncryptorInv'
  <2> DEFINE g == Answered(e, n)
  <2>1. e.interests[n] > 0 /\ encryptor' = KekRetrieved(g, kek)
    BY <1>8 DEF OnKek
  <2>2. g \in Encryptors /\ g.ck = e.ck
    BY <1>0, <2>1, AnsweredKeeps
  <2> HIDE DEF g
  <2> QED
    BY <1>0, <2>1, <2>2, WithKek DEF EncryptorInv, After, KeepsUp, GoesOn
<1>9. CASE UNCHANGED encryptor
  BY <1>9 DEF EncryptorInv
<1> QED
  BY <1>1, <1>2, <1>3, <1>4, <1>5, <1>6, <1>7, <1>8, <1>9 DEF EncryptorNext, Continue
-----------------------------------------------------------------------------
ContentKeyStates ==
  [isKnown : BOOLEAN, isRetrieved : BOOLEAN, pendingDecrypts : Seq(Decrypts),
   owner : SUBSET Decrypts, interest : {"none", "ck", "kdk"}, tries : 0 .. DecryptTries,
   kdk : SUBSET Keks]
Results == [success : Nat, error : Nat]
Decryptors ==
  [keys : [ContentKeys -> ContentKeyStates], imported : SUBSET Keks,
   called : SUBSET Decrypts, results : [Decrypts -> Results]]

(* A call of decrypt waits for its CK, or fetches it.                      *)
Waiting(s, ck) == ToSet(s.keys[ck].pendingDecrypts)
Waits(s, d) == d \in Waiting(s, CkOf[d])
Fetches(s, d) == d \in s.keys[CkOf[d]].owner

(* Calls wait and fetch under their own CK, and only after they were made. *)
UnderOwnCk(s) ==
  \A ck \in ContentKeys, d \in Decrypts :
    d \in Waiting(s, ck) \cup s.keys[ck].owner => CkOf[d] = ck /\ d \in s.called

(* The first call with a CK is the one that fetches it.                    *)
FirstFetches(s) ==
  \A ck \in ContentKeys : ~s.keys[ck].isKnown => s.keys[ck].owner = {}

(* What a call was told, and what it was not yet.                          *)
ToldOnce(s) ==
  \A d \in Decrypts :
    LET r == s.results[d] IN
    /\ r.success <= 1
    /\ ~Fetches(s, d) => r.success + r.error <= 1
    /\ Waits(s, d) => r.success = 0 /\ (~Fetches(s, d) => r.error = 0)
    /\ d \notin s.called => r.success = 0 /\ r.error = 0

Once(s) == s \in Decryptors /\ UnderOwnCk(s) /\ FirstFetches(s) /\ ToldOnce(s)
WithKey(s, ck, key) == [s EXCEPT !.keys[ck] = key]
WithResults(s, results) == [s EXCEPT !.results = results]

LEMMA CkOfDecrypt ==
  ASSUME NEW d \in Decrypts
  PROVE  CkOf[d] \in ContentKeys
BY DEF ContentKeys

(* What leaves alone who waits, who fetches and what was told.             *)
LEMMA SameKeepsOnce ==
  ASSUME NEW s, Once(s), NEW t \in Decryptors,
         t.called = s.called, t.results = s.results,
         \A ck \in ContentKeys :
           /\ t.keys[ck].pendingDecrypts = s.keys[ck].pendingDecrypts
           /\ t.keys[ck].owner = s.keys[ck].owner
           /\ t.keys[ck].isKnown = s.keys[ck].isKnown
  PROVE  Once(t)
<1>1. \A ck \in ContentKeys : Waiting(t, ck) = Waiting(s, ck)
  BY DEF Waiting
<1>2. \A d \in Decrypts : (Waits(t, d) <=> Waits(s, d)) /\ (Fetches(t, d) <=> Fetches(s, d))
  BY <1>1, CkOfDecrypt DEF Waits, Fetches
<1>3. UnderOwnCk(t)
  BY <1>1 DEF Once, UnderOwnCk
<1>4. FirstFetches(t)
  BY DEF Once, FirstFetches
<1>5. ToldOnce(t)
  BY <1>2 DEF Once, ToldOnce
<1> QED BY <1>3, <1>4, <1>5 DEF Once

LEMMA KeyChanges ==
  ASSUME NEW s \in Decryptors, NEW ck \in ContentKeys, NEW key \in ContentKeyStates,
         NEW t, t = WithKey(s, ck, key)
  PROVE  /\ t \in Decryptors
         /\ t.called = s.called /\ t.results = s.results /\ t.imported = s.imported
         /\ t.keys[ck] = key
         /\ \A c \in ContentKeys : c # ck => t.keys[c] = s.keys[c]
BY DEF Decryptors, WithKey

(* The fields of the Interest.                                             *)
LEMMA InterestFields ==
  ASSUME NEW s, Once(s), NEW ck \in ContentKeys,
         NEW interest \in {"none", "ck", "kdk"}, NEW tries \in 0 .. DecryptTries,
         NEW t, t = [s EXCEPT !.keys[ck].interest = interest, !.keys[ck].tries = tries]
  PROVE  Once(t)
<1>1. s \in Decryptors
  BY DEF Once
<1>2. t \in Decryptors /\ t.called = s.called /\ t.results = s.results /\ t.imported = s.imported
  <2> DEFINE key == [s.keys[ck] EXCEPT !.interest = interest, !.tries = tries]
  <2>1. key \in ContentKeyStates
    <3>1. s.keys[ck] \in ContentKeyStates
      BY <1>1 DEF Decryptors
    <3> QED BY <3>1 DEF ContentKeyStates
  <2>2. t = WithKey(s, ck, key)
    BY <1>1 DEF Decryptors, ContentKeyStates, WithKey
  <2> HIDE DEF key
  <2> QED BY <1>1, <2>1, <2>2, KeyChanges
<1>3. \A c \in ContentKeys :
           /\ t.keys[c].pendingDecrypts = s.keys[c].pendingDecrypts
           /\ t.keys[c].owner = s.keys[c].owner
           /\ t.keys[c].isKnown = s.keys[c].isKnown
  BY <1>1 DEF Decryptors, ContentKeyStates
<1> QED BY <1>2, <1>3, SameKeepsOnce

LEMMA KdkField ==
  ASSUME NEW s, Once(s), NEW ck \in ContentKeys, NEW kdk \in SUBSET Keks
  PROVE  Once([s EXCEPT !.keys[ck].kdk = kdk])
<1> DEFINE t == [s EXCEPT !.keys[ck].kdk = kdk]
           key == [s.keys[ck] EXCEPT !.kdk = kdk]
<1>1. s \in Decryptors /\ s.keys[ck] \in ContentKeyStates
  BY DEF Once, Decryptors
<1>2. /\ key \in ContentKeyStates
      /\ key.pendingDecrypts = s.keys[ck].pendingDecrypts
      /\ key.owner = s.keys[ck].owner /\ key.isKnown = s.keys[ck].isKnown
  BY <1>1 DEF ContentKeyStates
<1>3. t = WithKey(s, ck, key)
  BY <1>1 DEF Decryptors, ContentKeyStates, WithKey
<1> HIDE DEF key, t
<1>4. /\ t \in Decryptors /\ t.called = s.called /\ t.results = s.results
      /\ t.keys[ck] = key
      /\ \A c \in ContentKeys : c # ck => t.keys[c] = s.keys[c]
  BY <1>1, <1>2, <1>3, KeyChanges
<1>5. Once(t)
  BY <1>2, <1>4, SameKeepsOnce
<1> QED BY <1>5 DEF t

LEMMA ImportedKeepsOnce ==
  ASSUME NEW s, Once(s), NEW kdk \in SUBSET Keks
  PROVE  Once(Imported(s, kdk))
<1> DEFINE t == Imported(s, kdk)
<1>1. /\ t \in Decryptors /\ t.called = s.called /\ t.results = s.results
      /\ t.keys = s.keys
  BY DEF Once, Decryptors, Imported
<1> HIDE DEF t
<1>2. Once(t)
  BY <1>1, SameKeepsOnce
<1> QED BY <1>2 DEF t

LEMMA ResultFields ==
  ASSUME NEW r \in Results
  PROVE  /\ r.success \in Nat /\ r.error \in Nat
         /\ WithError(r) \in Results
         /\ WithError(r).success = r.success /\ WithError(r).error = r.error + 1
         /\ WithSuccess(r) \in Results
         /\ WithSuccess(r).success = r.success + 1 /\ WithSuccess(r).error = r.error
BY DEF Results, WithError, WithSuccess

LEMMA ResultsChange ==
  ASSUME NEW s \in Decryptors, NEW results \in [Decrypts -> Results],
         NEW t, t = WithResults(s, results)
  PROVE  /\ t \in Decryptors /\ t.called = s.called /\ t.keys = s.keys
         /\ t.results = results
BY DEF Decryptors, WithResults

LEMMA ToldErrorFields ==
  ASSUME NEW s \in Decryptors, NEW told, NEW t, t = ToldError(s, told)
  PROVE  /\ t \in Decryptors /\ t.called = s.called /\ t.keys = s.keys
         /\ \A d \in Decrypts :
              t.results[d] = IF d \in told THEN WithError(s.results[d]) ELSE s.results[d]
<1> DEFINE results == [d \in Decrypts |->
                         IF d \in told THEN WithError(s.results[d]) ELSE s.results[d]]
<1>1. \A d \in Decrypts : s.results[d] \in Results /\ WithError(s.results[d]) \in Results
  BY ResultFields DEF Decryptors
<1>2. results \in [Decrypts -> Results]
  BY <1>1
<1>3. t = WithResults(s, results)
  BY DEF ToldError, WithResults
<1>4. \A d \in Decrypts :
        results[d] = IF d \in told THEN WithError(s.results[d]) ELSE s.results[d]
  OBVIOUS
<1> HIDE DEF results
<1> QED BY <1>2, <1>3, <1>4, ResultsChange

(* onError is called of those that fetch, and of those that were told      *)
(* nothing and do not wait.                                                *)
LEMMA TellKeepsOnce ==
  ASSUME NEW s, Once(s), NEW told \in SUBSET s.called,
         \A d \in told :
           \/ Fetches(s, d)
           \/ ~Waits(s, d) /\ s.results[d].success = 0 /\ s.results[d].error = 0
  PROVE  Once(ToldError(s, told))
<1> DEFINE t == ToldError(s, told)
<1>1. s \in Decryptors /\ told \in SUBSET Decrypts
  BY DEF Once, Decryptors
<1>2. /\ t \in Decryptors /\ t.called = s.called /\ t.keys = s.keys
      /\ \A d \in Decrypts :
           t.results[d] = IF d \in told THEN WithError(s.results[d]) ELSE s.results[d]
  BY <1>1, ToldErrorFields
<1> HIDE DEF t
<1>3. \A d \in Decrypts : (Waits(t, d) <=> Waits(s, d)) /\ (Fetches(t, d) <=> Fetches(s, d))
  BY <1>2 DEF Waits, Waiting, Fetches
<1>4. UnderOwnCk(t) /\ FirstFetches(t)
  BY <1>2 DEF Once, UnderOwnCk, FirstFetches, Waiting
<1>5. ASSUME NEW d \in Decrypts
      PROVE  LET r == t.results[d] IN
             /\ r.success <= 1
             /\ ~Fetches(t, d) => r.success + r.error <= 1
             /\ Waits(t, d) => r.success = 0 /\ (~Fetches(t, d) => r.error = 0)
             /\ d \notin t.called => r.success = 0 /\ r.error = 0
  <2>1. s.results[d] \in Results
    BY <1>1 DEF Decryptors
  <2>2. LET r == s.results[d] IN
        /\ r.success <= 1
        /\ ~Fetches(s, d) => r.success + r.error <= 1
        /\ Waits(s, d) => r.success = 0 /\ (~Fetches(s, d) => r.error = 0)
        /\ d \notin s.called => r.success = 0 /\ r.error = 0
    BY DEF Once, ToldOnce
  <2>3. CASE d \in told
    <3>1. /\ t.results[d].success = s.results[d].success
          /\ t.results[d].error = s.results[d].error + 1
      BY <1>2, <2>1, <2>3, ResultFields
    <3>2. d \in t.called
      BY <1>2, <2>3
    <3>3. CASE Fetches(s, d)
      BY <1>3, <2>2, <3>1, <3>2, <3>3
    <3>4. CASE ~Waits(s, d) /\ s.results[d].success = 0 /\ s.results[d].error = 0
      BY <1>3, <3>1, <3>2, <3>4
    <3> QED BY <2>3, <3>3, <3>4
  <2>4. CASE d \notin told
    BY <1>2, <1>3, <2>2, <2>4
  <2> QED BY <2>3, <2>4
<1>6. ToldOnce(t)
  BY <1>5 DEF ToldOnce
<1>7. Once(t)
  BY <1>2, <1>4, <1>6 DEF Once
<1> QED BY <1>7 DEF t

LEMMA FailedKeepsOnce ==
  ASSUME NEW s, Once(s), NEW ck \in ContentKeys
  PROVE  Once(Failed(s, ck))
<1> DEFINE told == s.keys[ck].owner
<1>1. told \in SUBSET Decrypts
  BY DEF Once, Decryptors, ContentKeyStates
<1>2. told \in SUBSET s.called /\ \A d \in told : Fetches(s, d)
  BY <1>1 DEF Once, UnderOwnCk, Fetches
<1>3. Failed(s, ck) = ToldError(s, told)
  BY DEF Failed
<1> HIDE DEF told
<1> QED BY <1>2, <1>3, TellKeepsOnce

LEMMA SentKeepsOnce ==
  ASSUME NEW s, Once(s), NEW ck \in ContentKeys,
         NEW interest \in {"none", "ck", "kdk"}, NEW tries \in 0 .. DecryptTries,
         NEW t, t \in Sent(s, ck, interest, tries)
  PROVE  Once(t)
<1> DEFINE next == [s EXCEPT !.keys[ck].interest = interest, !.keys[ck].tries = tries]
<1>1. Once(next)
  BY InterestFields
<1>2. t = next \/ t = Failed(next, ck)
  BY DEF Sent
<1> HIDE DEF next
<1> QED BY <1>1, <1>2, FailedKeepsOnce

LEMMA EndedKeepsOnce ==
  ASSUME NEW s, Once(s), NEW ck \in ContentKeys
  PROVE  Once(Ended(s, ck))
<1>1. "none" \in {"none", "ck", "kdk"} /\ 0 \in 0 .. DecryptTries
  BY DecryptorAssumption
<1>2. Ended(s, ck) = [s EXCEPT !.keys[ck].interest = "none", !.keys[ck].tries = 0]
  BY DEF Ended
<1> QED BY <1>1, <1>2, InterestFields

LEMMA DecryptedFields ==
  ASSUME NEW s \in Decryptors, NEW calls, NEW u, u = Decrypted(s, calls)
  PROVE  /\ u \in Decryptors /\ u.called = s.called /\ u.keys = s.keys
         /\ \A d \in Decrypts :
              u.results[d] = IF d \in calls \ Corrupt THEN WithSuccess(s.results[d])
                             ELSE IF d \in calls \cap Corrupt THEN WithError(s.results[d])
                             ELSE s.results[d]
<1> DEFINE v == ToldError(s, calls \cap Corrupt)
<1>1. /\ v \in Decryptors /\ v.called = s.called /\ v.keys = s.keys
      /\ \A d \in Decrypts :
           v.results[d] = IF d \in calls \cap Corrupt THEN WithError(s.results[d])
                          ELSE s.results[d]
  BY ToldErrorFields
<1> DEFINE results == [d \in Decrypts |->
             IF d \in calls \ Corrupt THEN WithSuccess(v.results[d]) ELSE v.results[d]]
<1>2. u = WithResults(v, results)
  BY DEF Decrypted, WithResults
<1> HIDE DEF v
<1>3. results \in [Decrypts -> Results]
  <2>1. \A d \in Decrypts : v.results[d] \in Results /\ WithSuccess(v.results[d]) \in Results
    BY <1>1, ResultFields DEF Decryptors
  <2> QED BY <2>1
<1>4. \A d \in Decrypts :
        results[d] = IF d \in calls \ Corrupt THEN WithSuccess(v.results[d])
                     ELSE v.results[d]
  OBVIOUS
<1> HIDE DEF results
<1>5. /\ u \in Decryptors /\ u.called = v.called /\ u.keys = v.keys
      /\ u.results = results
  BY <1>1, <1>2, <1>3, ResultsChange
<1> QED BY <1>1, <1>4, <1>5

(* What waits for a CK is decrypted when the CK comes, and waits no more.  *)
LEMMA RetrievedKeepsOnce ==
  ASSUME NEW s, Once(s), NEW ck \in ContentKeys
  PROVE  Once(Retrieved(s, ck))
<1> DEFINE calls == Waiting(s, ck)
           u == Decrypted(s, calls)
           t == Retrieved(s, ck)
           key == [s.keys[ck] EXCEPT !.isRetrieved = TRUE, !.pendingDecrypts = <<>>]
<1>1. /\ s \in Decryptors /\ s.keys[ck] \in ContentKeyStates
      /\ \A d \in Decrypts : s.results[d] \in Results
  BY DEF Once, Decryptors
<1>2. /\ u \in Decryptors /\ u.called = s.called /\ u.keys = s.keys
      /\ \A d \in Decrypts :
           u.results[d] = IF d \in calls \ Corrupt THEN WithSuccess(s.results[d])
                          ELSE IF d \in calls \cap Corrupt THEN WithError(s.results[d])
                          ELSE s.results[d]
  BY <1>1, DecryptedFields
<1>3. /\ key \in ContentKeyStates /\ key.pendingDecrypts = <<>>
      /\ key.owner = s.keys[ck].owner /\ key.isKnown = s.keys[ck].isKnown
  <2>1. <<>> \in Seq(Decrypts)
    OBVIOUS
  <2> QED BY <1>1, <2>1 DEF ContentKeyStates
<1>4. t = WithKey(u, ck, key)
  BY <1>1, <1>2 DEF Retrieved, Waiting, Decryptors, ContentKeyStates, WithKey
<1> HIDE DEF key, t, u, calls
<1>5. /\ t \in Decryptors /\ t.called = s.called /\ t.results = u.results
      /\ t.keys[ck] = key
      /\ \A c \in ContentKeys : c # ck => t.keys[c] = s.keys[c]
  <2>1. /\ t \in Decryptors /\ t.called = u.called /\ t.results = u.results
        /\ t.keys[ck] = key
        /\ \A c \in ContentKeys : c # ck => t.keys[c] = u.keys[c]
    BY <1>2, <1>3, <1>4, KeyChanges
  <2> QED BY <1>2, <2>1
<1>6. /\ Waiting(t, ck) = {}
      /\ \A c \in ContentKeys :
           /\ c # ck => Waiting(t, c) = Waiting(s, c)
           /\ t.keys[c].owner = s.keys[c].owner /\ t.keys[c].isKnown = s.keys[c].isKnown
  BY <1>3, <1>5 DEF Waiting, ToSet
<1>7. UnderOwnCk(t) /\ FirstFetches(t)
  BY <1>5, <1>6 DEF Once, UnderOwnCk, FirstFetches
<1>8. ToldOnce(t)
  <2> SUFFICES ASSUME NEW d \in Decrypts
               PROVE  LET r == t.results[d] IN
                      /\ r.success <= 1
                      /\ ~Fetches(t, d) => r.success + r.error <= 1
                      /\ Waits(t, d) => r.success = 0 /\ (~Fetches(t, d) => r.error = 0)
                      /\ d \notin t.called => r.success = 0 /\ r.error = 0
    BY DEF ToldOnce
  <2>1. CkOf[d] \in ContentKeys /\ s.results[d] \in Results
    BY <1>1, CkOfDecrypt
  <2>2. Fetches(t, d) <=> Fetches(s, d)
    BY <1>6, <2>1 DEF Fetches
  <2>3. CASE d \in calls
    <3>1. CkOf[d] = ck /\ d \in s.called /\ Waits(s, d) /\ ~Waits(t, d)
      BY <1>6, <2>3 DEF Once, UnderOwnCk, Waits, calls
    <3>2. s.results[d].success = 0 /\ (~Fetches(s, d) => s.results[d].error = 0)
      BY <3>1 DEF Once, ToldOnce
    <3>3. \/ /\ t.results[d].success = 1
             /\ t.results[d].error = s.results[d].error
          \/ /\ t.results[d].success = 0
             /\ t.results[d].error = s.results[d].error + 1
            <4>1. t.results[d] = WithSuccess(s.results[d]) \/ t.results[d] = WithError(s.results[d])
        BY <1>2, <1>5, <2>3
      <4> QED BY <2>1, <3>2, <4>1, ResultFields
    <3>4. s.results[d].error \in Nat
      BY <2>1 DEF Results
    <3> QED BY <1>5, <2>2, <3>1, <3>2, <3>3, <3>4
  <2>4. CASE d \notin calls
    <3>1. t.results[d] = s.results[d]
      BY <1>2, <1>5, <2>4
    <3>2. Waits(t, d) => Waits(s, d)
      BY <1>6, <2>1 DEF Waits
    <3> QED BY <1>5, <2>2, <3>1, <3>2 DEF Once, ToldOnce
  <2> QED BY <2>3, <2>4
<1>9. Once(t)
  BY <1>5, <1>7, <1>8 DEF Once
<1> QED BY <1>9 DEF t

(* A call that was told nothing waits, fetches its CK, or is answered.     *)
LEMMA WaitKeepsOnce ==
  ASSUME NEW s, Once(s), NEW d \in s.called,
         s.results[d].success = 0, s.results[d].error = 0
  PROVE  Once(Wait(s, d))
<1> DEFINE ck == CkOf[d]
           t == Wait(s, d)
           key == [s.keys[ck] EXCEPT !.pendingDecrypts = Append(@, d)]
<1>1. s \in Decryptors /\ d \in Decrypts
  BY DEF Once, Decryptors
<1>2. ck \in ContentKeys /\ s.keys[ck] \in ContentKeyStates
  BY <1>1, CkOfDecrypt DEF Decryptors
<1>3. s.keys[ck].pendingDecrypts \in Seq(Decrypts)
  BY <1>2 DEF ContentKeyStates
<1>4. /\ key \in ContentKeyStates
      /\ key.pendingDecrypts = Append(s.keys[ck].pendingDecrypts, d)
      /\ key.owner = s.keys[ck].owner /\ key.isKnown = s.keys[ck].isKnown
  <2>1. Append(s.keys[ck].pendingDecrypts, d) \in Seq(Decrypts)
    BY <1>1, <1>3
  <2> QED BY <1>2, <2>1 DEF ContentKeyStates
<1>5. t = WithKey(s, ck, key)
  BY <1>1, <1>2 DEF Wait, WithKey, Decryptors, ContentKeyStates
<1>6. ToSet(Append(s.keys[ck].pendingDecrypts, d)) \subseteq
        ToSet(s.keys[ck].pendingDecrypts) \cup {d}
  BY <1>1, <1>3 DEF ToSet
<1> HIDE DEF key, t
<1>7. /\ t \in Decryptors /\ t.called = s.called /\ t.results = s.results
      /\ t.keys[ck] = key
      /\ \A c \in ContentKeys : c # ck => t.keys[c] = s.keys[c]
  BY <1>1, <1>2, <1>4, <1>5, KeyChanges
<1>8. /\ \A c \in ContentKeys, x \in Decrypts :
           x \in Waiting(t, c) => x \in Waiting(s, c) \/ (x = d /\ c = ck)
      /\ \A c \in ContentKeys :
           t.keys[c].owner = s.keys[c].owner /\ t.keys[c].isKnown = s.keys[c].isKnown
  BY <1>2, <1>4, <1>6, <1>7 DEF Waiting
<1>9. UnderOwnCk(t) /\ FirstFetches(t)
  BY <1>7, <1>8 DEF Once, UnderOwnCk, FirstFetches
<1>10. /\ \A x \in Decrypts : Waits(t, x) => Waits(s, x) \/ x = d
       /\ \A x \in Decrypts : Fetches(t, x) <=> Fetches(s, x)
  BY <1>8, CkOfDecrypt DEF Waits, Fetches
<1>11. ToldOnce(t)
  BY <1>7, <1>10 DEF Once, ToldOnce
<1>12. Once(t)
  BY <1>7, <1>9, <1>11 DEF Once
<1> QED BY <1>12 DEF t

LEMMA OwnKeepsOnce ==
  ASSUME NEW s, Once(s), NEW d \in s.called, ~s.keys[CkOf[d]].isKnown
  PROVE  Once(Own(s, d))
<1> DEFINE ck == CkOf[d]
           t == Own(s, d)
           key == [s.keys[ck] EXCEPT !.isKnown = TRUE, !.owner = {d}]
<1>1. s \in Decryptors /\ d \in Decrypts
  BY DEF Once, Decryptors
<1>2. ck \in ContentKeys /\ s.keys[ck] \in ContentKeyStates
  BY <1>1, CkOfDecrypt DEF Decryptors
<1>3. /\ key \in ContentKeyStates
      /\ key.pendingDecrypts = s.keys[ck].pendingDecrypts
      /\ key.owner = {d} /\ key.isKnown = TRUE
  BY <1>1, <1>2 DEF ContentKeyStates
<1>4. t = WithKey(s, ck, key)
  BY <1>1, <1>2 DEF Own, WithKey, Decryptors, ContentKeyStates
<1> HIDE DEF key, t
<1>5. /\ t \in Decryptors /\ t.called = s.called /\ t.results = s.results
      /\ t.keys[ck] = key
      /\ \A c \in ContentKeys : c # ck => t.keys[c] = s.keys[c]
  BY <1>1, <1>2, <1>3, <1>4, KeyChanges
<1>6. s.keys[ck].owner = {}
  BY <1>2 DEF Once, FirstFetches
<1>7. /\ \A c \in ContentKeys : Waiting(t, c) = Waiting(s, c)
      /\ t.keys[ck].owner = {d} /\ t.keys[ck].isKnown
  BY <1>3, <1>5 DEF Waiting
<1>8. UnderOwnCk(t)
  BY <1>1, <1>5, <1>7 DEF Once, UnderOwnCk
<1>9. FirstFetches(t)
  BY <1>5, <1>7 DEF Once, FirstFetches
<1>10. \A x \in Decrypts :
         /\ Waits(t, x) <=> Waits(s, x)
         /\ Fetches(s, x) => Fetches(t, x)
  BY <1>5, <1>6, <1>7, CkOfDecrypt DEF Waits, Fetches
<1>11. ToldOnce(t)
  BY <1>5, <1>10 DEF Once, ToldOnce
<1>12. Once(t)
  BY <1>5, <1>8, <1>9, <1>11 DEF Once
<1> QED BY <1>12 DEF t

LEMMA AnswerKeepsOnce ==
  ASSUME NEW s, Once(s), NEW d \in s.called, ~Waits(s, d),
         s.results[d].success = 0, s.results[d].error = 0
  PROVE  Once(Decrypted(s, {d}))
<1> DEFINE t == Decrypted(s, {d})
<1>1. s \in Decryptors /\ d \in Decrypts
  BY DEF Once, Decryptors
<1>2. /\ t \in Decryptors /\ t.called = s.called /\ t.keys = s.keys
      /\ \A x \in Decrypts : x # d => t.results[x] = s.results[x]
      /\ t.results[d] = WithSuccess(s.results[d]) \/ t.results[d] = WithError(s.results[d])
  BY <1>1, DecryptedFields
<1>3. s.results[d] \in Results
  BY <1>1 DEF Decryptors
<1> HIDE DEF t
<1>4. \A x \in Decrypts : (Waits(t, x) <=> Waits(s, x)) /\ (Fetches(t, x) <=> Fetches(s, x))
  BY <1>2 DEF Waits, Waiting, Fetches
<1>5. UnderOwnCk(t) /\ FirstFetches(t)
  BY <1>2 DEF Once, UnderOwnCk, FirstFetches, Waiting
<1>6. t.results[d].success <= 1 /\ t.results[d].success + t.results[d].error <= 1
  BY <1>2, <1>3, ResultFields
<1>7. ToldOnce(t)
  BY <1>2, <1>4, <1>6 DEF Once, ToldOnce
<1>8. Once(t)
  BY <1>2, <1>5, <1>7 DEF Once
<1> QED BY <1>8 DEF t

LEMMA DecryptKeepsOnce ==
  ASSUME Once(decryptor), NEW d \in Decrypts, Decrypt(d)
  PROVE  Once(decryptor')
<1> DEFINE s == [decryptor EXCEPT !.called = @ \cup {d}]
           key == s.keys[CkOf[d]]
<1>1. decryptor \in Decryptors /\ d \notin decryptor.called
  BY DEF Once, Decrypt
<1>2. /\ s \in Decryptors /\ s.keys = decryptor.keys /\ s.results = decryptor.results
      /\ s.called = decryptor.called \cup {d}
  BY <1>1 DEF Decryptors
<1>3. decryptor' \in
        IF d \in Malformed THEN {ToldError(s, {d})}
        ELSE IF key.isRetrieved THEN {Decrypted(s, {d})}
        ELSE IF IsNew(key) THEN Sent(Own(Wait(s, d), d), CkOf[d], "ck", DecryptTries)
        ELSE {Wait(s, d)}
  BY DEF Decrypt
<1> HIDE DEF s
<1>4. \A x \in Decrypts :
        (Waits(s, x) <=> Waits(decryptor, x)) /\ (Fetches(s, x) <=> Fetches(decryptor, x))
  BY <1>2 DEF Waits, Waiting, Fetches
<1>5. s.results[d].success = 0 /\ s.results[d].error = 0
  BY <1>1, <1>2 DEF Once, ToldOnce
<1>6. Once(s)
  <2>1. UnderOwnCk(s) /\ FirstFetches(s)
    BY <1>2 DEF Once, UnderOwnCk, FirstFetches, Waiting
  <2>2. ToldOnce(s)
    BY <1>2, <1>4 DEF Once, ToldOnce
  <2> QED BY <1>2, <2>1, <2>2 DEF Once
<1>7. ~Waits(s, d)
  BY <1>1, <1>4, CkOfDecrypt DEF Once, UnderOwnCk, Waits
<1>8. d \in s.called /\ {d} \in SUBSET s.called
  BY <1>2
<1>9. CASE d \in Malformed
  BY <1>3, <1>5, <1>6, <1>7, <1>8, <1>9, TellKeepsOnce
<1>10. CASE d \notin Malformed /\ key.isRetrieved
  BY <1>3, <1>5, <1>6, <1>7, <1>8, <1>10, AnswerKeepsOnce
<1>11. CASE d \notin Malformed /\ ~key.isRetrieved /\ IsNew(key)
  <2> DEFINE t == Wait(s, d)
             u == Own(t, d)
  <2>1. Once(t)
    BY <1>5, <1>6, <1>8, WaitKeepsOnce
  <2>2. d \in t.called /\ t.keys[CkOf[d]].isKnown = key.isKnown
    <3>1. CkOf[d] \in ContentKeys
      BY CkOfDecrypt
    <3> QED BY <1>2, <1>8, <3>1 DEF Wait, Decryptors, ContentKeyStates
  <2> HIDE DEF t
  <2>3. Once(u)
    BY <1>11, <2>1, <2>2, OwnKeepsOnce DEF IsNew
  <2>4. decryptor' \in Sent(u, CkOf[d], "ck", DecryptTries)
    BY <1>3, <1>11 DEF t
  <2> HIDE DEF u
  <2>5. "ck" \in {"none", "ck", "kdk"} /\ DecryptTries \in 0 .. DecryptTries
        /\ CkOf[d] \in ContentKeys
    BY DecryptorAssumption, CkOfDecrypt
  <2> QED BY <2>3, <2>4, <2>5, SentKeepsOnce
<1>12. CASE d \notin Malformed /\ ~key.isRetrieved /\ ~IsNew(key)
  BY <1>3, <1>5, <1>6, <1>8, <1>12, WaitKeepsOnce
<1> QED BY <1>9, <1>10, <1>11, <1>12

LEMMA OnCkDataKeepsOnce ==
  ASSUME Once(decryptor), NEW ck \in ContentKeys, NEW kdk \in Keks, OnCkData(ck, kdk)
  PROVE  Once(decryptor')
<1> DEFINE s == Ended(decryptor, ck)
           t == [s EXCEPT !.keys[ck].kdk = {kdk}]
<1>1. Once(s)
  BY EndedKeepsOnce
<1>2. decryptor' \in IF kdk \in s.imported THEN DecryptedCk(s, ck)
                     ELSE Sent(t, ck, "kdk", DecryptTries)
  BY DEF OnCkData
<1> HIDE DEF s
<1>3. Once(t)
  <2>1. {kdk} \in SUBSET Keks
    OBVIOUS
  <2> QED BY <1>1, <2>1, KdkField
<1> HIDE DEF t
<1>4. CASE kdk \in s.imported
  BY <1>1, <1>2, <1>4, RetrievedKeepsOnce, FailedKeepsOnce DEF DecryptedCk
<1>5. CASE kdk \notin s.imported
  <2>1. "kdk" \in {"none", "ck", "kdk"} /\ DecryptTries \in 0 .. DecryptTries
    BY DecryptorAssumption
  <2> QED BY <1>2, <1>3, <1>5, <2>1, SentKeepsOnce
<1> QED BY <1>4, <1>5

LEMMA OnKdkDataKeepsOnce ==
  ASSUME Once(decryptor), NEW ck \in ContentKeys, OnKdkData(ck)
  PROVE  Once(decryptor')
<1> DEFINE s == Ended(decryptor, ck)
           kdk == s.keys[ck].kdk
<1>1. Once(s)
  BY EndedKeepsOnce
<1>2. decryptor' \in IF kdk \subseteq s.imported THEN {Failed(s, ck)}
                     ELSE DecryptedCk(Imported(s, kdk), ck)
  BY DEF OnKdkData
<1> HIDE DEF s
<1>3. kdk \in SUBSET Keks
  BY <1>1 DEF Once, Decryptors, ContentKeyStates
<1> HIDE DEF kdk
<1>4. Once(Imported(s, kdk))
  BY <1>1, <1>3, ImportedKeepsOnce
<1> QED BY <1>1, <1>2, <1>4, RetrievedKeepsOnce, FailedKeepsOnce DEF DecryptedCk

LEMMA FailKeepsOnce ==
  ASSUME Once(decryptor), NEW ck \in ContentKeys, Fail(ck)
  PROVE  Once(decryptor')
<1> DEFINE s == Ended(decryptor, ck)
           key == decryptor.keys[ck]
<1>1. Once(s) /\ Once(Failed(s, ck))
  BY EndedKeepsOnce, FailedKeepsOnce
<1>2. CASE OnUnusable(ck)
  BY <1>1, <1>2 DEF OnUnusable
<1>3. CASE OnDecryptorTimeout(ck)
  <2>1. /\ key.interest \in {"none", "ck", "kdk"} /\ key.tries \in 0 .. DecryptTries
    BY DEF Once, Decryptors, ContentKeyStates
  <2>2. decryptor' \in IF key.tries > 1 THEN Sent(s, ck, key.interest, key.tries - 1)
                       ELSE {Failed(s, ck)}
    BY <1>3 DEF OnDecryptorTimeout
  <2> HIDE DEF s, key
  <2>3. CASE key.tries > 1
    <3>1. key.tries - 1 \in 0 .. DecryptTries
      BY <2>1, <2>3, DecryptorAssumption
    <3> QED BY <1>1, <2>1, <2>2, <2>3, <3>1, SentKeepsOnce
  <2>4. CASE ~(key.tries > 1)
    BY <1>1, <2>2, <2>4
  <2> QED BY <2>3, <2>4
<1> QED BY <1>2, <1>3 DEF Fail

LEMMA InitialOnce ==
  ASSUME DecryptorInit
  PROVE  Once(decryptor)
<1>1. /\ decryptor.keys = [ck \in ContentKeys |-> NoKey] /\ decryptor.called = {}
      /\ decryptor.results = [d \in Decrypts |-> [success |-> 0, error |-> 0]]
  BY DEF DecryptorInit
<1>2. /\ NoKey \in ContentKeyStates /\ NoKey.owner = {} /\ NoKey.pendingDecrypts = <<>>
  <2>1. <<>> \in Seq(Decrypts) /\ 0 \in 0 .. DecryptTries
    BY DecryptorAssumption
  <2> QED BY <2>1 DEF NoKey, ContentKeyStates
<1>3. [success |-> 0, error |-> 0] \in Results
  BY DEF Results
<1>4. decryptor \in Decryptors
  BY <1>2, <1>3 DEF DecryptorInit, Decryptors
<1>5. \A ck \in ContentKeys : Waiting(decryptor, ck) = {} /\ decryptor.keys[ck].owner = {}
  BY <1>1, <1>2 DEF Waiting, ToSet
<1>6. UnderOwnCk(decryptor) /\ FirstFetches(decryptor)
  BY <1>5 DEF UnderOwnCk, FirstFetches
<1>7. ToldOnce(decryptor)
  BY <1>1 DEF ToldOnce
<1> QED BY <1>4, <1>6, <1>7 DEF Once
-----------------------------------------------------------------------------
(* The encryptor of the composition does what it does alone.               *)
LEMMA EncryptorOfSpec == Spec => EncryptorSpec
<1>1. Init => EncryptorInit
  BY DEF Init
<1>2. [Next]_vars => [EncryptorNext]_encryptor
  BY DEF Next, vars, AddMember, CallDecrypt, ServeKdk, ServeCk
<1> QED BY <1>1, <1>2, PTL DEF Spec, EncryptorSpec

(* "Scheduling retry after all timeouts" (encryptor-v2.cpp, line 243):     *)
(* whatever callbacks come in whatever order, an encryptor without KEK has *)
(* an Interest for it, or a delayed call that leads to one.                *)
THEOREM RetrievalNeverStops == Spec => []RetrievalGoesOn
<1>1. EncryptorInv => RetrievalGoesOn
  BY DEF EncryptorInv, After, GoesOn, RetrievalGoesOn
<1> QED
  BY <1>1, EncryptorOfSpec, InitialGoesOn, StepGoesOn, PTL DEF EncryptorSpec

(* "Create a new Content Key (CK) and publish the corresponding CK Data    *)
(* packet" (encryptor-v2.hpp, line 108): as soon as there is a KEK that    *)
(* encrypts, and after every regenerateCk, the present CK is published.    *)
THEOREM PresentCkIsPublished == Spec => []CurrentIsPublished
<1>1. EncryptorInv => CurrentIsPublished
  BY DEF EncryptorInv, After, IsPublished, CurrentIsPublished
<1> QED
  BY <1>1, EncryptorOfSpec, InitialGoesOn, StepGoesOn, PTL DEF EncryptorSpec

(* "onSuccess On successful decryption, this calls onSuccess(plainData)    *)
(* ... onError On failure, this calls onError" (decryptor-v2.hpp, lines    *)
(* 72-81): whatever is retrieved, lost or unusable, a call of decrypt is   *)
(* answered once at most, or is the one that fetches its CK.               *)
THEOREM DecryptsAreToldOnce == Spec => []EachDecryptOnce
<1>1. Init => Once(decryptor)
  BY InitialOnce DEF Init
<1>2. Once(decryptor) /\ [Next]_vars => Once(decryptor)'
  <2> SUFFICES ASSUME Once(decryptor), [Next]_vars PROVE Once(decryptor')
    OBVIOUS
  <2>1. CASE decryptor' = decryptor
    BY <2>1
  <2>2. ASSUME NEW d \in Decrypts, CallDecrypt(d) PROVE Once(decryptor')
    BY <2>2, DecryptKeepsOnce DEF CallDecrypt
  <2>3. ASSUME NEW ck \in ContentKeys, ServeKdk(ck) PROVE Once(decryptor')
    BY <2>3, OnKdkDataKeepsOnce DEF ServeKdk
  <2>4. ASSUME NEW ck \in ContentKeys, Fail(ck) PROVE Once(decryptor')
    BY <2>4, FailKeepsOnce
  <2>5. ASSUME NEW ck \in ContentKeys, NEW kek \in Keks, ServeCk(ck, kek)
        PROVE  Once(decryptor')
    BY <2>5, OnCkDataKeepsOnce DEF ServeCk
  <2> QED BY <2>1, <2>2, <2>3, <2>4, <2>5 DEF Next, AddMember, vars
<1>3. Once(decryptor) => EachDecryptOnce
  <2> SUFFICES ASSUME Once(decryptor), NEW d \in Decrypts
               PROVE  LET r == decryptor.results[d] IN
                      r.success <= 1 /\ (d \notin Owners => r.success + r.error <= 1)
    BY DEF EachDecryptOnce
  <2>1. d \notin Owners => ~Fetches(decryptor, d)
    BY CkOfDecrypt DEF Owners, Fetches
  <2> QED BY <2>1 DEF Once, ToldOnce
<1> QED BY <1>1, <1>2, <1>3, PTL DEF Spec
=============================================================================
