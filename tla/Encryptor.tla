----------------------------- MODULE Encryptor ------------------------------
(***************************************************************************)
(* EncryptorV2 (src/src/encrypt/encryptor-v2.cpp): it retrieves the key    *)
(* encryption key (KEK) with retries, and publishes each content key (CK)  *)
(* encrypted with it.  The Face is connected: it ends each Interest with a *)
(* Data, a timeout or a Nack, also one that expressInterest has thrown for *)
(* after its entry was added to the table; a Data can come inside          *)
(* expressInterest when Interests are looped back.  An action is what runs *)
(* up to a callback of the application, onError_, or up to the return to   *)
(* the event loop.                                                         *)
(***************************************************************************)
EXTENDS Integers

CONSTANTS
  MaxCks,      \* bound: the content keys, 1 and those of regenerateCk
  NRetries,    \* N_RETRIES
  Keks,        \* the Data that can answer the Interest for the KEK
  Good,        \* those that can be decoded and encrypt
  NoKek        \* no KEK was retrieved

ASSUME EncryptorAssumption ==
  MaxCks \in Nat \ {0} /\ NRetries \in Nat \ {0} /\ Good \subseteq Keks /\ NoKek \notin Keks

VARIABLE encryptor

Cks == 1 .. MaxCks
Tries == 1 .. NRetries
NoCalls == [n \in Tries |-> 0]

(* ck                 the number of the content key in ckName_             *)
(* kek                kekData_                                             *)
(* isInProgress       isKekRetrievalInProgress_                            *)
(* pendingInterestId  the tries left of the Interest that                  *)
(*                    kekPendingInterestId_ is of, 0 for none              *)
(* interests          how many Interests for the KEK are pending with each *)
(*                    number of tries left                                 *)
(* refetches          the delayed calls of fetchKekAndPublishCkData        *)
(* retries            the number of delayed calls of retryFetchingKek      *)
(* calls              how many calls of the application are on the stack:  *)
(*                    the constructor's or those of onError_               *)
(* gaveUp             whether the callback of a last try is below them,    *)
(*                    which goes on after onError_ returns                 *)
(* storage            storage_, each CK Data with its KEK                  *)
NewEncryptor ==
  [ck |-> 0, kek |-> NoKek, isInProgress |-> FALSE, pendingInterestId |-> 0,
   interests |-> NoCalls, refetches |-> NoCalls, retries |-> 0,
   calls |-> 1, gaveUp |-> FALSE, storage |-> {}]
-----------------------------------------------------------------------------
(* The onError of retryFetchingKek, which calls onError_.  The mutant      *)
(* leaves the retrieval in progress.                                       *)
CallsOnError(e) == [e EXCEPT !.calls = @ + 1]
OnErrorStuck(e) == CallsOnError(e)
OnError(e) == CallsOnError([e EXCEPT !.isInProgress = FALSE])

(* makeAndPublishCkData.                                                   *)
Published(e) == [e EXCEPT !.storage = @ \cup {<<e.ck, e.kek>>}]

(* onData of an Interest for the KEK, and onReady.                         *)
KekRetrieved(e, kek) ==
  LET next == [e EXCEPT !.pendingInterestId = 0, !.kek = kek] IN
  IF kek \in Good THEN [Published(next) EXCEPT !.isInProgress = FALSE] ELSE OnError(next)

(* fetchKekAndPublishCkData: the Interest is sent, or is answered inside   *)
(* expressInterest, or expressInterest throws.                             *)
Expressed(e, n) == [e EXCEPT !.interests[n] = @ + 1]

Fetched(e, n) ==
  IF e.pendingInterestId > 0 THEN {OnError(e)}
  ELSE {[Expressed(e, n) EXCEPT !.pendingInterestId = n], OnError(Expressed(e, n))}
       \cup {[KekRetrieved(e, kek) EXCEPT !.pendingInterestId = n] : kek \in Keks}

RetriedFetching(e) ==
  IF e.isInProgress THEN {e} ELSE Fetched([e EXCEPT !.isInProgress = TRUE], NRetries)

(* regenerateCk.  The mutant publishes only with the first KEK.            *)
RegeneratedFirst(e) ==
  LET next == [e EXCEPT !.ck = @ + 1] IN
  IF e.kek = NoKek THEN RetriedFetching(next) ELSE {next}
Regenerated(e) ==
  LET next == [e EXCEPT !.ck = @ + 1] IN
  IF e.kek = NoKek THEN RetriedFetching(next)
  ELSE IF e.kek \in Good THEN {Published(next)} ELSE {CallsOnError(next)}
-----------------------------------------------------------------------------
(* The constructor, which the application has called.                      *)
EncryptorInit == encryptor \in Regenerated(NewEncryptor)

Idle == encryptor.calls = 0 /\ ~encryptor.gaveUp

RegenerateCk ==
  /\ Idle \/ encryptor.calls > 0
  /\ encryptor.ck < MaxCks
  /\ encryptor' \in Regenerated(encryptor)

(* onError_ or the constructor returns.                                    *)
Return ==
  /\ encryptor.calls > 0
  /\ encryptor' = [encryptor EXCEPT !.calls = @ - 1]

(* What follows onError_ after all the tries: retryFetchingKek is called   *)
(* later.  The mutant forgets it.                                          *)
NotScheduled(e) == [e EXCEPT !.gaveUp = FALSE]
Scheduled(e) == [e EXCEPT !.gaveUp = FALSE, !.retries = @ + 1]

ScheduleRetry ==
  /\ encryptor.calls = 0 /\ encryptor.gaveUp
  /\ encryptor' = Scheduled(encryptor)

(* The callbacks of an Interest with n tries left.                         *)
Answered(e, n) == [e EXCEPT !.interests[n] = @ - 1, !.pendingInterestId = 0]

OnKek(n, kek) ==
  /\ Idle /\ encryptor.interests[n] > 0
  /\ encryptor' = KekRetrieved(Answered(encryptor, n), kek)

(* The last try has failed.                                                *)
GaveUp(e) == OnError([e EXCEPT !.gaveUp = TRUE])

OnTimeout(n) ==
  /\ Idle /\ encryptor.interests[n] > 0
  /\ LET next == Answered(encryptor, n) IN
     encryptor' \in IF n > 1 THEN Fetched(next, n - 1) ELSE {GaveUp(next)}

OnNetworkNack(n) ==
  /\ Idle /\ encryptor.interests[n] > 0
  /\ LET next == Answered(encryptor, n) IN
     encryptor' = IF n > 1 THEN [next EXCEPT !.refetches[n - 1] = @ + 1] ELSE GaveUp(next)

(* The delayed calls.                                                      *)
Refetch(n) ==
  /\ Idle /\ encryptor.refetches[n] > 0
  /\ encryptor' \in Fetched([encryptor EXCEPT !.refetches[n] = @ - 1], n)

RetryFetchingKek ==
  /\ Idle /\ encryptor.retries > 0
  /\ encryptor' \in RetriedFetching([encryptor EXCEPT !.retries = @ - 1])

(* What the network and the delayed calls do of themselves.                *)
Continue ==
  \/ Return \/ ScheduleRetry \/ RetryFetchingKek
  \/ \E n \in Tries :
       \/ OnTimeout(n) \/ OnNetworkNack(n) \/ Refetch(n)
       \/ \E kek \in Keks : OnKek(n, kek)

EncryptorNext == RegenerateCk \/ Continue

EncryptorSpec == EncryptorInit /\ [][EncryptorNext]_encryptor
-----------------------------------------------------------------------------
EncryptorTypeOK ==
  /\ encryptor.ck \in Cks /\ encryptor.kek \in Keks \cup {NoKek}
  /\ encryptor.isInProgress \in BOOLEAN /\ encryptor.pendingInterestId \in 0 .. NRetries
  /\ encryptor.interests \in [Tries -> Nat] /\ encryptor.refetches \in [Tries -> Nat]
  /\ encryptor.retries \in Nat
  /\ encryptor.calls \in Nat /\ encryptor.gaveUp \in BOOLEAN
  /\ encryptor.storage \subseteq Cks \X Keks

IsCalled(calls) == \E n \in Tries : calls[n] > 0
IsUnderWay(e) == IsCalled(e.interests) \/ IsCalled(e.refetches)

(* "Scheduling retry after all timeouts" (encryptor-v2.cpp, line 243): as  *)
(* long as there is no KEK, something is going to ask for it, through      *)
(* errors, exceptions, several retrievals at a time and calls of           *)
(* regenerateCk from onError_.                                             *)
RetrievalGoesOn ==
  encryptor.kek = NoKek =>
    IsUnderWay(encryptor) \/ encryptor.retries > 0 \/ encryptor.gaveUp

(* "Create a new Content Key (CK) and publish the corresponding CK Data    *)
(* packet" (encryptor-v2.hpp, line 108): with a KEK that encrypts, the      *)
(* present CK is published, whichever of them came first.                  *)
CurrentIsPublished ==
  encryptor.kek \in Good => <<encryptor.ck, encryptor.kek>> \in encryptor.storage
=============================================================================
