----------------------------- MODULE Validator ------------------------------
(***************************************************************************)
(* The Validator (src/src/security/v2/validator.cpp) with its certificate  *)
(* storage, the certificate fetcher over a Face, and the command Interest  *)
(* policy around a policy that designates the certificate of the signer.   *)
(* One thread runs everything; the application may validate again from     *)
(* inside a callback.  The names of packets and certificates, their keys   *)
(* and the policy are parameters.                                          *)
(***************************************************************************)
EXTENDS Integers, Sequences, FiniteSets

CONSTANTS
  MaxValidations,      \* bound: the calls of validate
  Packets,             \* the Data and Interests to validate
  Certificates,
  Requests,            \* the names the policy can request a certificate by
  Loaded,              \* bound: the certificates that are loaded as anchors
  Bypass, Deny,        \* the policy lets a packet pass, or fails it
  Policy,              \* what the policy says of each packet and certificate
  Answers,             \* the certificates under each request, in name order
  SignedBy,            \* the key that signed each packet and certificate
  KeyOf,               \* the key in each certificate
  NotBefore, NotAfter, \* the validity period of each certificate
  Commands,            \* the packets that are command Interests
  Timestamp,           \* the time stamp of each command
  MaxDepth,            \* maxDepth_
  Retries,             \* nRetriesLeft_ of a new CertificateRequest
  VerifiedLifetime,    \* 1 hour
  UnverifiedLifetime,  \* 5 minutes
  GracePeriod, MaxRecords, RecordLifetime, StopAndWait,
  MaxTime              \* bound: the last time of the clock

ASSUME ValidatorAssumption ==
  /\ Policy \in [Packets \cup Certificates -> Requests \cup {Bypass, Deny}]
  /\ Bypass # Deny /\ Answers \in [Requests -> Seq(Certificates)]
  /\ NotBefore \in [Certificates -> Nat] /\ NotAfter \in [Certificates -> Nat]
  /\ Loaded \subseteq Certificates /\ Commands \subseteq Packets /\ Timestamp \in [Commands -> Nat]
  /\ MaxValidations \in Nat /\ MaxDepth \in Nat /\ Retries \in Nat /\ MaxTime \in Nat
  /\ VerifiedLifetime \in Nat \ {0} /\ UnverifiedLifetime \in Nat \ {0}

VARIABLES
  now,         \* ndn_getNowMilliseconds()
  validation,  \* the ValidationState of each call
  running,     \* the validations on the call stack, the innermost first
  anchors,     \* trustAnchors_
  wereAnchors, \* the certificates that were a trust anchor at some time
  verified,    \* verifiedCertificateCache_
  unverified,  \* unverifiedCertificateCache_
  container,   \* the records of the command Interest policy
  accepted     \* of each key the command that was accepted last, and when

vars == <<now, validation, running, anchors, wereAnchors, verified, unverified,
          container, accepted>>
storage == <<anchors, wereAnchors, verified, unverified>>

Validations == 1 .. MaxValidations
New == [stage |-> "new", packet |-> Bypass, records |-> FALSE, chain |-> <<>>,
        seen |-> {}, request |-> Bypass, left |-> 0]

(* The command Interest policy, whose commands in progress are the         *)
(* validations to which it has added a success callback.  The name of the  *)
(* key is the name that the certificate is requested by.                   *)
Key(p) == Policy[p]
Recording == {v \in Validations :
  validation[v].records /\ validation[v].stage \notin {"accepted", "rejected"}}

CommandPolicy ==
  INSTANCE CommandInterest WITH
    Keys <- {Key(p) : p \in Commands},
    Timestamps <- {Timestamp[p] : p \in Commands},
    command <- [v \in Recording |-> [key |-> Key(validation[v].packet),
                                     timestamp |-> Timestamp[validation[v].packet]]]
-----------------------------------------------------------------------------
(* CertificateCacheV2: when each certificate is to be removed, and when    *)
(* the next one is.  The mutant does not make the next one sooner.         *)
Forever == MaxTime + VerifiedLifetime + UnverifiedLifetime
EmptyCache == [removal |-> [c \in {} |-> 0], nextRefresh |-> Forever]
Range(s) == {s[k] : k \in DOMAIN s}
Least(S) == CHOOSE x \in S : \A y \in S : x <= y

KeepsRefresh(cache, times) == cache.nextRefresh
SoonerRefresh(cache, times) == Least({cache.nextRefresh} \cup times)

Insert(cache, certificates, lifetime) ==
  LET kept == {c \in certificates : NotAfter[c] >= now}
      Time(c) == Least({NotAfter[c], now + lifetime}) IN
  [removal |-> [c \in DOMAIN cache.removal \cup kept |->
                  IF c \in kept THEN Time(c) ELSE cache.removal[c]],
   nextRefresh |-> SoonerRefresh(cache, {Time(c) : c \in kept})]

Refreshed(cache) ==
  LET kept == {c \in DOMAIN cache.removal : cache.removal[c] > now} IN
  IF now < cache.nextRefresh THEN cache
  ELSE [removal |-> [c \in kept |-> cache.removal[c]],
        nextRefresh |-> Least({cache.removal[c] : c \in kept} \cup {Forever})]

(* find: the first certificate under the name, as a set of at most one.    *)
First(r, certificates) ==
  LET under == {k \in DOMAIN Answers[r] : Answers[r][k] \in certificates} IN
  {Answers[r][k] : k \in {k \in under : \A j \in under : k <= j}}

FindTrusted(r) ==
  LET anchor == First(r, anchors) IN
  IF anchor # {} THEN anchor ELSE First(r, DOMAIN Refreshed(verified).removal)

(* An anchor is found before the cache is looked at.                       *)
LookedUp(r) == IF First(r, anchors) # {} THEN verified ELSE Refreshed(verified)
-----------------------------------------------------------------------------
(* What follows one after the other in a call: the validation on top of    *)
(* the call stack continues, and only from a callback, or when nothing     *)
(* runs, does the application call.                                        *)
Top(v, stages) == running # <<>> /\ Head(running) = v /\ validation[v].stage \in stages
Idle == running = <<>>
ApplicationRuns == Idle \/ Top(Head(running), {"accepting", "rejecting"})
IsNext(v) == ApplicationRuns /\ {w \in Validations : validation[w].stage = "new"} = v .. MaxValidations

Continue(v, state) == validation' = [validation EXCEPT ![v] = state]
Rejected(state) == [state EXCEPT !.stage = "rejecting", !.chain = <<>>]

(* checkPolicy, and continueValidate or continueValidateCertificate.       *)
CheckPolicy(state, x, bypassed) ==
  CASE Policy[x] = Bypass -> bypassed
    [] Policy[x] = Deny -> Rejected(state)
    [] OTHER -> [state EXCEPT !.stage = "requesting", !.request = Policy[x],
                              !.left = Retries]

Accepted(state) == [state EXCEPT !.stage = "accepting"]

(* validateCertificate: the certificate joins the chain at the front.      *)
IsValid(c) == NotBefore[c] <= now /\ now <= NotAfter[c]

ValidateCertificate(state, c) ==
  IF ~IsValid(c) THEN Rejected(state)
  ELSE LET longer == [state EXCEPT !.chain = <<c>> \o @] IN
       CheckPolicy(longer, c, Rejected(longer))

(* verifyCertificateChain, from a trusted certificate: the chain up to the *)
(* first bad signature.  The mutant verifies none but the packet.          *)
Issuer(chain, k, trusted) == IF k = 1 THEN trusted ELSE chain[k - 1]
IsSignedBy(x, c) == SignedBy[x] = KeyOf[c]
VerifiesAll(chain, k, trusted) == TRUE
Verifies(chain, k, trusted) ==
  \A j \in 1 .. k : IsSignedBy(chain[j], Issuer(chain, j, trusted))

VerifiedLength(chain, trusted) ==
  CHOOSE n \in 0 .. Len(chain) :
    /\ Verifies(chain, n, trusted)
    /\ n = Len(chain) \/ ~Verifies(chain, n + 1, trusted)

Verify(state, trusted) ==
  LET n == VerifiedLength(state.chain, trusted)
      isSigned == n = Len(state.chain)
                  /\ IsSignedBy(state.packet, Issuer(state.chain, n + 1, trusted)) IN
  [state EXCEPT !.chain = SubSeq(@, 1, n),
                !.stage = IF isSigned THEN "accepting" ELSE "rejecting"]
-----------------------------------------------------------------------------
Init ==
  /\ now = 0
  /\ validation = [v \in Validations |-> New]
  /\ running = <<>>
  /\ anchors = {} /\ wereAnchors = {}
  /\ verified = EmptyCache /\ unverified = EmptyCache
  /\ container = <<>> /\ accepted = [key \in {Key(p) : p \in Commands} |-> CommandPolicy!Never]

Begin(p) == [New EXCEPT !.packet = p]

ValidateData(v, p) ==
  /\ p \notin Commands /\ IsNext(v)
  /\ Continue(v, CheckPolicy(Begin(p), p, Accepted(Begin(p))))
  /\ running' = <<v>> \o running
  /\ UNCHANGED <<now, storage, container, accepted>>

(* The time stamp is checked before the inner policy.                      *)
ValidateCommand(v, p) ==
  /\ p \in Commands /\ IsNext(v)
  /\ CommandPolicy!MaySend(Key(p))
  /\ container' = CommandPolicy!CleanUp(container, now)
  /\ Continue(v,
       IF CommandPolicy!MayProceed(container', now, Key(p), Timestamp[p])
       THEN LET begun == [Begin(p) EXCEPT !.records = TRUE] IN
            CheckPolicy(begun, p, Accepted(begun))
       ELSE Rejected(Begin(p)))
  /\ running' = <<v>> \o running
  /\ UNCHANGED <<now, storage, accepted>>

(* requestCertificate, up to the result of the trusted certificates or of  *)
(* the fetch: from the unverified cache, or with an Interest.              *)
TooDeep(state) == Len(state.chain) >= MaxDepth
IsLoop(state) == state.request \in state.seen

Fetch(v, state) ==
  LET found == First(state.request, DOMAIN Refreshed(unverified).removal) IN
  /\ unverified' = Refreshed(unverified)
  /\ IF found = {}
     THEN Continue(v, [state EXCEPT !.stage = "fetching"]) /\ running' = Tail(running)
     ELSE /\ \E c \in found : Continue(v, ValidateCertificate(state, c))
          /\ UNCHANGED running

RequestCertificate(v) ==
  /\ Top(v, {"requesting"})
  /\ LET state == validation[v]
         next == [state EXCEPT !.seen = @ \cup {state.request}]
         trusted == FindTrusted(state.request) IN
     IF TooDeep(state) \/ IsLoop(state)
     THEN Continue(v, Rejected(state)) /\ UNCHANGED <<running, verified, unverified>>
     ELSE /\ verified' = LookedUp(state.request)
          /\ IF trusted # {}
             THEN /\ \E c \in trusted : Continue(v, Verify(next, c))
                  /\ UNCHANGED <<running, unverified>>
             ELSE Fetch(v, next)
  /\ UNCHANGED <<now, anchors, wereAnchors, container, accepted>>

(* The answer of the network, whatever it is: onData with a certificate,   *)
(* or with one that cannot be decoded.                                     *)
Awaits(v) == Idle /\ validation[v].stage = "fetching"

OnData(v) ==
  /\ Awaits(v)
  /\ \E c \in Range(Answers[validation[v].request]) :
       /\ unverified' = Insert(unverified, {c}, UnverifiedLifetime)
       /\ Continue(v, ValidateCertificate(validation[v], c))
  /\ running' = <<v>>
  /\ UNCHANGED <<now, anchors, wereAnchors, verified, container, accepted>>

OnMalformed(v) ==
  /\ Awaits(v)
  /\ Continue(v, Rejected(validation[v]))
  /\ running' = <<v>>
  /\ UNCHANGED <<now, storage, container, accepted>>

(* onTimeout and onNetworkNack: fetch again, where a certificate found in  *)
(* the unverified cache is inserted there again.  The mutant counts with   *)
(* an unsigned number.                                                     *)
OneRetryLessUnsigned(state) == [state EXCEPT !.left = (@ - 1) % 4]
OneRetryLess(state) == [state EXCEPT !.left = @ - 1]

OnTimeout(v) ==
  /\ Awaits(v)
  /\ LET state == OneRetryLess(validation[v])
         cache == Refreshed(unverified)
         found == First(state.request, DOMAIN cache.removal) IN
     IF state.left < 0
     THEN Continue(v, Rejected(state)) /\ running' = <<v>> /\ UNCHANGED unverified
     ELSE IF found = {}
     THEN Continue(v, state) /\ unverified' = cache /\ UNCHANGED running
     ELSE /\ unverified' = Insert(cache, found, UnverifiedLifetime)
          /\ \E c \in found : Continue(v, ValidateCertificate(state, c))
          /\ running' = <<v>>
  /\ UNCHANGED <<now, anchors, wereAnchors, verified, container, accepted>>

(* The callback returns: a command that succeeded is recorded, and what    *)
(* was verified of the chain is cached.  The mutant also records a command *)
(* that failed.                                                            *)
IsChecked(state) == state.records
IsRecorded(state) == state.records /\ state.stage = "accepting"

Return(v) ==
  /\ Top(v, {"accepting", "rejecting"})
  /\ LET state == validation[v]
         succeeds == state.stage = "accepting"
         p == state.packet IN
     /\ Continue(v, [New EXCEPT !.packet = p,
                       !.stage = IF succeeds THEN "accepted" ELSE "rejected"])
     /\ container' = IF IsRecorded(state)
          THEN CommandPolicy!InsertNewRecord(container, Key(p), Timestamp[p], now)
          ELSE container
     /\ accepted' = IF state.records /\ succeeds
          THEN [accepted EXCEPT ![Key(p)] = [timestamp |-> Timestamp[p], at |-> now]]
          ELSE accepted
     /\ verified' = Insert(verified, Range(state.chain), VerifiedLifetime)
  /\ running' = Tail(running)
  /\ UNCHANGED <<now, anchors, wereAnchors, unverified>>

(* What the application calls on the storage.                              *)
LoadAnchor(c) ==
  /\ ApplicationRuns
  /\ anchors' = anchors \cup {c} /\ wereAnchors' = wereAnchors \cup {c}
  /\ UNCHANGED <<now, validation, running, verified, unverified, container, accepted>>

ResetAnchors ==
  /\ ApplicationRuns /\ anchors' = {}
  /\ UNCHANGED <<now, validation, running, wereAnchors, verified, unverified,
                 container, accepted>>

ResetVerifiedCertificates ==
  /\ ApplicationRuns
  /\ verified' = EmptyCache
  /\ UNCHANGED <<now, validation, running, anchors, wereAnchors, unverified,
                 container, accepted>>

Tick ==
  /\ now < MaxTime /\ now' = now + 1
  /\ UNCHANGED <<validation, running, storage, container, accepted>>

Next ==
  \/ \E v \in Validations :
       \/ \E p \in Packets : ValidateData(v, p) \/ ValidateCommand(v, p)
       \/ RequestCertificate(v) \/ Return(v)
       \/ OnData(v) \/ OnMalformed(v) \/ OnTimeout(v)
  \/ \E c \in Loaded : LoadAnchor(c)
  \/ ResetAnchors \/ ResetVerifiedCertificates \/ Tick

Spec == Init /\ [][Next]_vars

(* The calls go on and callbacks return.  The Face ends each Interest with *)
(* a Data, a timeout or a Nack.                                            *)
FairSpec ==
  /\ Spec
  /\ \A v \in Validations :
       /\ WF_vars(RequestCertificate(v)) /\ WF_vars(Return(v))
       /\ WF_vars(OnData(v) \/ OnMalformed(v) \/ OnTimeout(v))
-----------------------------------------------------------------------------
TypeOK ==
  /\ now \in 0 .. MaxTime
  /\ \A v \in Validations :
       /\ validation[v].stage \in {"new", "requesting", "fetching", "accepting",
                                   "rejecting", "accepted", "rejected"}
       /\ Range(validation[v].chain) \subseteq Certificates
       /\ Len(validation[v].chain) <= MaxDepth
       /\ validation[v].left \in -1 .. Retries
  /\ Range(running) \subseteq Validations
  /\ anchors \subseteq wereAnchors
  /\ DOMAIN verified.removal \cup DOMAIN unverified.removal \subseteq Certificates

(* Whom a certificate that was trusted in the set of them may have signed, *)
(* by the policy.                                                          *)
Vouches(T, x) ==
  Policy[x] \in Requests /\ \E c \in T \cap Range(Answers[Policy[x]]) : IsSignedBy(x, c)

IsClosed(T) ==
  wereAnchors \subseteq T /\ \A c \in Certificates : Vouches(T, c) => c \in T

(* A packet is accepted, and a certificate cached as verified, only when   *)
(* the policy and the signatures lead to it from a certificate that was a  *)
(* trust anchor, through whatever caches and validations the steps went:   *)
(* "verifyCertificateChain ... Verify signatures of certificates in the    *)
(* certificate chain" (validation-state.hpp, line 165).                    *)
AcceptedIsTrusted ==
  \A T \in SUBSET Certificates : IsClosed(T) =>
    /\ DOMAIN verified.removal \subseteq T
    /\ \A v \in Validations : validation[v].stage \in {"accepting", "accepted"} =>
         LET p == validation[v].packet IN Policy[p] = Bypass \/ Vouches(T, p)

(* A certificate which a lookup finds in a cache has not expired and has   *)
(* not been in the cache for longer than its lifetime, "a period of time   *)
(* (1 hour)" (certificate-storage.hpp, line 121), although a lookup        *)
(* removes nothing before nextRefreshTime_.  The cache of the verified     *)
(* certificates, whose finds are trusted without a look at their validity  *)
(* period, also holds none before that period begins; the unverified one   *)
(* may, because an insertion looks only at the end of the period.          *)
IsFresh(cache, lifetime) ==
  \A c \in DOMAIN Refreshed(cache).removal :
    now < cache.removal[c] /\ cache.removal[c] <= NotAfter[c]
    /\ cache.removal[c] <= now + lifetime

HasBegun(c) == NotBefore[c] <= now

FoundIsFresh ==
  /\ IsFresh(verified, VerifiedLifetime) /\ IsFresh(unverified, UnverifiedLifetime)
  /\ \A c \in DOMAIN Refreshed(verified).removal : HasBegun(c)

(* "On validation success, this calls successCallback ... On validation    *)
(* failure, this calls failureCallback" (validator.hpp, line 108): every   *)
(* validation has an outcome, after retries, loops and long chains.        *)
EveryValidationEnds ==
  \A v \in Validations :
    validation[v].stage # "new" ~> validation[v].stage \in {"accepted", "rejected"}

(* The command Interests are treated as the command Interest policy alone  *)
(* treats them, whenever their certificates come.                          *)
CommandsAreFollowed == CommandPolicy!CmdSpec

(* The accepted commands of a key are in the order of their time stamps    *)
(* (validation-policy-command-interest.hpp, line 81).                      *)
CommandsInOrder == CommandPolicy!CommandsInOrder
=============================================================================
