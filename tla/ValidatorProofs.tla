-------------------------- MODULE ValidatorProofs ---------------------------
(***************************************************************************)
(* What is accepted leads to a trust anchor, for any packets, certificates *)
(* and policy, any number of validations, and any caches and clock.        *)
(***************************************************************************)
EXTENDS Validator, TLAPS, WellFoundedInduction

Stages == {"new", "requesting", "fetching", "accepting", "rejecting", "accepted", "rejected"}

States ==
  [stage : Stages, packet : Packets \cup {Bypass}, records : BOOLEAN,
   chain : Seq(Certificates), seen : SUBSET (Requests \cup {Bypass}),
   request : Requests \cup {Bypass}, left : Int]

StatesOK == validation \in [Validations -> States]

(* What the k-th certificate of the chain is to vouch for.                 *)
Below(state, k) == IF k < Len(state.chain) THEN state.chain[k + 1] ELSE state.packet

(* Each certificate of a chain that is being collected was requested for   *)
(* the next one, and the last one for the packet.                          *)
IsLinked(state) ==
  \A k \in 1 .. Len(state.chain) :
    /\ Policy[Below(state, k)] \in Requests
    /\ state.chain[k] \in Range(Answers[Policy[Below(state, k)]])

IsCollected(state) ==
  state.stage \in {"requesting", "fetching"} =>
    /\ state.packet \in Packets /\ IsLinked(state)
    /\ state.request \in Requests /\ state.request = Policy[Below(state, 0)]

(* What of a validation may be relied on when T is trusted: the part of    *)
(* the chain that is to be cached, and an accepted packet.                 *)
IsGood(T, state) ==
  /\ state.stage \in {"accepting", "rejecting"} => Range(state.chain) \subseteq T
  /\ state.stage \in {"accepting", "accepted"} =>
       Policy[state.packet] = Bypass \/ Vouches(T, state.packet)

AllTrusted(T) ==
  /\ DOMAIN verified.removal \subseteq T
  /\ \A v \in Validations : IsGood(T, validation[v])

TrustInv ==
  /\ StatesOK /\ anchors \subseteq wereAnchors
  /\ \A v \in Validations : IsCollected(validation[v])
  /\ \A T \in SUBSET Certificates : IsClosed(T) => AllTrusted(T)
-----------------------------------------------------------------------------
LEMMA FirstOfPositions ==
  ASSUME NEW T, T \subseteq Nat, T # {}
  PROVE  \E x \in T : \A y \in T : x <= y
<1> DEFINE R == OpToRel(<, Nat)
<1>1. PICK x \in T : \A y \in T : <<y, x>> \notin R
  BY NatLessThanWellFounded, WFMin
<1>2. \A y \in T : ~(y < x)
  BY <1>1 DEF OpToRel
<1> QED
  BY <1>2

(* The caches: a lookup finds what was there, and an insertion adds what   *)
(* was inserted.                                                           *)
LEMMA CacheFacts ==
  ASSUME NEW cache, NEW certificates, NEW lifetime
  PROVE  /\ DOMAIN Refreshed(cache).removal \subseteq DOMAIN cache.removal
         /\ DOMAIN Insert(cache, certificates, lifetime).removal
              \subseteq DOMAIN cache.removal \cup certificates
         /\ DOMAIN EmptyCache.removal = {}
<1>1. DOMAIN Refreshed(cache).removal \subseteq DOMAIN cache.removal
  BY DEF Refreshed
<1>2. DOMAIN Insert(cache, certificates, lifetime).removal
        \subseteq DOMAIN cache.removal \cup certificates
  BY DEF Insert
<1> QED
  BY <1>1, <1>2 DEF EmptyCache

LEMMA FirstFacts ==
  ASSUME NEW r, NEW S
  PROVE  First(r, S) \subseteq S \cap Range(Answers[r])
BY DEF First, Range

(* Where the verification of a chain ends.                                 *)
LEMMA VerifiedPart ==
  ASSUME NEW chain \in Seq(Certificates), NEW trusted
  PROVE  /\ VerifiedLength(chain, trusted) \in 0 .. Len(chain)
         /\ \A k \in 1 .. VerifiedLength(chain, trusted) :
              IsSignedBy(chain[k], Issuer(chain, k, trusted))
<1> DEFINE B == {k \in 1 .. Len(chain) + 1 :
                   k <= Len(chain) => ~IsSignedBy(chain[k], Issuer(chain, k, trusted))}
           n == VerifiedLength(chain, trusted)
<1>1. Len(chain) \in Nat
  OBVIOUS
<1>2. Len(chain) + 1 \in B /\ B \subseteq Nat
  BY <1>1
<1>3. PICK m \in B : \A k \in B : m <= k
  BY <1>2, FirstOfPositions
<1>4. m \in 1 .. Len(chain) + 1 /\ m - 1 \in 0 .. Len(chain)
  BY <1>1, <1>3
<1>5. Verifies(chain, m - 1, trusted)
  <2> SUFFICES ASSUME NEW j \in 1 .. m - 1
               PROVE  IsSignedBy(chain[j], Issuer(chain, j, trusted))
    BY DEF Verifies
  <2>1. j \notin B
    BY <1>3, <1>4
  <2> QED
    BY <2>1, <1>1, <1>4
<1>6. m - 1 = Len(chain) \/ ~Verifies(chain, (m - 1) + 1, trusted)
  BY <1>1, <1>3, <1>4 DEF Verifies
<1>7. n \in 0 .. Len(chain) /\ Verifies(chain, n, trusted)
  BY <1>4, <1>5, <1>6 DEF VerifiedLength
<1> QED
  BY <1>7 DEF Verifies
-----------------------------------------------------------------------------
(* A validation whose next certificate is looked for, and one that may be  *)
(* relied on whatever is trusted.                                          *)
IsReady(state) ==
  /\ state \in States /\ state.packet \in Packets /\ IsLinked(state)
  /\ state.request \in Requests /\ state.request = Policy[Below(state, 0)]

IsFine(state) ==
  state \in States /\ IsCollected(state) /\ \A T \in SUBSET Certificates : IsGood(T, state)

LEMMA ReadyIsFine ==
  ASSUME NEW state, IsReady(state), NEW s \in States,
         s.stage \in {"requesting", "fetching"}, s.packet = state.packet,
         s.chain = state.chain, s.request = state.request
  PROVE  IsReady(s) /\ IsFine(s)
<1>1. IsReady(s)
  BY DEF IsReady, IsLinked, Below
<1>2. IsFine(s)
  BY <1>1 DEF IsFine, IsReady, IsCollected, IsGood
<1> QED
  BY <1>1, <1>2

LEMMA RejectedIsFine ==
  ASSUME NEW state \in States
  PROVE  IsFine(Rejected(state))
<1>1. /\ Rejected(state) \in States /\ Rejected(state).stage = "rejecting"
      /\ Rejected(state).chain = <<>>
  <2>1. <<>> \in Seq(Certificates)
    OBVIOUS
  <2> QED
    BY <2>1 DEF States, Stages, Rejected
<1> QED
  BY <1>1 DEF IsFine, IsCollected, IsGood, Range

LEMMA CheckPolicyIsFine ==
  ASSUME NEW state \in States, state.packet \in Packets, IsLinked(state),
         NEW x \in Packets \cup Certificates, x = Below(state, 0),
         NEW bypassed, IsFine(bypassed)
  PROVE  IsFine(CheckPolicy(state, x, bypassed))
<1>1. CASE Policy[x] = Bypass
  <2>1. CheckPolicy(state, x, bypassed) = bypassed
    BY <1>1, ValidatorAssumption DEF CheckPolicy
  <2> QED
    BY <2>1
<1>2. CASE Policy[x] = Deny /\ Policy[x] # Bypass
  <2>1. CheckPolicy(state, x, bypassed) = Rejected(state)
    BY <1>2 DEF CheckPolicy
  <2> QED
    BY <2>1, RejectedIsFine
<1>3. CASE Policy[x] # Bypass /\ Policy[x] # Deny
  <2> DEFINE s == [state EXCEPT !.stage = "requesting", !.request = Policy[x], !.left = Retries]
  <2>1. Policy[x] \in Requests /\ Retries \in Int
    BY <1>3, ValidatorAssumption
  <2>2. s \in States /\ s.packet = state.packet /\ s.chain = state.chain
        /\ s.request = Policy[x] /\ s.stage = "requesting"
    BY <2>1 DEF States, Stages
  <2>3. IsFine(s)
    BY <2>1, <2>2 DEF IsFine, IsCollected, IsGood, IsLinked, Below
  <2>4. CheckPolicy(state, x, bypassed) = s
    BY <1>3 DEF CheckPolicy
  <2> QED
    BY <2>3, <2>4
<1> QED
  BY <1>1, <1>2, <1>3

(* A certificate that was found under the name that was requested.         *)
LEMMA ValidateCertificateIsFine ==
  ASSUME NEW state, IsReady(state), NEW c \in Range(Answers[state.request])
  PROVE  IsFine(ValidateCertificate(state, c))
<1> DEFINE more == <<c>> \o state.chain
           longer == [state EXCEPT !.chain = more]
<1>1. c \in Certificates
  BY ValidatorAssumption DEF Range, IsReady
<1>2. state.chain \in Seq(Certificates) /\ state \in States
  BY DEF IsReady, States
<1>0. /\ more \in Seq(Certificates)
      /\ Len(more) = Len(state.chain) + 1 /\ more[1] = c
      /\ \A k \in 2 .. Len(more) : more[k] = state.chain[k - 1]
  BY <1>1, <1>2
<1>3. longer \in States /\ longer.chain = more /\ longer.packet = state.packet
  <2> HIDE DEF more
  <2> QED
    BY <1>2, <1>0 DEF States
<1> HIDE DEF more, longer
<1>4. /\ Len(longer.chain) = Len(state.chain) + 1 /\ longer.chain[1] = c
      /\ \A k \in 2 .. Len(longer.chain) : longer.chain[k] = state.chain[k - 1]
      /\ longer.chain \in Seq(Certificates)
  BY <1>0, <1>3
<1>5. Len(state.chain) \in Nat
  BY <1>2
<1>6. \A k \in 1 .. Len(longer.chain) : Below(longer, k) = Below(state, k - 1)
  BY <1>3, <1>4, <1>5 DEF Below
<1>7. IsLinked(longer)
  <2> SUFFICES ASSUME NEW k \in 1 .. Len(longer.chain)
               PROVE  /\ Policy[Below(longer, k)] \in Requests
                      /\ longer.chain[k] \in Range(Answers[Policy[Below(longer, k)]])
    BY DEF IsLinked
  <2>1. CASE k = 1
    BY <2>1, <1>4, <1>6 DEF IsReady
  <2>2. CASE k # 1
    <3>1. k - 1 \in 1 .. Len(state.chain) /\ longer.chain[k] = state.chain[k - 1]
          /\ Below(longer, k) = Below(state, k - 1)
      BY <2>2, <1>4, <1>5, <1>6, Len(longer.chain) \in Nat
    <3> QED
      BY <3>1 DEF IsReady, IsLinked
  <2> QED
    BY <2>1, <2>2
<1>8. Below(longer, 0) = c /\ longer.packet \in Packets
  BY <1>3, <1>4, <1>5 DEF Below, IsReady
<1>9. IsFine(Rejected(longer)) /\ IsFine(Rejected(state))
  BY <1>2, <1>3, RejectedIsFine
<1>10. IsFine(CheckPolicy(longer, c, Rejected(longer)))
  BY <1>1, <1>3, <1>7, <1>8, <1>9, CheckPolicyIsFine
<1> QED
  BY <1>9, <1>10 DEF ValidateCertificate, longer, more

LEMMA VerifyIsState ==
  ASSUME NEW state, IsReady(state), NEW trusted
  PROVE  LET n == VerifiedLength(state.chain, trusted)
             s == Verify(state, trusted) IN
         /\ s \in States /\ IsCollected(s)
         /\ s.packet = state.packet /\ s.chain = SubSeq(state.chain, 1, n)
         /\ s.stage \in {"accepting", "rejecting"}
         /\ s.stage = "accepting" => n = Len(state.chain)
              /\ IsSignedBy(state.packet, Issuer(state.chain, n + 1, trusted))
<1> DEFINE n == VerifiedLength(state.chain, trusted)
           s == Verify(state, trusted)
<1>1. state.chain \in Seq(Certificates) /\ Len(state.chain) \in Nat /\ state \in States
  BY DEF IsReady, States
<1>2. n \in 0 .. Len(state.chain)
  BY <1>1, VerifiedPart
<1>3. SubSeq(state.chain, 1, n) \in Seq(Certificates)
  BY <1>1, <1>2
<1>4. /\ s \in States /\ s.packet = state.packet /\ s.chain = SubSeq(state.chain, 1, n)
      /\ s.stage \in {"accepting", "rejecting"}
      /\ s.stage = "accepting" => n = Len(state.chain)
           /\ IsSignedBy(state.packet, Issuer(state.chain, n + 1, trusted))
  BY <1>1, <1>3 DEF Verify, States, Stages
<1> QED
  BY <1>4 DEF IsCollected

(* The verified part of a chain leads to the certificate it started from,  *)
(* the first certificate that would not be trusted having an issuer that   *)
(* is.                                                                     *)
LEMMA VerifyIsGood ==
  ASSUME NEW state, IsReady(state), NEW T \in SUBSET Certificates, IsClosed(T),
         NEW trusted \in T \cap Range(Answers[state.request])
  PROVE  /\ Verify(state, trusted) \in States /\ IsCollected(Verify(state, trusted))
         /\ IsGood(T, Verify(state, trusted))
<1> DEFINE chain == state.chain
           n == VerifiedLength(chain, trusted)
           s == Verify(state, trusted)
<1>1. chain \in Seq(Certificates) /\ Len(chain) \in Nat
  BY DEF IsReady, States
<1>2. n \in 0 .. Len(chain) /\ \A k \in 1 .. n : IsSignedBy(chain[k], Issuer(chain, k, trusted))
  BY <1>1, VerifiedPart
<1>3. \A k \in 1 .. Len(chain) + 1 :
        /\ Policy[Below(state, k - 1)] \in Requests
        /\ Issuer(chain, k, trusted) \in Range(Answers[Policy[Below(state, k - 1)]])
  <2> SUFFICES ASSUME NEW k \in 1 .. Len(chain) + 1
               PROVE  /\ Policy[Below(state, k - 1)] \in Requests
                      /\ Issuer(chain, k, trusted) \in Range(Answers[Policy[Below(state, k - 1)]])
    OBVIOUS
  <2>1. CASE k = 1
    BY <2>1 DEF Issuer, IsReady
  <2>2. CASE k # 1
    <3>1. k - 1 \in 1 .. Len(chain) /\ Issuer(chain, k, trusted) = chain[k - 1]
      BY <2>2, <1>1 DEF Issuer
    <3> QED
      BY <3>1 DEF IsReady, IsLinked
  <2> QED
    BY <2>1, <2>2
<1>4. ASSUME NEW k \in 1 .. Len(chain) + 1, Issuer(chain, k, trusted) \in T,
             IsSignedBy(Below(state, k - 1), Issuer(chain, k, trusted))
      PROVE  Vouches(T, Below(state, k - 1))
  BY <1>3, <1>4 DEF Vouches
<1>5. \A k \in 1 .. n : chain[k] \in T
  <2> DEFINE B == {k \in 1 .. n : chain[k] \notin T}
  <2> SUFFICES ASSUME B # {} PROVE FALSE
    OBVIOUS
  <2>1. B \subseteq Nat
    BY <1>1, <1>2
  <2>2. PICK m \in B : \A k \in B : m <= k
    BY <2>1, FirstOfPositions
  <2>3. m \in 1 .. n /\ m \in 1 .. Len(chain) /\ Below(state, m - 1) = chain[m]
    BY <2>2, <1>1, <1>2 DEF Below
  <2>4. Issuer(chain, m, trusted) \in T
    <3>1. CASE m = 1
      BY <3>1 DEF Issuer
    <3>2. CASE m # 1
      <4>1. m - 1 \in 1 .. n /\ m - 1 \notin B
        BY <3>2, <2>2, <2>3, <1>1, <1>2
      <4> QED
        BY <4>1, <3>2 DEF Issuer
    <3> QED
      BY <3>1, <3>2
  <2>5. Vouches(T, chain[m])
    BY <2>3, <2>4, <1>1, <1>2, <1>4
  <2>6. chain[m] \in Certificates
    BY <2>3, <1>1
  <2> QED
    BY <2>2, <2>5, <2>6 DEF IsClosed
<1>6. /\ s \in States /\ IsCollected(s)
      /\ s.packet = state.packet /\ s.chain = SubSeq(chain, 1, n)
      /\ s.stage \in {"accepting", "rejecting"}
      /\ s.stage = "accepting" => n = Len(chain)
           /\ IsSignedBy(state.packet, Issuer(chain, n + 1, trusted))
  BY VerifyIsState
<1>7. Range(s.chain) \subseteq T
  BY <1>1, <1>2, <1>5, <1>6 DEF Range
<1>8. ASSUME s.stage = "accepting"
      PROVE  Vouches(T, s.packet)
  <2>1. n = Len(chain) /\ Below(state, n) = state.packet
    BY <1>1, <1>6, <1>8 DEF Below
  <2>2. Issuer(chain, n + 1, trusted) \in T
    BY <2>1, <1>1, <1>5 DEF Issuer
  <2> QED
    BY <2>1, <2>2, <1>1, <1>4, <1>6, <1>8
<1> QED
  BY <1>6, <1>7, <1>8 DEF IsGood
-----------------------------------------------------------------------------
(* A step that changes one validation, and of the rest nothing but caches. *)
LEMMA ContinueKeepsTrust ==
  ASSUME TrustInv, NEW v \in Validations, NEW state, Continue(v, state),
         state \in States, IsCollected(state), UNCHANGED <<anchors, wereAnchors>>,
         \A T \in SUBSET Certificates : IsClosed(T) => IsGood(T, state),
         \A T \in SUBSET Certificates : IsClosed(T) => DOMAIN verified'.removal \subseteq T
  PROVE  TrustInv'
<1>1. /\ validation' \in [Validations -> States]
      /\ \A w \in Validations : validation'[w] = IF w = v THEN state ELSE validation[w]
  BY DEF Continue, TrustInv, StatesOK
<1>2. \A T \in SUBSET Certificates : IsClosed(T)' <=> IsClosed(T)
  BY DEF IsClosed, Vouches
<1>3. \A w \in Validations : IsCollected(validation'[w])
  BY <1>1 DEF TrustInv
<1>4. ASSUME NEW T \in SUBSET Certificates, IsClosed(T)'
      PROVE  AllTrusted(T)'
  <2>1. IsClosed(T)
    BY <1>2, <1>4
  <2>2. AllTrusted(T)
    BY <2>1 DEF TrustInv
  <2>3. \A w \in Validations : IsGood(T, validation'[w])
    BY <1>1, <2>1, <2>2 DEF AllTrusted
  <2> QED
    BY <2>1, <2>3 DEF AllTrusted, IsGood, Vouches
<1>5. (\A w \in Validations : IsCollected(validation[w]))'
  BY <1>3 DEF IsCollected, IsLinked, Below
<1> QED
  BY <1>1, <1>4, <1>5 DEF TrustInv, StatesOK

LEMMA FineStepKeepsTrust ==
  ASSUME TrustInv, NEW v \in Validations, NEW state, Continue(v, state), IsFine(state),
         UNCHANGED <<anchors, wereAnchors>>,
         verified' \in {verified, Refreshed(verified)}
  PROVE  TrustInv'
<1>1. \A T \in SUBSET Certificates : IsClosed(T) => DOMAIN verified'.removal \subseteq T
  BY CacheFacts DEF TrustInv, AllTrusted
<1> QED
  BY <1>1, ContinueKeepsTrust DEF IsFine

(* A step that changes no validation, adds no trusted certificate to the   *)
(* cache, and no less than what becomes an anchor.                         *)
LEMMA StorageStepKeepsTrust ==
  ASSUME TrustInv, validation' = validation, anchors' \subseteq wereAnchors',
         wereAnchors \subseteq wereAnchors',
         DOMAIN verified'.removal \subseteq DOMAIN verified.removal
  PROVE  TrustInv'
<1>1. \A T \in SUBSET Certificates : IsClosed(T)' => IsClosed(T)
  BY DEF IsClosed, Vouches
<1>2. ASSUME NEW T \in SUBSET Certificates, IsClosed(T)'
      PROVE  AllTrusted(T)'
  <2>1. AllTrusted(T)
    BY <1>1, <1>2 DEF TrustInv
  <2> QED
    BY <2>1 DEF AllTrusted, IsGood, Vouches
<1> QED
  BY <1>2 DEF TrustInv, StatesOK, IsCollected, IsLinked, Below

(* The beginning of a validation: a packet that the policy lets pass is    *)
(* accepted at once.                                                       *)
LEMMA BeginIsFine ==
  ASSUME NEW state \in States, state.packet \in Packets, state.chain = <<>>
  PROVE  IsFine(CheckPolicy(state, state.packet, Accepted(state))) /\ IsFine(Rejected(state))
<1> DEFINE p == state.packet
<1>1. Below(state, 0) = p /\ IsLinked(state)
  BY DEF Below, IsLinked
<1>2. IsFine(Rejected(state))
  BY RejectedIsFine
<1>3. CASE Policy[p] = Bypass
  <2>1. /\ Accepted(state) \in States /\ Accepted(state).packet = p
        /\ Accepted(state).chain = <<>> /\ Accepted(state).stage = "accepting"
    BY DEF Accepted, States, Stages
  <2>2. IsFine(Accepted(state))
    BY <2>1, <1>3 DEF IsFine, IsCollected, IsGood, Range
  <2> QED
    BY <2>2, <1>1, <1>2, CheckPolicyIsFine
<1>4. CASE Policy[p] # Bypass
  <2>1. CheckPolicy(state, p, Accepted(state)) = CheckPolicy(state, p, Rejected(state))
    <3>1. CASE Policy[p] = Deny
      BY <3>1, <1>4 DEF CheckPolicy
    <3>2. CASE Policy[p] # Deny
      BY <3>2, <1>4 DEF CheckPolicy
    <3> QED
      BY <3>1, <3>2
  <2>2. IsFine(CheckPolicy(state, p, Rejected(state)))
    BY <1>1, <1>2, CheckPolicyIsFine
  <2> QED
    BY <2>1, <2>2, <1>2
<1> QED
  BY <1>2, <1>3, <1>4
-----------------------------------------------------------------------------
LEMMA NewIsState ==
  New \in States /\ New.stage = "new" /\ New.chain = <<>>
<1>1. <<>> \in Seq(Certificates)
  OBVIOUS
<1> QED
  BY <1>1 DEF New, States, Stages

LEMMA TrustAtStart ==
  ASSUME Init
  PROVE  TrustInv
<1>1. New \in States /\ New.stage = "new"
  BY NewIsState
<1>2. StatesOK /\ \A v \in Validations : validation[v] = New
  BY <1>1 DEF Init, StatesOK
<1>3. DOMAIN verified.removal = {} /\ anchors \subseteq wereAnchors
  BY CacheFacts DEF Init
<1>4. \A v \in Validations :
        IsCollected(validation[v]) /\ \A T \in SUBSET Certificates : IsGood(T, validation[v])
  BY <1>1, <1>2 DEF IsCollected, IsGood
<1> QED
  BY <1>2, <1>3, <1>4 DEF TrustInv, AllTrusted

(* What is known of a validation that looks for a certificate.             *)
LEMMA LookingIsReady ==
  ASSUME TrustInv, NEW v \in Validations, validation[v].stage \in {"requesting", "fetching"}
  PROVE  IsReady(validation[v])
BY DEF TrustInv, StatesOK, IsCollected, IsReady

LEMMA ValidateKeepsTrust ==
  ASSUME TrustInv, NEW v \in Validations, NEW p \in Packets,
         ValidateData(v, p) \/ ValidateCommand(v, p)
  PROVE  TrustInv'
<1> DEFINE begun == [Begin(p) EXCEPT !.records = TRUE]
<1>1. /\ Begin(p) \in States /\ Begin(p).packet = p /\ Begin(p).chain = <<>>
      /\ begun \in States /\ begun.packet = p /\ begun.chain = <<>>
  <2>1. Begin(p) \in States /\ Begin(p).packet = p /\ Begin(p).chain = <<>>
    BY NewIsState DEF Begin, States
  <2> QED
    BY <2>1 DEF States
<1>2. /\ IsFine(CheckPolicy(Begin(p), p, Accepted(Begin(p))))
      /\ IsFine(CheckPolicy(begun, p, Accepted(begun))) /\ IsFine(Rejected(Begin(p)))
  <2> HIDE DEF begun
  <2> QED
    BY <1>1, BeginIsFine
<1>3. PICK state : Continue(v, state) /\ IsFine(state)
  BY <1>2 DEF ValidateData, ValidateCommand
<1>4. verified' = verified /\ UNCHANGED <<anchors, wereAnchors>>
  BY DEF ValidateData, ValidateCommand, storage
<1> QED
  BY <1>3, <1>4, FineStepKeepsTrust

LEMMA RequestKeepsTrust ==
  ASSUME TrustInv, NEW v \in Validations, RequestCertificate(v)
  PROVE  TrustInv'
<1> DEFINE state == validation[v]
           next == [state EXCEPT !.seen = @ \cup {state.request}]
           r == state.request
<1>1. state.stage = "requesting" /\ IsReady(state) /\ state \in States
  BY LookingIsReady DEF RequestCertificate, Top, IsReady
<1>2. UNCHANGED <<anchors, wereAnchors>>
  BY DEF RequestCertificate
<1>3. /\ next \in States /\ next.stage = "requesting" /\ next.packet = state.packet
      /\ next.chain = state.chain /\ next.request = r
  BY <1>1 DEF States
<1>4. IsReady(next)
  BY <1>1, <1>3, ReadyIsFine
<1>5. CASE TooDeep(state) \/ IsLoop(state)
  <2>1. Continue(v, Rejected(state)) /\ verified' = verified
    BY <1>5 DEF RequestCertificate
  <2> QED
    BY <2>1, <1>1, <1>2, RejectedIsFine, FineStepKeepsTrust
<1>6. CASE ~(TooDeep(state) \/ IsLoop(state)) /\ FindTrusted(r) # {}
  <2>1. PICK c \in FindTrusted(r) : Continue(v, Verify(next, c))
    BY <1>6 DEF RequestCertificate
  <2>2. verified' \in {verified, Refreshed(verified)}
    BY <1>6 DEF RequestCertificate, LookedUp
  <2>3. ASSUME NEW T \in SUBSET Certificates, IsClosed(T)
        PROVE  c \in T \cap Range(Answers[r])
    <3>1. AllTrusted(T) /\ anchors \subseteq T
      BY <2>3 DEF TrustInv, IsClosed
    <3> QED
      BY <3>1, FirstFacts, CacheFacts DEF FindTrusted, AllTrusted
  <2>4. \A T \in SUBSET Certificates : IsClosed(T) =>
          /\ Verify(next, c) \in States /\ IsCollected(Verify(next, c))
          /\ IsGood(T, Verify(next, c))
    BY <2>3, <1>3, <1>4, VerifyIsGood
  <2>5. Verify(next, c) \in States /\ IsCollected(Verify(next, c))
    BY <1>4, VerifyIsState
  <2>6. \A T \in SUBSET Certificates : IsClosed(T) => DOMAIN verified'.removal \subseteq T
    BY <2>2, CacheFacts DEF TrustInv, AllTrusted
  <2> QED
    BY <2>1, <2>4, <2>5, <2>6, <1>2, ContinueKeepsTrust
<1>7. CASE ~(TooDeep(state) \/ IsLoop(state)) /\ FindTrusted(r) = {}
  <2>1. Fetch(v, next) /\ verified' \in {verified, Refreshed(verified)}
    BY <1>7 DEF RequestCertificate, LookedUp
  <2>2. IsFine([next EXCEPT !.stage = "fetching"])
    <3>1. /\ [next EXCEPT !.stage = "fetching"] \in States
          /\ [next EXCEPT !.stage = "fetching"].stage = "fetching"
          /\ [next EXCEPT !.stage = "fetching"].packet = next.packet
          /\ [next EXCEPT !.stage = "fetching"].chain = next.chain
          /\ [next EXCEPT !.stage = "fetching"].request = next.request
      <4> HIDE DEF next
      <4> QED
        BY <1>3 DEF States, Stages
    <3> QED
      BY <3>1, <1>4, ReadyIsFine
  <2>3. \A c \in First(r, DOMAIN Refreshed(unverified).removal) :
          IsFine(ValidateCertificate(next, c))
    BY <1>3, <1>4, FirstFacts, ValidateCertificateIsFine
  <2>4. PICK s : Continue(v, s) /\ IsFine(s)
    <3> HIDE DEF next
    <3> QED
      BY <2>1, <2>2, <2>3, <1>3 DEF Fetch
  <2> QED
    BY <2>1, <2>4, <1>2, FineStepKeepsTrust
<1> QED
  BY <1>5, <1>6, <1>7
LEMMA AnswerKeepsTrust ==
  ASSUME TrustInv, NEW v \in Validations, OnData(v) \/ OnMalformed(v) \/ OnTimeout(v)
  PROVE  TrustInv'
<1> DEFINE state == validation[v]
           retried == OneRetryLess(state)
<1>1. IsReady(state) /\ state \in States /\ state.stage = "fetching"
  BY LookingIsReady DEF OnData, OnMalformed, OnTimeout, Awaits, IsReady
<1>2. /\ retried \in States /\ retried.stage = "fetching" /\ retried.packet = state.packet
      /\ retried.chain = state.chain /\ retried.request = state.request
  BY <1>1 DEF OneRetryLess, States
<1>3. IsReady(retried) /\ IsFine(retried)
  BY <1>1, <1>2, ReadyIsFine
<1>4. UNCHANGED <<anchors, wereAnchors, verified>>
  BY DEF OnData, OnMalformed, OnTimeout, storage
<1>5. CASE OnData(v)
  <2>1. PICK c \in Range(Answers[state.request]) : Continue(v, ValidateCertificate(state, c))
    BY <1>5 DEF OnData
  <2>2. IsFine(ValidateCertificate(state, c))
    BY <1>1, ValidateCertificateIsFine
  <2> QED
    BY <2>1, <2>2, <1>4, FineStepKeepsTrust
<1>6. CASE OnMalformed(v)
  <2>1. Continue(v, Rejected(state)) /\ IsFine(Rejected(state))
    BY <1>6, <1>1, RejectedIsFine DEF OnMalformed
  <2> QED
    BY <2>1, <1>4, FineStepKeepsTrust
<1>7. CASE OnTimeout(v)
  <2> DEFINE found == First(retried.request, DOMAIN Refreshed(unverified).removal)
  <2>1. IsFine(Rejected(retried))
    BY <1>2, RejectedIsFine
  <2>2. \A c \in found : IsFine(ValidateCertificate(retried, c))
    BY <1>3, FirstFacts, ValidateCertificateIsFine
  <2>3. \/ Continue(v, Rejected(retried)) \/ Continue(v, retried)
        \/ \E c \in found : Continue(v, ValidateCertificate(retried, c))
    BY <1>7 DEF OnTimeout
  <2>4. PICK s : Continue(v, s) /\ IsFine(s)
    <3> HIDE DEF retried, found
    <3> QED
      BY <2>1, <2>2, <2>3, <1>3
  <2> QED
    BY <2>4, <1>4, FineStepKeepsTrust
<1> QED
  BY <1>5, <1>6, <1>7

LEMMA ReturnKeepsTrust ==
  ASSUME TrustInv, NEW v \in Validations, Return(v)
  PROVE  TrustInv'
<1> DEFINE state == validation[v]
           p == state.packet
           s == [New EXCEPT !.packet = p,
                   !.stage = IF state.stage = "accepting" THEN "accepted" ELSE "rejected"]
<1>1. state \in States /\ state.stage \in {"accepting", "rejecting"}
  BY DEF TrustInv, StatesOK, Return, Top
<1>2. Continue(v, s) /\ UNCHANGED <<anchors, wereAnchors>>
      /\ verified' = Insert(verified, Range(state.chain), VerifiedLifetime)
  BY DEF Return
<1>3. /\ s \in States /\ s.packet = p
      /\ s.stage = IF state.stage = "accepting" THEN "accepted" ELSE "rejected"
  BY <1>1, NewIsState DEF States, Stages
<1>4. IsCollected(s)
  BY <1>3 DEF IsCollected
<1>5. ASSUME NEW T \in SUBSET Certificates, IsClosed(T)
      PROVE  IsGood(T, s) /\ DOMAIN verified'.removal \subseteq T
  <2>1. IsGood(T, state) /\ DOMAIN verified.removal \subseteq T
    BY <1>5 DEF TrustInv, AllTrusted
  <2>2. Range(state.chain) \subseteq T
    BY <2>1, <1>1 DEF IsGood
  <2>3. DOMAIN verified'.removal \subseteq T
    BY <2>1, <2>2, <1>2, CacheFacts
  <2> HIDE DEF s
  <2> QED
    BY <2>1, <2>3, <1>1, <1>3 DEF IsGood
<1> HIDE DEF s
<1> QED
  BY <1>2, <1>3, <1>4, <1>5, ContinueKeepsTrust
-----------------------------------------------------------------------------
(* The trust holds whatever the application calls, the Face answers and    *)
(* the time is.                                                            *)
THEOREM TrustIsKept == Spec => []TrustInv
<1>1. Init => TrustInv
  BY TrustAtStart
<1>2. TrustInv /\ [Next]_vars => TrustInv'
  <2> SUFFICES ASSUME TrustInv, [Next]_vars PROVE TrustInv'
    OBVIOUS
  <2>1. ASSUME NEW v \in Validations, NEW p \in Packets,
               ValidateData(v, p) \/ ValidateCommand(v, p)
        PROVE  TrustInv'
    BY <2>1, ValidateKeepsTrust
  <2>2. ASSUME NEW v \in Validations, RequestCertificate(v)
        PROVE  TrustInv'
    BY <2>2, RequestKeepsTrust
  <2>3. ASSUME NEW v \in Validations, Return(v)
        PROVE  TrustInv'
    BY <2>3, ReturnKeepsTrust
  <2>4. ASSUME NEW v \in Validations, OnData(v) \/ OnMalformed(v) \/ OnTimeout(v)
        PROVE  TrustInv'
    BY <2>4, AnswerKeepsTrust
  <2>5. ASSUME NEW c \in Loaded, LoadAnchor(c)
        PROVE  TrustInv'
    BY <2>5, StorageStepKeepsTrust DEF LoadAnchor, TrustInv
  <2>6. CASE ResetAnchors
    BY <2>6, StorageStepKeepsTrust DEF ResetAnchors
  <2>7. CASE ResetVerifiedCertificates
    BY <2>7, StorageStepKeepsTrust, CacheFacts DEF ResetVerifiedCertificates, TrustInv
  <2>8. CASE Tick
    BY <2>8, StorageStepKeepsTrust DEF Tick, storage, TrustInv
  <2>9. CASE UNCHANGED vars
    BY <2>9, StorageStepKeepsTrust DEF vars, TrustInv
  <2> QED
    BY <2>1, <2>2, <2>3, <2>4, <2>5, <2>6, <2>7, <2>8, <2>9 DEF Next
<1> QED
  BY <1>1, <1>2, PTL DEF Spec

(* Validator: what is accepted or cached as verified leads to a trust      *)
(* anchor by the policy and the signatures.                                *)
THEOREM AcceptedPacketsAreTrusted == Spec => []AcceptedIsTrusted
<1>1. TrustInv => AcceptedIsTrusted
  BY DEF TrustInv, AllTrusted, IsGood, AcceptedIsTrusted
<1> QED
  BY <1>1, TrustIsKept, PTL
-----------------------------------------------------------------------------
(* What a cache holds at a time: nothing is to be removed before the next  *)
(* refresh, after its validity period or later than its lifetime from now. *)
CacheOK(cache, lifetime, time) ==
  /\ cache.nextRefresh \in Nat /\ DOMAIN cache.removal \subseteq Certificates
  /\ \A c \in DOMAIN cache.removal :
       /\ cache.removal[c] \in Nat /\ cache.nextRefresh <= cache.removal[c]
       /\ cache.removal[c] <= NotAfter[c] /\ cache.removal[c] <= time + lifetime

CachesInv ==
  /\ now \in Nat
  /\ CacheOK(verified, VerifiedLifetime, now)
  /\ CacheOK(unverified, UnverifiedLifetime, now)

LEMMA LeastIsLeast ==
  ASSUME NEW S, S \subseteq Nat, S # {}
  PROVE  Least(S) \in S /\ \A y \in S : Least(S) <= y
BY FirstOfPositions DEF Least

LEMMA EmptyIsOK ==
  ASSUME NEW lifetime, NEW time
  PROVE  CacheOK(EmptyCache, lifetime, time)
<1>1. Forever \in Nat
  BY ValidatorAssumption DEF Forever
<1> QED
  BY <1>1 DEF CacheOK, EmptyCache

LEMMA InsertIsOK ==
  ASSUME now \in Nat, NEW lifetime \in Nat, NEW cache, CacheOK(cache, lifetime, now),
         NEW certificates \in SUBSET Certificates
  PROVE  CacheOK(Insert(cache, certificates, lifetime), lifetime, now)
<1> DEFINE kept == {c \in certificates : NotAfter[c] >= now}
           Time(c) == Least({NotAfter[c], now + lifetime})
           times == {Time(c) : c \in kept}
           after == Insert(cache, certificates, lifetime)
<1>1. ASSUME NEW c \in kept
      PROVE  Time(c) \in Nat /\ Time(c) <= NotAfter[c] /\ Time(c) <= now + lifetime
  <2>1. NotAfter[c] \in Nat /\ now + lifetime \in Nat
    BY ValidatorAssumption
  <2> QED
    BY <2>1, LeastIsLeast
<1>2. {cache.nextRefresh} \cup times \subseteq Nat
  BY <1>1 DEF CacheOK
<1>3. /\ after.nextRefresh \in Nat /\ after.nextRefresh <= cache.nextRefresh
      /\ \A c \in kept : after.nextRefresh <= Time(c)
  <2>1. after.nextRefresh = Least({cache.nextRefresh} \cup times)
    BY DEF Insert, SoonerRefresh
  <2> HIDE DEF times
  <2>2. /\ after.nextRefresh \in {cache.nextRefresh} \cup times
        /\ \A t \in {cache.nextRefresh} \cup times : after.nextRefresh <= t
    BY <2>1, <1>2, LeastIsLeast
  <2>3. \A c \in kept : Time(c) \in times
    BY DEF times
  <2> QED
    BY <2>2, <2>3, <1>2
<1>4. /\ DOMAIN after.removal = DOMAIN cache.removal \cup kept
      /\ \A c \in DOMAIN after.removal :
           after.removal[c] = IF c \in kept THEN Time(c) ELSE cache.removal[c]
  BY DEF Insert
<1> HIDE DEF times, after, Time
<1>5. ASSUME NEW c \in DOMAIN after.removal
      PROVE  /\ after.removal[c] \in Nat /\ after.nextRefresh <= after.removal[c]
             /\ after.removal[c] <= NotAfter[c] /\ after.removal[c] <= now + lifetime
  <2>1. CASE c \in kept
    BY <2>1, <1>1, <1>3, <1>4
  <2>2. CASE c \notin kept
    BY <2>2, <1>3, <1>4 DEF CacheOK
  <2> QED
    BY <2>1, <2>2
<1>6. DOMAIN after.removal \subseteq Certificates
  BY <1>4 DEF CacheOK
<1> QED
  BY <1>3, <1>5, <1>6 DEF CacheOK, after

LEMMA RefreshedIsOK ==
  ASSUME now \in Nat, NEW lifetime, NEW cache, CacheOK(cache, lifetime, now)
  PROVE  /\ CacheOK(Refreshed(cache), lifetime, now)
         /\ \A c \in DOMAIN Refreshed(cache).removal :
              now < cache.removal[c] /\ c \in DOMAIN cache.removal
<1>1. CASE now < cache.nextRefresh
  BY <1>1 DEF Refreshed, CacheOK
<1>2. CASE ~(now < cache.nextRefresh)
  <2> DEFINE kept == {c \in DOMAIN cache.removal : cache.removal[c] > now}
             times == {cache.removal[c] : c \in kept}
  <2>1. /\ Refreshed(cache).removal = [c \in kept |-> cache.removal[c]]
        /\ Refreshed(cache).nextRefresh = Least(times \cup {Forever})
    BY <1>2 DEF Refreshed
  <2>2. times \cup {Forever} \subseteq Nat
    BY ValidatorAssumption DEF Forever, CacheOK
  <2>3. \A c \in kept : cache.removal[c] \in times
    OBVIOUS
  <2>4. Refreshed(cache).nextRefresh \in Nat
        /\ \A t \in times : Refreshed(cache).nextRefresh <= t
    <3> HIDE DEF times
    <3> QED
      BY <2>1, <2>2, LeastIsLeast
  <2> HIDE DEF times
  <2> QED
    BY <2>1, <2>3, <2>4 DEF CacheOK
<1> QED
  BY <1>1, <1>2

(* What is inserted into the caches are certificates.                      *)
LEMMA InsertedAreCertificates ==
  ASSUME TrustInv, NEW v \in Validations
  PROVE  /\ Range(validation[v].chain) \subseteq Certificates
         /\ validation[v].stage = "fetching" =>
              Range(Answers[validation[v].request]) \subseteq Certificates
<1>1. validation[v].chain \in Seq(Certificates)
  BY DEF TrustInv, StatesOK, States
<1>2. ASSUME validation[v].stage = "fetching"
      PROVE  Answers[validation[v].request] \in Seq(Certificates)
  BY <1>2, LookingIsReady, ValidatorAssumption DEF IsReady
<1> QED
  BY <1>1, <1>2 DEF Range

(* The validity period of what is in a chain, or was cached from one, has  *)
(* begun: a certificate joins the chain after a look at its period, and    *)
(* the time does not go back.                                              *)
Begun == {c \in Certificates : HasBegun(c)}

BegunInv ==
  /\ DOMAIN verified.removal \subseteq Begun
  /\ \A v \in Validations : Range(validation[v].chain) \subseteq Begun

LEMMA CheckPolicyChain ==
  ASSUME NEW state \in States, NEW x, NEW bypassed,
         Range(bypassed.chain) \subseteq Range(state.chain)
  PROVE  /\ Range(CheckPolicy(state, x, bypassed).chain) \subseteq Range(state.chain)
         /\ Range(Rejected(state).chain) \subseteq Range(state.chain)
<1>1. Range(Rejected(state).chain) = {}
  BY DEF Rejected, States, Range
<1>2. CASE Policy[x] \in {Bypass, Deny}
  BY <1>1, <1>2, ValidatorAssumption DEF CheckPolicy
<1>3. CASE Policy[x] \notin {Bypass, Deny}
  <2>1. CheckPolicy(state, x, bypassed)
          = [state EXCEPT !.stage = "requesting", !.request = Policy[x], !.left = Retries]
    BY <1>3 DEF CheckPolicy
  <2>2. CheckPolicy(state, x, bypassed).chain = state.chain
    BY <2>1 DEF States
  <2> QED
    BY <1>1, <2>2
<1> QED
  BY <1>1, <1>2, <1>3

LEMMA ChainFacts ==
  ASSUME NEW state \in States, Range(state.chain) \subseteq Begun
  PROVE  /\ \A c \in Certificates : Range(ValidateCertificate(state, c).chain) \subseteq Begun
         /\ \A c : Range(Verify(state, c).chain) \subseteq Begun
         /\ Range(Rejected(state).chain) \subseteq Begun
<1>1. state.chain \in Seq(Certificates)
  BY DEF States
<1>2. Range(Rejected(state).chain) \subseteq Begun
  BY CheckPolicyChain
<1>3. ASSUME NEW c \in Certificates, IsValid(c)
      PROVE  Range(ValidateCertificate(state, c).chain) \subseteq Begun
  <2> DEFINE more == <<c>> \o state.chain
             longer == [state EXCEPT !.chain = more]
  <2>1. more \in Seq(Certificates) /\ Range(more) \subseteq {c} \cup Range(state.chain)
    BY <1>1 DEF Range
  <2>2. longer \in States /\ longer.chain = more
    <3> HIDE DEF more
    <3> QED
      BY <2>1 DEF States
  <2>3. c \in Begun
    BY <1>3 DEF Begun, HasBegun, IsValid
  <2>4. ValidateCertificate(state, c) = CheckPolicy(longer, c, Rejected(longer))
    BY <1>3 DEF ValidateCertificate
  <2> HIDE DEF longer, more
  <2>5. Range(Rejected(longer).chain) \subseteq Range(longer.chain)
    BY <2>2, CheckPolicyChain
  <2>6. Range(CheckPolicy(longer, c, Rejected(longer)).chain) \subseteq Range(longer.chain)
    BY <2>2, <2>5, CheckPolicyChain
  <2> QED
    BY <2>1, <2>2, <2>3, <2>4, <2>6
<1>4. ASSUME NEW c \in Certificates
      PROVE  Range(ValidateCertificate(state, c).chain) \subseteq Begun
  <2>1. CASE IsValid(c)
    BY <2>1, <1>3
  <2>2. CASE ~IsValid(c)
    BY <2>2, <1>2 DEF ValidateCertificate
  <2> QED
    BY <2>1, <2>2
<1>5. ASSUME NEW c
      PROVE  Range(Verify(state, c).chain) \subseteq Begun
  <2> DEFINE n == VerifiedLength(state.chain, c)
  <2>1. n \in 0 .. Len(state.chain)
    BY <1>1, VerifiedPart
  <2>2. Verify(state, c).chain = SubSeq(state.chain, 1, n)
    BY DEF Verify, States
  <2> HIDE DEF n
  <2> QED
    BY <1>1, <2>1, <2>2 DEF Range
<1> QED
  BY <1>2, <1>4, <1>5

(* A step that changes one validation while the time stands.               *)
LEMMA ContinueKeepsBegun ==
  ASSUME TrustInv, BegunInv, NEW v \in Validations, NEW s, Continue(v, s),
         Range(s.chain) \subseteq Begun, now' = now,
         DOMAIN verified'.removal \subseteq Begun
  PROVE  BegunInv'
<1>1. \A w \in Validations : validation'[w] = IF w = v THEN s ELSE validation[w]
  BY DEF Continue, TrustInv, StatesOK
<1>2. Begun' = Begun
  BY DEF Begun, HasBegun
<1>3. \A w \in Validations : Range(validation'[w].chain) \subseteq Begun
  BY <1>1 DEF BegunInv
<1> QED
  BY <1>2, <1>3 DEF BegunInv, Range

LEMMA RequestKeepsBegun ==
  ASSUME TrustInv, BegunInv, NEW v \in Validations, RequestCertificate(v)
  PROVE  BegunInv'
<1> DEFINE state == validation[v]
           next == [state EXCEPT !.seen = @ \cup {state.request}]
           found == First(next.request, DOMAIN Refreshed(unverified).removal)
<1>1. IsReady(state) /\ state \in States /\ Range(state.chain) \subseteq Begun
  BY LookingIsReady DEF RequestCertificate, Top, IsReady, BegunInv
<1>2. /\ next \in States /\ next.chain = state.chain /\ next.request = state.request
      /\ [next EXCEPT !.stage = "fetching"].chain = state.chain
  BY <1>1 DEF States, IsReady
<1>3. DOMAIN verified'.removal \subseteq Begun /\ now' = now
  <2>1. now' = now /\ verified' \in {verified, Refreshed(verified)}
    BY DEF RequestCertificate, LookedUp
  <2> QED
    BY <2>1, CacheFacts DEF BegunInv
<1>4. \/ Continue(v, Rejected(state))
      \/ \E c \in FindTrusted(state.request) : Continue(v, Verify(next, c))
      \/ Continue(v, [next EXCEPT !.stage = "fetching"])
      \/ \E c \in found : Continue(v, ValidateCertificate(next, c))
  BY DEF RequestCertificate, Fetch
<1>5. \A c \in found : c \in Certificates
  <2>1. Range(Answers[next.request]) \subseteq Certificates
    BY <1>1, <1>2, ValidatorAssumption DEF IsReady, Range
  <2> QED
    BY <2>1, FirstFacts
<1> HIDE DEF next, found
<1>6. PICK s : Continue(v, s) /\ Range(s.chain) \subseteq Begun
  BY <1>1, <1>2, <1>4, <1>5, ChainFacts
<1> QED
  BY <1>3, <1>6, ContinueKeepsBegun

LEMMA AnswerKeepsBegun ==
  ASSUME TrustInv, BegunInv, NEW v \in Validations, OnData(v) \/ OnMalformed(v) \/ OnTimeout(v)
  PROVE  BegunInv'
<1> DEFINE state == validation[v]
           retried == OneRetryLess(state)
           found == First(retried.request, DOMAIN Refreshed(unverified).removal)
<1>1. IsReady(state) /\ state \in States /\ Range(state.chain) \subseteq Begun
  BY LookingIsReady DEF OnData, OnMalformed, OnTimeout, Awaits, IsReady, BegunInv
<1>2. /\ retried \in States /\ retried.chain = state.chain
      /\ retried.request = state.request
  BY <1>1 DEF OneRetryLess, States, IsReady
<1>3. now' = now /\ verified' = verified
  BY DEF OnData, OnMalformed, OnTimeout, storage
<1>4. \/ \E c \in Range(Answers[state.request]) : Continue(v, ValidateCertificate(state, c))
      \/ Continue(v, Rejected(state)) \/ Continue(v, Rejected(retried))
      \/ Continue(v, retried)
      \/ \E c \in found : Continue(v, ValidateCertificate(retried, c))
  BY DEF OnData, OnMalformed, OnTimeout
<1>5. /\ Range(Answers[state.request]) \subseteq Certificates
      /\ \A c \in found : c \in Certificates
  <2>1. Range(Answers[state.request]) \subseteq Certificates
    BY <1>1, ValidatorAssumption DEF IsReady, Range
  <2> QED
    BY <1>2, <2>1, FirstFacts
<1> HIDE DEF retried, found
<1>6. PICK s : Continue(v, s) /\ Range(s.chain) \subseteq Begun
  BY <1>1, <1>2, <1>4, <1>5, ChainFacts
<1> QED
  BY <1>3, <1>6, ContinueKeepsBegun DEF BegunInv

LEMMA BeginKeepsBegun ==
  ASSUME TrustInv, BegunInv, NEW v \in Validations, NEW p \in Packets,
         ValidateData(v, p) \/ ValidateCommand(v, p)
  PROVE  BegunInv'
<1> DEFINE begun == [Begin(p) EXCEPT !.records = TRUE]
<1>1. /\ Begin(p) \in States /\ Begin(p).chain = <<>>
      /\ begun \in States /\ begun.chain = <<>>
  <2>1. Begin(p) \in States /\ Begin(p).chain = <<>>
    BY NewIsState DEF Begin, States
  <2> QED
    BY <2>1 DEF States
<1>2. \A state \in States : state.chain = <<>> =>
        /\ Range(CheckPolicy(state, p, Accepted(state)).chain) \subseteq Begun
        /\ Range(Rejected(state).chain) \subseteq Begun
  <2> SUFFICES ASSUME NEW state \in States, state.chain = <<>>
               PROVE  /\ Range(CheckPolicy(state, p, Accepted(state)).chain) \subseteq Begun
                      /\ Range(Rejected(state).chain) \subseteq Begun
    OBVIOUS
  <2>1. Range(state.chain) = {} /\ Accepted(state).chain = state.chain
    BY DEF Range, Accepted, States
  <2> QED
    BY <2>1, CheckPolicyChain
<1>3. \/ Continue(v, CheckPolicy(Begin(p), p, Accepted(Begin(p))))
      \/ Continue(v, CheckPolicy(begun, p, Accepted(begun)))
      \/ Continue(v, Rejected(Begin(p)))
  BY DEF ValidateData, ValidateCommand
<1>4. now' = now /\ verified' = verified
  BY DEF ValidateData, ValidateCommand, storage
<1> HIDE DEF begun
<1>5. PICK s : Continue(v, s) /\ Range(s.chain) \subseteq Begun
  BY <1>1, <1>2, <1>3
<1> QED
  BY <1>4, <1>5, ContinueKeepsBegun DEF BegunInv

LEMMA ReturnKeepsBegun ==
  ASSUME TrustInv, BegunInv, NEW v \in Validations, Return(v)
  PROVE  BegunInv'
<1> DEFINE s == [New EXCEPT !.packet = validation[v].packet,
                   !.stage = IF validation[v].stage = "accepting" THEN "accepted"
                             ELSE "rejected"]
<1>1. Continue(v, s) /\ now' = now
      /\ verified' = Insert(verified, Range(validation[v].chain), VerifiedLifetime)
  BY DEF Return
<1>2. Range(s.chain) = {}
  BY NewIsState DEF Range, States
<1>3. DOMAIN verified'.removal \subseteq Begun
  BY <1>1, CacheFacts DEF BegunInv
<1> HIDE DEF s
<1> QED
  BY <1>1, <1>2, <1>3, ContinueKeepsBegun

LEMMA NextBegun == TrustInv /\ CachesInv /\ BegunInv /\ [Next]_vars => BegunInv'
<1> SUFFICES ASSUME TrustInv, CachesInv, BegunInv, [Next]_vars PROVE BegunInv'
  OBVIOUS
<1>1. ASSUME NEW v \in Validations, NEW p \in Packets,
             ValidateData(v, p) \/ ValidateCommand(v, p)
      PROVE  BegunInv'
  BY <1>1, BeginKeepsBegun
<1>2. ASSUME NEW v \in Validations,
             \/ RequestCertificate(v) \/ Return(v)
             \/ OnData(v) \/ OnMalformed(v) \/ OnTimeout(v)
      PROVE  BegunInv'
  BY <1>2, RequestKeepsBegun, ReturnKeepsBegun, AnswerKeepsBegun
<1>3. CASE Tick
  <2>1. now \in Nat /\ now' = now + 1 /\ UNCHANGED <<validation, verified>>
    BY <1>3 DEF Tick, CachesInv, storage
  <2>2. \A c \in Certificates : NotBefore[c] \in Nat
    BY ValidatorAssumption
  <2>3. Begun \subseteq Begun'
    BY <2>1, <2>2 DEF Begun, HasBegun
  <2> QED
    BY <2>1, <2>3 DEF BegunInv, Range
<1>4. CASE \/ \E c \in Loaded : LoadAnchor(c)
           \/ ResetAnchors \/ ResetVerifiedCertificates \/ UNCHANGED vars
  <2>1. UNCHANGED <<now, validation>> /\ verified' \in {verified, EmptyCache}
    BY <1>4 DEF LoadAnchor, ResetAnchors, ResetVerifiedCertificates, vars, storage
  <2>2. DOMAIN verified'.removal \subseteq Begun
    BY <2>1, CacheFacts DEF BegunInv
  <2> QED
    BY <2>1, <2>2 DEF BegunInv, Begun, HasBegun, Range
<1> QED
  BY <1>1, <1>2, <1>3, <1>4 DEF Next

(* A found certificate has not expired and is not older than the lifetime  *)
(* of its cache, whenever the cache was refreshed last; one found in the   *)
(* cache of the verified certificates is within its validity period.       *)
THEOREM FoundCertificatesAreFresh == Spec => []FoundIsFresh
<1>1. Init => CachesInv
  BY EmptyIsOK DEF Init, CachesInv
<1>2. TrustInv /\ CachesInv /\ [Next]_vars => CachesInv'
  <2> SUFFICES ASSUME TrustInv, CachesInv, [Next]_vars PROVE CachesInv'
    OBVIOUS
  <2>1. now \in Nat /\ VerifiedLifetime \in Nat /\ UnverifiedLifetime \in Nat
    BY ValidatorAssumption DEF CachesInv
  <2>2. /\ CacheOK(verified, VerifiedLifetime, now)
        /\ CacheOK(unverified, UnverifiedLifetime, now)
        /\ CacheOK(Refreshed(verified), VerifiedLifetime, now)
        /\ CacheOK(Refreshed(unverified), UnverifiedLifetime, now)
    BY <2>1, RefreshedIsOK DEF CachesInv
  <2>3. ASSUME NEW v \in Validations, NEW p \in Packets,
               ValidateData(v, p) \/ ValidateCommand(v, p)
        PROVE  CachesInv'
    BY <2>3, <2>1, <2>2 DEF ValidateData, ValidateCommand, storage, CachesInv
  <2>4. ASSUME NEW v \in Validations, RequestCertificate(v)
        PROVE  CachesInv'
    <3>1. /\ now' = now /\ verified' \in {verified, Refreshed(verified)}
          /\ unverified' \in {unverified, Refreshed(unverified)}
      BY <2>4 DEF RequestCertificate, LookedUp, Fetch
    <3> QED
      BY <3>1, <2>1, <2>2 DEF CachesInv
  <2>5. ASSUME NEW v \in Validations, Return(v)
        PROVE  CachesInv'
    <3>1. /\ now' = now /\ unverified' = unverified
          /\ verified' = Insert(verified, Range(validation[v].chain), VerifiedLifetime)
      BY <2>5 DEF Return
    <3>2. CacheOK(verified', VerifiedLifetime, now)
      BY <3>1, <2>1, <2>2, InsertedAreCertificates, InsertIsOK
    <3> QED
      BY <3>1, <3>2, <2>1, <2>2 DEF CachesInv
  <2>6. ASSUME NEW v \in Validations, OnData(v) \/ OnMalformed(v) \/ OnTimeout(v)
        PROVE  CachesInv'
    <3> DEFINE state == validation[v]
               found == First(OneRetryLess(state).request, DOMAIN Refreshed(unverified).removal)
    <3>1. now' = now /\ verified' = verified /\ state.stage = "fetching"
      BY <2>6 DEF OnData, OnMalformed, OnTimeout, storage, Awaits
    <3>2. Range(Answers[state.request]) \subseteq Certificates
      BY <3>1, InsertedAreCertificates
    <3>3. found \in SUBSET Certificates
      BY <2>2, FirstFacts DEF CacheOK
    <3>4. CASE OnData(v)
      <4>1. PICK c \in Range(Answers[state.request]) :
              unverified' = Insert(unverified, {c}, UnverifiedLifetime)
        BY <3>4 DEF OnData
      <4>2. CacheOK(unverified', UnverifiedLifetime, now)
        BY <4>1, <3>2, <2>1, <2>2, InsertIsOK
      <4> QED
        BY <4>2, <3>1, <2>1, <2>2 DEF CachesInv
    <3>5. CASE OnMalformed(v)
      BY <3>5, <3>1, <2>1, <2>2 DEF OnMalformed, storage, CachesInv
    <3>6. CASE OnTimeout(v)
      <4>1. unverified' \in {unverified, Refreshed(unverified),
                             Insert(Refreshed(unverified), found, UnverifiedLifetime)}
        BY <3>6 DEF OnTimeout
      <4>2. CacheOK(unverified', UnverifiedLifetime, now)
        BY <4>1, <3>3, <2>1, <2>2, InsertIsOK
      <4> QED
        BY <4>2, <3>1, <2>1, <2>2 DEF CachesInv
    <3> QED
      BY <2>6, <3>4, <3>5, <3>6
  <2>7. ASSUME NEW c \in Loaded, LoadAnchor(c)
        PROVE  CachesInv'
    BY <2>7, <2>1, <2>2 DEF LoadAnchor, CachesInv
  <2>8. CASE ResetAnchors
    BY <2>8, <2>1, <2>2 DEF ResetAnchors, CachesInv
  <2>9. CASE ResetVerifiedCertificates
    BY <2>9, <2>1, <2>2, EmptyIsOK DEF ResetVerifiedCertificates, CachesInv
  <2>10. CASE Tick
    BY <2>10, <2>1, <2>2 DEF Tick, storage, CachesInv, CacheOK
  <2>11. CASE UNCHANGED vars
    BY <2>11, <2>1, <2>2 DEF vars, CachesInv
  <2> QED
    BY <2>3, <2>4, <2>5, <2>6, <2>7, <2>8, <2>9, <2>10, <2>11 DEF Next
<1>3. Init => BegunInv
  BY NewIsState, CacheFacts DEF Init, BegunInv, Range
<1>4. CachesInv /\ BegunInv => FoundIsFresh
  <2> SUFFICES ASSUME CachesInv, BegunInv PROVE FoundIsFresh
    OBVIOUS
  <2>1. ASSUME NEW cache, NEW lifetime, CacheOK(cache, lifetime, now)
        PROVE  IsFresh(cache, lifetime)
    BY <2>1, RefreshedIsOK DEF CachesInv, IsFresh, CacheOK
  <2>2. \A c \in DOMAIN Refreshed(verified).removal : HasBegun(c)
    BY CacheFacts DEF BegunInv, Begun
  <2> QED
    BY <2>1, <2>2 DEF CachesInv, FoundIsFresh
<1> QED
  BY <1>1, <1>2, <1>3, <1>4, NextBegun, TrustIsKept, PTL DEF Spec
-----------------------------------------------------------------------------
(* The command Interests: a validation has them recorded from its check to *)
(* its outcome.                                                            *)
CommandsInv ==
  /\ StatesOK
  /\ \A v \in Validations :
       validation[v].records => validation[v].stage # "new" /\ validation[v].packet \in Commands

CommandOf(state) == [key |-> Key(state.packet), timestamp |-> Timestamp[state.packet]]
command == [v \in Recording |-> CommandOf(validation[v])]

HasEnded(state) == state.stage \in {"accepted", "rejected"}
IsRecording(state) == state.records /\ ~HasEnded(state)

LEMMA CommandAfter ==
  ASSUME StatesOK, NEW v \in Validations, NEW state \in States, Continue(v, state)
  PROVE  /\ \A w \in Validations : validation'[w] = IF w = v THEN state ELSE validation[w]
         /\ StatesOK'
         /\ Recording' = IF IsRecording(state) THEN Recording \cup {v} ELSE Recording \ {v}
         /\ command' = [w \in Recording' |-> IF w = v THEN CommandOf(state) ELSE command[w]]
<1>1. /\ validation' \in [Validations -> States]
      /\ \A w \in Validations : validation'[w] = IF w = v THEN state ELSE validation[w]
  BY DEF Continue, StatesOK
<1>2. Recording' = IF IsRecording(state) THEN Recording \cup {v} ELSE Recording \ {v}
  BY <1>1 DEF Recording, IsRecording, HasEnded
<1>3. ASSUME NEW w \in Recording'
      PROVE  CommandOf(validation'[w]) = IF w = v THEN CommandOf(state) ELSE command[w]
  <2>1. w \in Validations /\ (w # v => w \in Recording)
    BY <1>2, <1>3 DEF Recording
  <2> QED
    BY <2>1, <1>1 DEF command
<1>4. command' = [w \in Recording' |-> CommandOf(validation'[w])]
  BY DEF command, CommandOf, Key
<1> QED
  BY <1>1, <1>2, <1>3, <1>4 DEF StatesOK

(* A step of a validation on its way changes nothing for the commands.     *)
IsOnTheWay(state, next) ==
  /\ next.records = state.records /\ next.packet = state.packet
  /\ next.stage \notin {"new", "accepted", "rejected"}

LEMMA SameCommand ==
  ASSUME CommandsInv, NEW v \in Validations, NEW state \in States, Continue(v, state),
         IsOnTheWay(validation[v], state), ~HasEnded(validation[v])
  PROVE  CommandsInv' /\ command' = command
<1>1. /\ state.records = validation[v].records /\ state.packet = validation[v].packet
      /\ ~HasEnded(state) /\ ~HasEnded(validation[v]) /\ state.stage # "new"
  BY DEF IsOnTheWay, HasEnded
<1>2. Recording' = Recording
  BY <1>1, CommandAfter DEF CommandsInv, Recording, IsRecording, HasEnded
<1>3. command' = command
  <2>1. CommandOf(state) = CommandOf(validation[v])
    BY <1>1 DEF CommandOf
  <2>2. command' = [w \in Recording' |-> IF w = v THEN CommandOf(state) ELSE command[w]]
    BY CommandAfter DEF CommandsInv
  <2>3. \A w \in Recording : command[w] = CommandOf(validation[w])
    BY DEF command
  <2>4. command' = [w \in Recording |-> CommandOf(validation[w])]
    BY <2>1, <2>2, <2>3, <1>2
  <2> QED
    BY <2>4 DEF command
<1>4. CommandsInv'
  <2>1. StatesOK' /\ \A w \in Validations : validation'[w] = IF w = v THEN state ELSE validation[w]
    BY CommandAfter DEF CommandsInv
  <2>2. \A w \in Validations : validation'[w].records =>
          validation'[w].stage # "new" /\ validation'[w].packet \in Commands
    BY <2>1, <1>1 DEF CommandsInv
  <2> QED
    BY <2>1, <2>2 DEF CommandsInv
<1> QED
  BY <1>3, <1>4

LEMMA OnTheWayFacts ==
  ASSUME NEW state, NEW next \in States, IsOnTheWay(state, next)
  PROVE  /\ IsOnTheWay(state, Rejected(next))
         /\ \A x, bypassed : IsOnTheWay(state, bypassed) =>
              IsOnTheWay(state, CheckPolicy(next, x, bypassed))
         /\ \A c \in Certificates : IsOnTheWay(state, ValidateCertificate(next, c))
         /\ \A c : IsOnTheWay(state, Verify(next, c))
         /\ IsOnTheWay(state, OneRetryLess(next))
<1>1. ASSUME NEW s \in States, IsOnTheWay(state, s)
      PROVE  IsOnTheWay(state, Rejected(s))
  BY <1>1 DEF IsOnTheWay, Rejected, States
<1>2. ASSUME NEW s \in States, IsOnTheWay(state, s), NEW x, NEW bypassed, IsOnTheWay(state, bypassed)
      PROVE  IsOnTheWay(state, CheckPolicy(s, x, bypassed))
  <2>1. CASE Policy[x] \in {Bypass, Deny}
    BY <2>1, <1>1, <1>2, ValidatorAssumption DEF CheckPolicy
  <2>2. CASE Policy[x] \notin {Bypass, Deny}
    <3>1. CheckPolicy(s, x, bypassed) = [s EXCEPT !.stage = "requesting", !.request = Policy[x],
                                                  !.left = Retries]
      BY <2>2 DEF CheckPolicy
    <3> QED
      BY <3>1, <1>2 DEF IsOnTheWay, States
  <2> QED
    BY <2>1, <2>2
<1>3. ASSUME NEW c \in Certificates
      PROVE  IsOnTheWay(state, ValidateCertificate(next, c))
  <2> DEFINE more == <<c>> \o next.chain
             longer == [next EXCEPT !.chain = more]
  <2>1. more \in Seq(Certificates)
    BY DEF States
  <2>2. longer \in States /\ IsOnTheWay(state, longer)
    <3> HIDE DEF more
    <3> QED
      BY <2>1 DEF States, IsOnTheWay
  <2> HIDE DEF longer
  <2>3. IsOnTheWay(state, CheckPolicy(longer, c, Rejected(longer)))
    BY <2>2, <1>1, <1>2
  <2> QED
    BY <2>3, <1>1 DEF ValidateCertificate, longer
<1>4. ASSUME NEW c
      PROVE  IsOnTheWay(state, Verify(next, c))
  BY DEF Verify, States, IsOnTheWay
<1>5. IsOnTheWay(state, OneRetryLess(next))
  BY DEF OneRetryLess, States, IsOnTheWay
<1> QED
  BY <1>1, <1>2, <1>3, <1>4, <1>5

LEMMA BeginFacts ==
  ASSUME NEW state \in States, NEW x
  PROVE  /\ IsOnTheWay(state, Rejected(state))
         /\ IsOnTheWay(state, CheckPolicy(state, x, Accepted(state)))
<1>1. IsOnTheWay(state, Rejected(state)) /\ IsOnTheWay(state, Accepted(state))
  BY DEF IsOnTheWay, Rejected, Accepted, States
<1>2. CASE Policy[x] \in {Bypass, Deny}
  BY <1>1, <1>2, ValidatorAssumption DEF CheckPolicy
<1>3. CASE Policy[x] \notin {Bypass, Deny}
  <2>1. CheckPolicy(state, x, Accepted(state))
          = [state EXCEPT !.stage = "requesting", !.request = Policy[x], !.left = Retries]
    BY <1>3 DEF CheckPolicy
  <2> QED
    BY <1>1, <2>1 DEF IsOnTheWay, States
<1> QED
  BY <1>1, <1>2, <1>3

LEMMA OnTheWayStep ==
  ASSUME TrustInv, TrustInv', CommandsInv, NEW v \in Validations,
         RequestCertificate(v) \/ OnData(v) \/ OnMalformed(v) \/ OnTimeout(v)
  PROVE  CommandsInv' /\ UNCHANGED <<now, container, command, accepted>>
<1> DEFINE state == validation[v]
           retried == OneRetryLess(state)
           next == [state EXCEPT !.seen = @ \cup {state.request}]
           found(cache, s) == First(s.request, DOMAIN Refreshed(cache).removal)
<1>1. /\ state \in States /\ ~HasEnded(state) /\ IsReady(state)
      /\ IsOnTheWay(state, state)
  BY LookingIsReady DEF RequestCertificate, Top, OnData, OnMalformed, OnTimeout, Awaits,
                        IsReady, HasEnded, IsOnTheWay
<1>2. /\ retried \in States /\ IsOnTheWay(state, retried) /\ retried.request = state.request
      /\ next \in States /\ IsOnTheWay(state, next) /\ next.request = state.request
  BY <1>1 DEF OneRetryLess, States, IsOnTheWay, IsReady
<1>3. Range(Answers[state.request]) \subseteq Certificates
  BY <1>1, ValidatorAssumption DEF IsReady, Range
<1>4. \A c \in Range(Answers[state.request]) :
        /\ IsOnTheWay(state, ValidateCertificate(state, c))
        /\ IsOnTheWay(state, ValidateCertificate(retried, c))
        /\ IsOnTheWay(state, ValidateCertificate(next, c))
  <2> HIDE DEF retried, next
  <2> QED
    BY <1>1, <1>2, <1>3, OnTheWayFacts
<1>5. /\ IsOnTheWay(state, Rejected(state)) /\ IsOnTheWay(state, Rejected(retried))
      /\ IsOnTheWay(state, [next EXCEPT !.stage = "fetching"])
      /\ \A c : IsOnTheWay(state, Verify(next, c))
  <2>1. IsOnTheWay(state, [next EXCEPT !.stage = "fetching"])
    BY <1>2 DEF IsOnTheWay, States
  <2> HIDE DEF retried, next
  <2> QED
    BY <2>1, <1>1, <1>2, OnTheWayFacts
<1>6. PICK s : Continue(v, s) /\ IsOnTheWay(state, s)
  <2>1. CASE RequestCertificate(v)
    <3>1. \/ Continue(v, Rejected(state))
          \/ \E c \in FindTrusted(state.request) : Continue(v, Verify(next, c))
          \/ Fetch(v, next)
      BY <2>1 DEF RequestCertificate
    <3>2. CASE Fetch(v, next)
      <4>1. \/ Continue(v, [next EXCEPT !.stage = "fetching"])
            \/ \E c \in found(unverified, next) : Continue(v, ValidateCertificate(next, c))
        BY <3>2 DEF Fetch
      <4> QED
        BY <4>1, <1>2, <1>4, <1>5, FirstFacts
    <3> QED
      BY <3>1, <3>2, <1>5
  <2>2. CASE OnData(v)
    BY <2>2, <1>4 DEF OnData
  <2>3. CASE OnMalformed(v)
    BY <2>3, <1>5 DEF OnMalformed
  <2>4. CASE OnTimeout(v)
    <3>1. \/ Continue(v, Rejected(retried)) \/ Continue(v, retried)
          \/ \E c \in found(unverified, retried) : Continue(v, ValidateCertificate(retried, c))
      BY <2>4 DEF OnTimeout
    <3> QED
      BY <3>1, <1>2, <1>4, <1>5, FirstFacts
  <2> QED
    BY <2>1, <2>2, <2>3, <2>4
<1>7. s \in States
  BY <1>6 DEF Continue, TrustInv, StatesOK
<1>8. CommandsInv' /\ command' = command
  BY <1>1, <1>6, <1>7, SameCommand
<1>9. UNCHANGED <<now, container, accepted>>
  BY DEF RequestCertificate, OnData, OnMalformed, OnTimeout, storage
<1> QED
  BY <1>8, <1>9

LEMMA ValidateDataStep ==
  ASSUME TrustInv, TrustInv', CommandsInv, NEW v \in Validations, NEW p \in Packets,
         ValidateData(v, p)
  PROVE  CommandsInv' /\ UNCHANGED <<now, container, command, accepted>>
<1> DEFINE s == CheckPolicy(Begin(p), p, Accepted(Begin(p)))
<1>1. Begin(p) \in States /\ Begin(p).records = FALSE
  BY NewIsState DEF Begin, States, New
<1>2. Continue(v, s) /\ IsOnTheWay(Begin(p), s)
  BY <1>1, BeginFacts DEF ValidateData
<1> HIDE DEF s
<1>3. s \in States
  BY <1>2 DEF Continue, TrustInv, StatesOK
<1>4. validation[v].stage = "new" /\ v \notin Recording
  <2>1. v \in v .. MaxValidations
    BY ValidatorAssumption DEF Validations
  <2> QED
    BY <2>1 DEF ValidateData, IsNext, Recording, CommandsInv
<1>5. ~IsRecording(s) /\ ~s.records
  BY <1>1, <1>2 DEF IsRecording, IsOnTheWay
<1>6. Recording' = Recording
      /\ command' = [w \in Recording' |-> IF w = v THEN CommandOf(s) ELSE command[w]]
  BY <1>2, <1>3, <1>4, <1>5, CommandAfter DEF CommandsInv
<1>7. command' = command
  BY <1>4, <1>6 DEF command
<1>8. CommandsInv'
  <2>1. StatesOK' /\ \A w \in Validations : validation'[w] = IF w = v THEN s ELSE validation[w]
    BY <1>2, <1>3, CommandAfter DEF CommandsInv
  <2>2. \A w \in Validations : validation'[w].records =>
          validation'[w].stage # "new" /\ validation'[w].packet \in Commands
    BY <2>1, <1>5 DEF CommandsInv
  <2> QED
    BY <2>1, <2>2 DEF CommandsInv
<1> QED
  BY <1>7, <1>8 DEF ValidateData

(* A validation begins with a check, and ends with an outcome.             *)
LEMMA ValidateCommandStep ==
  ASSUME TrustInv, TrustInv', CommandsInv, NEW v \in Validations, NEW p \in Packets,
         ValidateCommand(v, p)
  PROVE  CommandsInv' /\ CommandPolicy!Check(v, Key(p), Timestamp[p])
<1> DEFINE begun == [Begin(p) EXCEPT !.records = TRUE]
           proceeds == CommandPolicy!MayProceed(container', now, Key(p), Timestamp[p])
           s == IF proceeds THEN CheckPolicy(begun, p, Accepted(begun)) ELSE Rejected(Begin(p))
<1>1. /\ Begin(p) \in States /\ Begin(p).records = FALSE /\ Begin(p).packet = p
      /\ begun \in States /\ begun.records = TRUE /\ begun.packet = p
  <2>1. Begin(p) \in States /\ Begin(p).records = FALSE /\ Begin(p).packet = p
    BY NewIsState DEF Begin, States, New
  <2> QED
    BY <2>1 DEF States
<1>2. /\ IsOnTheWay(begun, CheckPolicy(begun, p, Accepted(begun)))
      /\ IsOnTheWay(Begin(p), Rejected(Begin(p)))
  <2> HIDE DEF begun
  <2> QED
    BY <1>1, BeginFacts
<1>3. /\ s.records = (IF proceeds THEN TRUE ELSE FALSE)
      /\ s.packet = p /\ s.stage # "new" /\ ~HasEnded(s)
  <2> HIDE DEF begun
  <2>1. CASE proceeds
    BY <2>1, <1>1, <1>2 DEF IsOnTheWay, HasEnded
  <2>2. CASE ~proceeds
    BY <2>2, <1>1, <1>2 DEF IsOnTheWay, HasEnded
  <2> QED
    BY <2>1, <2>2
<1>4. Continue(v, s)
  BY DEF ValidateCommand
<1> HIDE DEF s, proceeds
<1>5. s \in States
  BY <1>4 DEF Continue, TrustInv, StatesOK
<1>6. validation[v].stage = "new" /\ v \notin Recording
  <2>1. v \in v .. MaxValidations
    BY ValidatorAssumption DEF Validations
  <2> QED
    BY <2>1 DEF ValidateCommand, IsNext, Recording, CommandsInv
<1>7. IsRecording(s) <=> proceeds
  BY <1>3 DEF IsRecording
<1>8. /\ Recording' = IF proceeds THEN Recording \cup {v} ELSE Recording
      /\ command' = [w \in Recording' |-> IF w = v THEN CommandOf(s) ELSE command[w]]
      /\ StatesOK'
      /\ \A w \in Validations : validation'[w] = IF w = v THEN s ELSE validation[w]
  BY <1>7, <1>4, <1>5, <1>6, CommandAfter DEF CommandsInv
<1>9. CommandsInv'
  <2>1. \A w \in Validations : validation'[w].records =>
          validation'[w].stage # "new" /\ validation'[w].packet \in Commands
    BY <1>3, <1>8 DEF CommandsInv, ValidateCommand
  <2> QED
    BY <2>1, <1>8 DEF CommandsInv
<1>10. CASE proceeds
  <2>1. command' = [w \in Recording \cup {v} |->
                      IF w = v THEN [key |-> Key(p), timestamp |-> Timestamp[p]] ELSE command[w]]
    BY <1>3, <1>8, <1>10 DEF CommandOf
  <2> QED
    BY <1>6, <1>9, <1>10, <2>1
    DEF ValidateCommand, CommandPolicy!Check, CommandPolicy!MaySend, command, CommandOf, proceeds
<1>11. CASE ~proceeds
  <2>1. command' = command
    BY <1>6, <1>8, <1>11 DEF command
  <2> QED
    BY <1>6, <1>9, <1>11, <2>1
    DEF ValidateCommand, CommandPolicy!Check, CommandPolicy!MaySend, command, CommandOf, proceeds
<1> QED
  BY <1>10, <1>11

LEMMA ReturnStep ==
  ASSUME TrustInv, TrustInv', CommandsInv, NEW v \in Validations, Return(v)
  PROVE  /\ CommandsInv'
         /\ \/ CommandPolicy!Succeed(v) \/ CommandPolicy!Fail(v)
            \/ UNCHANGED <<now, container, command, accepted>>
<1> DEFINE state == validation[v]
           p == state.packet
           s == [New EXCEPT !.packet = p,
                   !.stage = IF state.stage = "accepting" THEN "accepted" ELSE "rejected"]
<1>1. state \in States /\ state.stage \in {"accepting", "rejecting"}
  BY DEF TrustInv, StatesOK, Return, Top
<1>2. s.records = FALSE /\ HasEnded(s) /\ ~IsRecording(s) /\ s.stage # "new"
  BY DEF New, HasEnded, IsRecording
<1>3. Continue(v, s)
  BY DEF Return
<1> HIDE DEF s
<1>4. s \in States
  BY <1>3 DEF Continue, TrustInv, StatesOK
<1>5. /\ Recording' = Recording \ {v}
      /\ command' = [w \in Recording' |-> IF w = v THEN CommandOf(s) ELSE command[w]]
      /\ StatesOK'
      /\ \A w \in Validations : validation'[w] = IF w = v THEN s ELSE validation[w]
  BY <1>2, <1>3, <1>4, CommandAfter DEF CommandsInv
<1>6. command' = [w \in Recording \ {v} |-> command[w]]
  BY <1>5
<1>7. CommandsInv'
  <2>1. \A w \in Validations : validation'[w].records =>
          validation'[w].stage # "new" /\ validation'[w].packet \in Commands
    BY <1>2, <1>5 DEF CommandsInv
  <2> QED
    BY <2>1, <1>5 DEF CommandsInv
<1>8. CASE ~state.records
  <2>1. v \notin Recording
    BY <1>8 DEF Recording
  <2>2. command' = command
    BY <2>1, <1>6 DEF command
  <2> QED
    BY <2>2, <1>7, <1>8 DEF Return, IsRecorded
<1>9. CASE state.records
  <2>1. v \in Recording /\ DOMAIN command = Recording
        /\ command[v].key = Key(p) /\ command[v].timestamp = Timestamp[p]
    BY <1>1, <1>9 DEF Recording, command, CommandOf
  <2>2. CASE state.stage = "accepting"
    <3>1. /\ container' = CommandPolicy!InsertNewRecord(container, Key(p), Timestamp[p], now)
          /\ accepted' = [accepted EXCEPT ![Key(p)] = [timestamp |-> Timestamp[p], at |-> now]]
          /\ now' = now
      BY <1>9, <2>2 DEF Return, IsRecorded
    <3> QED
      BY <1>6, <1>7, <2>1, <3>1 DEF CommandPolicy!Succeed, command, CommandOf
  <2>3. CASE state.stage = "rejecting"
    <3>1. UNCHANGED <<now, container, accepted>>
      BY <1>9, <2>3 DEF Return, IsRecorded
    <3> QED
      BY <1>6, <1>7, <2>1, <3>1 DEF CommandPolicy!Fail, command, CommandOf
  <2> QED
    BY <1>1, <2>2, <2>3
<1> QED
  BY <1>8, <1>9

(* Validator: it implements the policy of the command Interests, whenever  *)
(* the certificates of their signers come.                                 *)
THEOREM ValidatorFollowsCommands == Spec => CommandsAreFollowed
<1>1. Init => CommandsInv /\ CommandPolicy!CmdInit
  <2> SUFFICES ASSUME Init PROVE CommandsInv /\ CommandPolicy!CmdInit
    OBVIOUS
  <2>1. StatesOK /\ \A v \in Validations : validation[v] = New /\ ~New.records
    BY TrustAtStart DEF Init, TrustInv, New
  <2>2. Recording = {}
    BY <2>1 DEF Recording
  <2>3. command = [v \in {} |-> {}]
    BY <2>2 DEF command
  <2>4. CommandPolicy!CmdInit
    BY <2>3 DEF Init, CommandPolicy!CmdInit, command, CommandOf
  <2> QED
    BY <2>1, <2>4 DEF CommandsInv
<1>2. TrustInv /\ TrustInv' /\ CommandsInv /\ [Next]_vars =>
        /\ CommandsInv'
        /\ CommandPolicy!CmdNext \/ UNCHANGED <<now, container, command, accepted>>
  <2> SUFFICES ASSUME TrustInv, TrustInv', CommandsInv, [Next]_vars
               PROVE  /\ CommandsInv'
                      /\ CommandPolicy!CmdNext \/ UNCHANGED <<now, container, command, accepted>>
    OBVIOUS
  <2>1. ASSUME NEW v \in Validations, NEW p \in Packets, ValidateData(v, p)
        PROVE  CommandsInv' /\ UNCHANGED <<now, container, command, accepted>>
    BY <2>1, ValidateDataStep
  <2>2. ASSUME NEW v \in Validations, NEW p \in Packets, ValidateCommand(v, p)
        PROVE  CommandsInv' /\ CommandPolicy!CmdNext
    <3>1. Key(p) \in {Key(q) : q \in Commands} /\ Timestamp[p] \in {Timestamp[q] : q \in Commands}
      BY <2>2 DEF ValidateCommand
    <3>2. CommandsInv' /\ CommandPolicy!Check(v, Key(p), Timestamp[p])
      BY <2>2, ValidateCommandStep
    <3> QED
      BY <3>1, <3>2 DEF CommandPolicy!CmdNext
  <2>3. ASSUME NEW v \in Validations, Return(v)
        PROVE  /\ CommandsInv'
               /\ CommandPolicy!CmdNext \/ UNCHANGED <<now, container, command, accepted>>
    BY <2>3, ReturnStep DEF CommandPolicy!CmdNext
  <2>4. ASSUME NEW v \in Validations,
               RequestCertificate(v) \/ OnData(v) \/ OnMalformed(v) \/ OnTimeout(v)
        PROVE  CommandsInv' /\ UNCHANGED <<now, container, command, accepted>>
    BY <2>4, OnTheWayStep
  <2>5. ASSUME validation' = validation
        PROVE  CommandsInv' /\ command' = command
    BY <2>5 DEF CommandsInv, StatesOK, command, CommandOf, Recording, Key
  <2>6. CASE Tick
    BY <2>5, <2>6 DEF Tick, CommandPolicy!CmdNext, CommandPolicy!Tick, command, CommandOf
  <2>7. CASE \/ \E c \in Loaded : LoadAnchor(c)
             \/ ResetAnchors \/ ResetVerifiedCertificates \/ UNCHANGED vars
    BY <2>5, <2>7 DEF LoadAnchor, ResetAnchors, ResetVerifiedCertificates, vars
  <2> QED
    BY <2>1, <2>2, <2>3, <2>4, <2>6, <2>7 DEF Next
<1> QED
  BY <1>1, <1>2, TrustIsKept, PTL
  DEF Spec, CommandsAreFollowed, CommandPolicy!CmdSpec, CommandPolicy!cmdVars, command, CommandOf
=============================================================================
