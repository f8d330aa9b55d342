----------------------------- MODULE Decryptor ------------------------------
(***************************************************************************)
(* DecryptorV2 (src/src/encrypt/decryptor-v2.cpp): it retrieves the        *)
(* content key (CK) of a content, and the key decryption key (KDK) that    *)
(* the CK is encrypted with, and holds the calls of decrypt until then.    *)
(* The Face is connected.  Callbacks return: a call of decrypt from one of *)
(* them is one that follows it.                                            *)
(***************************************************************************)
EXTENDS Integers, Sequences, FiniteSets, SequencesExt

CONSTANTS
  Decrypts,      \* the calls of decrypt
  CkOf,          \* the CK that the content of each one names
  Malformed,     \* those without key locator or initial vector
  Corrupt,       \* those that the CK does not decrypt
  DecryptTries   \* EncryptorV2::N_RETRIES

ASSUME DecryptorAssumption == DecryptTries \in Nat

VARIABLE decryptor

ContentKeys == {CkOf[d] : d \in Decrypts}

(* keys      contentKeys_: whether the CK is known and isRetrieved, its    *)
(*           pendingDecrypts, the decrypt whose onError is called when it  *)
(*           fails, the Interest that is pending for it, and the tries     *)
(*           left and the KDK in its callbacks                             *)
(* imported  the KDKs in internalKeyChain_                                 *)
(* called    the calls of decrypt so far                                   *)
(* results   how often onSuccess and onError were called for each          *)
NoKey ==
  [isKnown |-> FALSE, isRetrieved |-> FALSE, pendingDecrypts |-> <<>>,
   owner |-> {}, interest |-> "none", tries |-> 0, kdk |-> {}]

DecryptorInit ==
  decryptor =
    [keys |-> [ck \in ContentKeys |-> NoKey], imported |-> {}, called |-> {},
     results |-> [d \in Decrypts |-> [success |-> 0, error |-> 0]]]
-----------------------------------------------------------------------------
WithError(result) == [result EXCEPT !.error = @ + 1]
WithSuccess(result) == [result EXCEPT !.success = @ + 1]

ToldError(s, told) ==
  [s EXCEPT !.results = [d \in Decrypts |->
     IF d \in told THEN WithError(@[d]) ELSE @[d]]]

(* doDecrypt of each of calls.                                             *)
Decrypted(s, calls) ==
  [ToldError(s, calls \cap Corrupt) EXCEPT !.results = [d \in Decrypts |->
     IF d \in calls \ Corrupt THEN WithSuccess(@[d]) ELSE @[d]]]

(* onError of the fetching of a CK, with which it may be over.  The mutant *)
(* does not tell.                                                          *)
FailedSilently(s, ck) == s
Failed(s, ck) == ToldError(s, s.keys[ck].owner)

(* expressInterest, which may throw after the Interest was added to the    *)
(* pending Interest table: its callbacks come none the less.               *)
Sent(s, ck, interest, tries) ==
  LET next == [s EXCEPT !.keys[ck].interest = interest, !.keys[ck].tries = tries]
  IN {next, Failed(next, ck)}

(* The callback of the Interest.                                           *)
Ended(s, ck) == [s EXCEPT !.keys[ck].interest = "none", !.keys[ck].tries = 0]

(* The mutant fetches the key of each waiting call.                        *)
IsNotRetrieved(key) == ~key.isRetrieved
IsNew(key) == ~key.isKnown

Wait(s, d) == [s EXCEPT !.keys[CkOf[d]].pendingDecrypts = Append(@, d)]

Own(s, d) == [s EXCEPT !.keys[CkOf[d]].isKnown = TRUE, !.keys[CkOf[d]].owner = {d}]

Decrypt(d) ==
  /\ d \notin decryptor.called
  /\ LET s == [decryptor EXCEPT !.called = @ \cup {d}]
         key == s.keys[CkOf[d]] IN
     decryptor' \in
       IF d \in Malformed THEN {ToldError(s, {d})}
       ELSE IF key.isRetrieved THEN {Decrypted(s, {d})}
       ELSE IF IsNew(key) THEN Sent(Own(Wait(s, d), d), CkOf[d], "ck", DecryptTries)
       ELSE {Wait(s, d)}

(* decryptCkAndProcessPendingDecrypts, of which the content of the CK Data *)
(* may be unusable.                                                        *)
Retrieved(s, ck) ==
  [Decrypted(s, ToSet(s.keys[ck].pendingDecrypts)) EXCEPT
     !.keys[ck].isRetrieved = TRUE, !.keys[ck].pendingDecrypts = <<>>]

DecryptedCk(s, ck) == {Retrieved(s, ck), Failed(s, ck)}

(* onData of fetchCk, of a CK Data that names a KDK.                       *)
OnCkData(ck, kdk) ==
  /\ decryptor.keys[ck].interest = "ck"
  /\ LET s == Ended(decryptor, ck) IN
     decryptor' \in
       IF kdk \in s.imported THEN DecryptedCk(s, ck)
       ELSE Sent([s EXCEPT !.keys[ck].kdk = {kdk}], ck, "kdk", DecryptTries)

(* onData of fetchKdk.  importSafeBag throws when the key is there.        *)
Imported(s, kdk) == [s EXCEPT !.imported = @ \cup kdk]

OnKdkData(ck) ==
  /\ decryptor.keys[ck].interest = "kdk"
  /\ LET s == Ended(decryptor, ck)
         kdk == s.keys[ck].kdk IN
     decryptor' \in
       IF kdk \subseteq s.imported THEN {Failed(s, ck)} ELSE DecryptedCk(Imported(s, kdk), ck)

(* A Nack, a CK Data with an invalid name, or a KDK Data that the          *)
(* credentials key does not decrypt.                                       *)
OnUnusable(ck) ==
  /\ decryptor.keys[ck].interest # "none"
  /\ decryptor' = Failed(Ended(decryptor, ck), ck)

OnDecryptorTimeout(ck) ==
  LET key == decryptor.keys[ck] IN
  /\ key.interest # "none"
  /\ decryptor' \in
       IF key.tries > 1 THEN Sent(Ended(decryptor, ck), ck, key.interest, key.tries - 1)
       ELSE {Failed(Ended(decryptor, ck), ck)}
-----------------------------------------------------------------------------
DecryptorTypeOK ==
  /\ decryptor.called \subseteq Decrypts
  /\ decryptor.results \in [Decrypts -> [success : Nat, error : Nat]]
  /\ \A ck \in ContentKeys :
       LET key == decryptor.keys[ck] IN
       /\ key.isKnown \in BOOLEAN /\ key.isRetrieved \in BOOLEAN
       /\ key.pendingDecrypts \in Seq(decryptor.called)
       /\ key.owner \subseteq decryptor.called
       /\ key.interest \in {"none", "ck", "kdk"} /\ key.tries \in 0 .. DecryptTries

Owners == UNION {decryptor.keys[ck].owner : ck \in ContentKeys}

(* "onSuccess On successful decryption, this calls onSuccess(plainData)    *)
(* where plainData is the decrypted Blob ... onError On failure, this      *)
(* calls onError" (decryptor-v2.hpp, lines 72-81): a call of decrypt has   *)
(* one success at most; only the first one with its CK, whose onError also *)
(* hears of the fetching, has more than one callback.                      *)
EachDecryptOnce ==
  \A d \in Decrypts :
    LET r == decryptor.results[d] IN
    r.success <= 1 /\ (d \notin Owners => r.success + r.error <= 1)

(* Every call of decrypt has its callback, or the one that fetches its CK  *)
(* hears that it failed.                                                   *)
IsTold(d) ==
  \E e \in Decrypts :
    /\ e = d \/ decryptor.keys[CkOf[d]].owner = {e}
    /\ decryptor.results[e].error > 0 \/ (e = d /\ decryptor.results[e].success > 0)

EveryDecryptIsTold == \A d \in Decrypts : d \in decryptor.called ~> IsTold(d)
=============================================================================
