--------------------------- MODULE AccessControl ----------------------------
(***************************************************************************)
(* Name based access control (src/src/encrypt): an AccessManagerV2 that    *)
(* publishes a KEK and, for a member, the KDK (access-manager-v2.cpp), an  *)
(* EncryptorV2 which publishes its content keys encrypted with the KEK,    *)
(* and the DecryptorV2 of the member.  The network loses Interests and     *)
(* Data, and nothing is validated: Data of others is answered too.         *)
(***************************************************************************)
EXTENDS Encryptor, Decryptor

VARIABLE members   \* whether the access manager has published the KDK

vars == <<encryptor, decryptor, members>>

Init == EncryptorInit /\ DecryptorInit /\ members = FALSE
-----------------------------------------------------------------------------
AddMember == ~members /\ members' = TRUE /\ UNCHANGED <<encryptor, decryptor>>

(* A CK encrypts once the encryptor has it, published or not.              *)
CallDecrypt(d) ==
  CkOf[d] <= encryptor.ck /\ Decrypt(d) /\ UNCHANGED <<encryptor, members>>

(* EncryptorV2::Impl's onInterest.                                         *)
ServeCk(ck, kek) ==
  /\ <<ck, kek>> \in encryptor.storage
  /\ OnCkData(ck, kek) /\ UNCHANGED <<encryptor, members>>

(* AccessManagerV2::Impl's serveFromStorage.                               *)
ServeKdk(ck) ==
  /\ members /\ decryptor.keys[ck].kdk \subseteq Good
  /\ OnKdkData(ck) /\ UNCHANGED <<encryptor, members>>

Fail(ck) ==
  OnUnusable(ck) \/ OnDecryptorTimeout(ck)

Next ==
  \/ EncryptorNext /\ UNCHANGED <<decryptor, members>>
  \/ AddMember
  \/ \E d \in Decrypts : CallDecrypt(d)
  \/ \E ck \in ContentKeys :
       \/ ServeKdk(ck)
       \/ Fail(ck) /\ UNCHANGED <<encryptor, members>>
       \/ \E kek \in Keks : ServeCk(ck, kek)

Spec == Init /\ [][Next]_vars

(* The event loop runs: every Interest ends and every delayed call is      *)
(* made.  Of the Interests for the KEK, one that is sent again and again   *)
(* is answered.                                                            *)
FairSpec ==
  /\ Spec
  /\ WF_vars(Continue /\ UNCHANGED <<decryptor, members>>)
  /\ SF_vars(\E n \in Tries, kek \in Good : OnKek(n, kek) /\ UNCHANGED <<decryptor, members>>)
  /\ \A ck \in ContentKeys : WF_vars(Fail(ck) /\ UNCHANGED <<encryptor, members>>)
-----------------------------------------------------------------------------
(* retryFetchingKek is called again and again, after timeouts, Nacks and   *)
(* exceptions: in the end the encryptor has a KEK.                         *)
KekIsRetrieved == <>(encryptor.kek # NoKek)
=============================================================================
