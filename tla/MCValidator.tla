---------------------------- MODULE MCValidator -----------------------------
EXTENDS Validator

CONSTANTS root, site, user, forged, data, old, young,
          toRoot, toSite, toUser, kRoot, kSite, kUser, kOther

(* The root certificate vouches for the one of the site, which expires     *)
(* first, and the site for the user, who signs the data, and for itself,   *)
(* who signs commands.  The certificate of the user is not valid yet at    *)
(* the start.  Another has its name, comes before it, is also not valid    *)
(* yet and has a bad signature.                                            *)
(* When the root is not an anchor, its certificate leads to itself.        *)
TestPolicy ==
  [x \in Packets \cup Certificates |->
     CASE x \in {root, site} -> toRoot [] x = data -> toUser [] OTHER -> toSite]
TestAnswers ==
  [r \in Requests |-> CASE r = toRoot -> <<root>>
                        [] r = toSite -> <<site>>
                        [] r = toUser -> <<forged, user>>]
TestSignedBy ==
  [x \in Packets \cup Certificates |->
     CASE x \in {root, site} -> kRoot [] x = data -> kUser [] x = forged -> kOther
       [] OTHER -> kSite]
TestKeyOf ==
  [c \in Certificates |-> CASE c = root -> kRoot [] c = site -> kSite [] OTHER -> kUser]
TestNotBefore == [c \in Certificates |-> IF c \in {user, forged} THEN 1 ELSE 0]
TestNotAfter == [c \in Certificates |-> IF c = site THEN 2 ELSE 9]
TestTimestamp == [p \in Commands |-> IF p = old THEN 1 ELSE 2]
=============================================================================
