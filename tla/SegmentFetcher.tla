--------------------------- MODULE SegmentFetcher ---------------------------
(***************************************************************************)
(* Fetching the segments of one version of an object, one after the other  *)
(* (src/src/util/segment-fetcher.cpp).  Names are sequences of components  *)
(* below the prefix that is fetched.  The Face gives each Interest exactly *)
(* one Data or timeout: its Interests have an onTimeout and are not        *)
(* removed (see the module Node, AtMostOneCallback and ResultComes).       *)
(***************************************************************************)
EXTENDS Naturals, Sequences, FiniteSets

CONSTANTS
  Packets,         \* the Data that can be received: [name, finalBlock, valid];
                   \* a component that is a number is a segment number
  BadSegment,      \* a component with the marker of a segment, not a number
  NoFinalBlock     \* the FinalBlockId of Data that has none

(* "The data is named /<prefix>/<version>/<segment>" (segment-fetcher.hpp, *)
(* line 34): below the prefix comes a component that is not a segment.     *)
ASSUME FetcherAssumption ==
  /\ BadSegment \notin Nat
  /\ \A p \in Packets :
       /\ p.name \in Seq({p.name[k] : k \in DOMAIN p.name})
       /\ p.name # <<>> /\ p.name[1] \notin Nat /\ p.valid \in BOOLEAN

VARIABLES
  interest,      \* the names of the Interests that were expressed and have
                 \* no Data or timeout yet
  verifying,     \* the Data given to verifyData or verifySegment
  contentParts,  \* contentParts_, as the Data they come from
  results,       \* the calls of onComplete and onError
  threw          \* whether verifySegment threw

vars == <<interest, verifying, contentParts, results, threw>>

Last(s) == s[Len(s)]
Parent(name) == SubSeq(name, 1, Len(name) - 1)
IsPrefixOf(m, n) == Len(m) <= Len(n) /\ \A k \in DOMAIN m : m[k] = n[k]

TypeOK ==
  /\ \A n \in interest :
       \/ n = <<>>
       \/ Last(n) \in Nat /\ \E p \in Packets : Parent(n) = Parent(p.name)
  /\ verifying \subseteq Packets
  /\ contentParts \in Seq(Packets)
  /\ results \in Seq({"complete", "timeout", "no segment", "not verified"})
  /\ threw \in BOOLEAN

(* fetchFirstSegment.                                                      *)
Init ==
  /\ interest = {<<>>} /\ verifying = {}
  /\ contentParts = <<>> /\ results = <<>> /\ threw = FALSE

Call(result) == results' = Append(results, result)

-----------------------------------------------------------------------------
OnTimeout(name) ==
  /\ name \in interest
  /\ interest' = interest \ {name}
  /\ Call("timeout")
  /\ UNCHANGED <<verifying, contentParts, threw>>

OnSegmentReceived(name, data) ==
  /\ name \in interest /\ IsPrefixOf(name, data.name)
  /\ interest' = interest \ {name}
  /\ verifying' = verifying \cup {data}
  /\ UNCHANGED <<contentParts, results, threw>>

OnValidationFailed(data) ==
  /\ data \in verifying /\ ~data.valid
  /\ verifying' = verifying \ {data}
  /\ Call("not verified")
  /\ UNCHANGED <<interest, contentParts, threw>>

(* The Node catches the exception and logs it, and nothing goes on.        *)
VerifyThrows(data) ==
  /\ data \in verifying
  /\ verifying' = verifying \ {data}
  /\ threw' = TRUE
  /\ UNCHANGED <<interest, contentParts, results>>

(* fetchNextSegment.  The mutant asks again with the first name.           *)
NameOfAny(data, segment) == <<>>
NextName(data, segment) == Append(Parent(data.name), segment)

FetchNext(data, segment) ==
  /\ interest' = interest \cup {NextName(data, segment)}
  /\ UNCHANGED results

HasSegment(data) == Last(data.name) \in Nat

(* The mutants ask for the segment that came, and accept any segment.      *)
ReceivedSegment(data) == Last(data.name)
ExpectedSegment(data) == Len(contentParts)

IsAnySegment(data) == TRUE
IsExpected(data) == Last(data.name) = Len(contentParts)

(* After an error the fetch ends.  The mutant goes on.                     *)
FailAndFetch(data, segment) ==
  /\ Call("no segment")
  /\ interest' = interest \cup {NextName(data, segment)}

Fail(data, segment) == Call("no segment") /\ UNCHANGED interest

Accept(data) ==
  LET segment == Last(data.name) IN
  /\ contentParts' = Append(contentParts, data)
  /\ CASE data.finalBlock = BadSegment -> Fail(data, segment + 1)
       [] data.finalBlock = segment -> Call("complete") /\ UNCHANGED interest
       [] OTHER -> FetchNext(data, segment + 1)

OnVerified(data) ==
  /\ data \in verifying /\ data.valid
  /\ verifying' = verifying \ {data}
  /\ UNCHANGED threw
  /\ IF ~HasSegment(data)
     THEN Call("no segment") /\ UNCHANGED <<interest, contentParts>>
     ELSE IF IsExpected(data)
     THEN Accept(data)
     ELSE FetchNext(data, ExpectedSegment(data)) /\ UNCHANGED contentParts

Next ==
  \/ \E name \in interest :
       OnTimeout(name) \/ \E d \in Packets : OnSegmentReceived(name, d)
  \/ \E d \in verifying : OnValidationFailed(d) \/ OnVerified(d) \/ VerifyThrows(d)

Spec == Init /\ [][Next]_vars

(* Every Interest gets its Data or timeout, and every Data its             *)
(* verification.                                                           *)
FairSpec == Spec /\ WF_vars(Next)

-----------------------------------------------------------------------------
(* A fetch calls onComplete or onError once, and goes on until it does.    *)
OneResult ==
  Len(results) + Cardinality(interest) + Cardinality(verifying) <= 1

(* onComplete is called with the contents of segments 0, 1, ... up to the  *)
(* one that names itself the final block, each of them verified.           *)
CompleteIsWhole ==
  \A k \in DOMAIN results : results[k] = "complete" =>
    /\ contentParts # <<>>
    /\ \A i \in DOMAIN contentParts :
         /\ contentParts[i].valid /\ Last(contentParts[i].name) = i - 1
         /\ contentParts[i].finalBlock = i - 1 <=> i = Len(contentParts)

(* The segments come from the same version of the object, also when the    *)
(* first Data is not segment 0 and newer versions appear.                  *)
OneVersion ==
  \A i, j \in DOMAIN contentParts :
    contentParts[i].name[1] = contentParts[j].name[1]

(* "If an error occurs during the fetching process, the OnError callback   *)
(* is called" (segment-fetcher.hpp, line 63): a fetch ends with a result,  *)
(* also when Data with longer names than the Interest keeps arriving.  (It *)
(* does not when verifySegment throws.)                                    *)
EveryFetchEnds == <>(results # <<>> \/ threw)
=============================================================================
