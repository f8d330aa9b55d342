------------------------ MODULE PendingInterestTable ------------------------
(***************************************************************************)
(* The table of the Interests which the application has expressed and      *)
(* which are not answered yet (src/src/impl/pending-interest-table.cpp).   *)
(*                                                                         *)
(* An entry is known by its pendingInterestId.  table_ is a vector: its    *)
(* content is the set `table`, and the order of its elements is kept in    *)
(* `older`: older[id] holds the entries that were already in the table     *)
(* when id was pushed to its back.  The same function orders the entries   *)
(* of the interest filter table, whose IDs come from the same counter.     *)
(***************************************************************************)
EXTENDS Naturals

CONSTANTS
  MaxEntryId,   \* bound on the IDs that Node::getNextEntryId hands out
  Packets,      \* the Data packets that can be received or put
  Prefixes,     \* the prefixes of interest filters
  Wires,        \* the wire encodings of Interests
  Interests     \* the Interests (with callbacks) that can be expressed

Ids == 1 .. MaxEntryId

(* What the properties tell apart of an Interest and the callbacks given   *)
(* with it:                                                                *)
(*   answers   the Data for which matchesData is true                      *)
(*   under     the filter prefixes for which doesMatch is true             *)
(*   wire      the encoding, by which a network Nack is matched            *)
(*   onTimeout, onNetworkNack   whether the callback is not empty          *)
(*   lifetime  whether the InterestLifetime is set                         *)
(*   local     whether the name is under /local/timeout                    *)
(*   big       whether the encoding exceeds getMaxNdnPacketSize()          *)
Interest ==
  [answers : SUBSET Packets, under : SUBSET Prefixes, wire : Wires,
   onTimeout : BOOLEAN, onNetworkNack : BOOLEAN, lifetime : BOOLEAN,
   local : BOOLEAN, big : BOOLEAN]

ASSUME PendingInterestAssumption ==
  /\ MaxEntryId \in Nat
  /\ Interests # {} /\ Interests \subseteq Interest

VARIABLES
  table,           \* table_: the IDs of the pending entries
  older,           \* the position of each entry in its table, see above
  isRemoved,       \* the IDs of the entries whose isRemoved_ flag is set
  removeRequests,  \* removeRequests_
  interestOf       \* the Interest and callbacks given with each ID

pitVars == <<table, older, isRemoved, removeRequests, interestOf>>

NoInterest == [answers |-> {}]

PitTypeOK ==
  /\ table \in SUBSET Ids
  /\ older \in [Ids -> SUBSET Ids]
  /\ isRemoved \in SUBSET Ids
  /\ removeRequests \in SUBSET Ids
  /\ interestOf \in [Ids -> Interests \cup {NoInterest}]

PitInit ==
  /\ table = {}
  /\ older = [id \in Ids |-> {}]
  /\ isRemoved = {}
  /\ removeRequests = {}
  /\ interestOf = [id \in Ids |-> NoInterest]

-----------------------------------------------------------------------------
(* The entries that a received Data or Nack extracts.                      *)

MatchesData(d) == {id \in table : d \in interestOf[id].answers}

MatchesNack(w) ==
  {id \in table : interestOf[id].onNetworkNack /\ interestOf[id].wire = w}

(* add: when removePendingInterest was called before, its request is used  *)
(* up and there is no entry.  The mutant does not look for the request.    *)
IsNeverRequested(id) == FALSE
IsRemoveRequested(id) == id \in removeRequests

Add(id) ==
  IF IsRemoveRequested(id)
  THEN /\ removeRequests' = removeRequests \ {id}
       /\ UNCHANGED <<table, older, isRemoved>>
  ELSE /\ table' = table \cup {id}
       /\ older' = [older EXCEPT ![id] = table]
       /\ UNCHANGED <<isRemoved, removeRequests>>

(* extractEntriesForExpressedInterest and extractEntriesForNackInterest:   *)
(* take every matching entry out before any callback is called.  The       *)
(* mutant only sets the flag.                                              *)
ExtractFlagOnly(ids) ==
  /\ isRemoved' = isRemoved \cup ids
  /\ UNCHANGED <<table, older, removeRequests, interestOf>>

Extract(ids) ==
  /\ table' = table \ ids
  /\ isRemoved' = isRemoved \cup ids
  /\ UNCHANGED <<older, removeRequests, interestOf>>

(* removePendingInterest: an ID that is not found leaves a request.        *)
PitRemove(id) ==
  IF id \in table
  THEN /\ table' = table \ {id}
       /\ isRemoved' = isRemoved \cup {id}
       /\ UNCHANGED <<older, removeRequests, interestOf>>
  ELSE /\ removeRequests' = removeRequests \cup {id}
       /\ UNCHANGED <<table, older, isRemoved, interestOf>>

(* removeEntry returns TRUE and takes the entry out when the flag is not   *)
(* set and the entry is found.  The mutant relies on the flag being set    *)
(* for every entry that is not pending any more, and tests it wrongly.     *)
RemovesFlagged(id) == id \in isRemoved /\ id \in table
RemovesEntry(id) == id \notin isRemoved /\ id \in table
=============================================================================
