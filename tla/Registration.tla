---------------------------- MODULE Registration ----------------------------
(***************************************************************************)
(* Prefix registration with the forwarder: Node::nfdRegisterPrefix, the    *)
(* RegisterResponse, the registered prefix table and the interest filters  *)
(* which registerPrefix sets (src/src/node.cpp,                            *)
(* src/src/impl/registered-prefix-table.cpp).                              *)
(*                                                                         *)
(* A registration sends a command Interest.  Of that Interest this module  *)
(* assumes what InterestPromise says and the Node is shown to keep: it is  *)
(* chosen when its entry is extracted, told when RegisterResponse is       *)
(* called, and other callbacks of the application can run between the      *)
(* two.  A registration and its command both go by the registeredPrefixId. *)
(***************************************************************************)
EXTENDS Naturals, FiniteSets

CONSTANTS
  MaxEntryId,   \* bound on the IDs that Node::getNextEntryId hands out
  Prefixes      \* the name prefixes to register

Ids == 1 .. MaxEntryId

ASSUME RegistrationAssumption == MaxEntryId \in Nat /\ Prefixes # {}

VARIABLES
  lastEntryId,           \* lastEntryId_
  interest,              \* the state of each command Interest
  reply,                 \* how each command Interest ended
  prefixOf,              \* {p} when p was given to registerPrefix for an ID
  combined,              \* the IDs registered with an onInterest callback
  table,                 \* the registeredPrefixIds in table_
  related,               \* their relatedInterestFilterId_, or 0
  removeRequests,        \* removeRequests_
  filters,               \* the IDs in the interest filter table
  known,                 \* the registeredPrefixIds returned
  outcome,               \* the callbacks called for each registration
  removed,               \* the IDs given to removeRegisteredPrefix
  unset                  \* the IDs given to unsetInterestFilter

tableVars == <<table, related, removeRequests, filters>>
inputVars == <<prefixOf, combined>>
vars == <<lastEntryId, interest, reply, prefixOf, combined, table, related,
          removeRequests, filters, known, outcome, removed, unset>>

Command == INSTANCE InterestPromise WITH state <- interest

(* A response with the code 200, any other or undecodable response, or the *)
(* timeout of the command Interest (a Nack is not an end of it: the        *)
(* command is expressed with an empty OnNetworkNack).                      *)
Replies == {"ok", "refused", "timeout"}

TypeOK ==
  /\ lastEntryId \in 0 .. MaxEntryId
  /\ interest \in [Ids -> Command!States]
  /\ reply \in [Ids -> Replies \cup {"none"}]
  /\ prefixOf \in [Ids -> SUBSET Prefixes]
  /\ combined \in SUBSET Ids
  /\ table \in SUBSET Ids
  /\ related \in [Ids -> 0 .. MaxEntryId]
  /\ removeRequests \in SUBSET Ids
  /\ filters \in SUBSET Ids
  /\ known \in SUBSET Ids
  /\ outcome \in [Ids -> SUBSET {"success", "failed"}]
  /\ removed \in SUBSET Ids
  /\ unset \in SUBSET Ids

Init ==
  /\ lastEntryId = 0
  /\ Command!Init
  /\ reply = [id \in Ids |-> "none"]
  /\ prefixOf = [id \in Ids |-> {}]
  /\ combined = {}
  /\ table = {}
  /\ related = [id \in Ids |-> 0]
  /\ removeRequests = {}
  /\ filters = {}
  /\ known = {}
  /\ outcome = [id \in Ids |-> {}]
  /\ removed = {}
  /\ unset = {}

-----------------------------------------------------------------------------
(* registerPrefix takes the registeredPrefixId, and one for the command.   *)

(* registerPrefix throws before a command is pending: the command signing  *)
(* info was not set (only one ID is taken), or the connection failed.      *)
RegisterThrows(taken) ==
  /\ lastEntryId + taken \in Ids
  /\ lastEntryId' = lastEntryId + taken
  /\ UNCHANGED <<interest, reply, tableVars, inputVars, known, outcome, removed,
                 unset>>

(* When it throws in sending the command, the ID is not returned although  *)
(* the command is pending until it times out.                              *)
RegisterPrefix(prefix, withOnInterest, throws) ==
  /\ lastEntryId + 2 \in Ids
  /\ lastEntryId' = lastEntryId + 2
  /\ LET id == lastEntryId + 1 IN
       /\ Command!Express(id)
       /\ prefixOf' = [prefixOf EXCEPT ![id] = {prefix}]
       /\ combined' = IF withOnInterest THEN combined \cup {id} ELSE combined
       /\ known' = IF throws THEN known ELSE known \cup {id}
  /\ UNCHANGED <<reply, tableVars, outcome, removed, unset>>

(* The Node extracts the command.                                          *)
CommandEnds(id, end) ==
  /\ id \notin known => end = "timeout"
  /\ Command!Choose({id})
  /\ reply' = [reply EXCEPT ![id] = end]
  /\ UNCHANGED <<lastEntryId, tableVars, inputVars, known, outcome, removed,
                 unset>>

-----------------------------------------------------------------------------
(* The RegisterResponse.                                                   *)

ResponseFailed(id) ==
  /\ reply[id] \in {"refused", "timeout"}
  /\ Command!Tell(id)
  /\ outcome' = [outcome EXCEPT ![id] = @ \cup {"failed"}]
  /\ UNCHANGED <<lastEntryId, reply, tableVars, inputVars, known, removed,
                 unset>>

(* RegisteredPrefixTable::add.  The mutant forgets the removal requests.   *)
IsNeverRequested(id) == FALSE
IsRemoveRequested(id) == id \in removeRequests

(* removeRegisteredPrefix was called before: the filter that was just set  *)
(* is unset, the request is used up and no callback is called.             *)
CancelKeepingFilter(id, filterId) ==
  /\ removeRequests' = removeRequests \ {id}
  /\ filters' = IF filterId # 0 THEN filters \cup {filterId} ELSE filters
  /\ UNCHANGED <<table, related, outcome>>

Cancel(id, filterId) ==
  /\ removeRequests' = removeRequests \ {id}
  /\ UNCHANGED <<table, related, filters, outcome>>

AddEntry(id, filterId) ==
  /\ table' = table \cup {id}
  /\ related' = [related EXCEPT ![id] = filterId]
  /\ filters' = IF filterId # 0 THEN filters \cup {filterId} ELSE filters
  /\ outcome' = [outcome EXCEPT ![id] = @ \cup {"success"}]
  /\ UNCHANGED removeRequests

(* The combined form sets a filter first, with an ID of its own.           *)
ResponseSucceeded(id) ==
  /\ reply[id] = "ok"
  /\ Command!Tell(id)
  /\ id \in combined => lastEntryId + 1 \in Ids
  /\ LET filterId == IF id \in combined THEN lastEntryId + 1 ELSE 0 IN
       /\ lastEntryId' = IF id \in combined THEN filterId ELSE lastEntryId
       /\ IF IsRemoveRequested(id) THEN Cancel(id, filterId)
          ELSE AddEntry(id, filterId)
  /\ UNCHANGED <<reply, inputVars, known, removed, unset>>

-----------------------------------------------------------------------------
(* removeRegisteredPrefix takes the entry and its filter out, or leaves a  *)
(* request.  The mutants match by the prefix, and forget the filter.       *)
EntriesWithPrefix(id) == {r \in table : prefixOf[r] = prefixOf[id]}
EntriesOf(id) == {r \in table : r = id}

FiltersOfNone(ids) == {}
FiltersOf(ids) == {related[r] : r \in ids}

RemoveRegisteredPrefix(id) ==
  /\ id \in known
  /\ table' = table \ EntriesOf(id)
  /\ filters' = filters \ FiltersOf(EntriesOf(id))
  /\ removeRequests' = IF EntriesOf(id) = {} THEN removeRequests \cup {id}
                       ELSE removeRequests
  /\ removed' = removed \cup {id}
  /\ UNCHANGED <<lastEntryId, interest, reply, related, inputVars, known,
                 outcome, unset>>

(* The onInterest callback is given the ID of the related filter, so the   *)
(* application can unset it.                                               *)
UnsetInterestFilter(id) ==
  /\ id \in filters
  /\ filters' = filters \ {id}
  /\ unset' = unset \cup {id}
  /\ UNCHANGED <<lastEntryId, interest, reply, table, related, removeRequests,
                 inputVars, known, outcome, removed>>

-----------------------------------------------------------------------------
Next ==
  \/ \E taken \in 1 .. 2 : RegisterThrows(taken)
  \/ \E prefix \in Prefixes, withOnInterest, throws \in BOOLEAN :
       RegisterPrefix(prefix, withOnInterest, throws)
  \/ \E id \in Ids :
       \/ \E end \in Replies : CommandEnds(id, end)
       \/ ResponseFailed(id)
       \/ ResponseSucceeded(id)
       \/ RemoveRegisteredPrefix(id)
       \/ UnsetInterestFilter(id)

Spec == Init /\ [][Next]_vars

-----------------------------------------------------------------------------
(* Removing a registration takes effect whenever it is called, before the  *)
(* response, between its extraction and its callback, or after: there is   *)
(* neither an entry nor a filter of a removed registration.                *)
RemovedIsGone ==
  \A id \in removed : id \notin table /\ related[id] \notin filters

(* No filter that registerPrefix set outlives its registration: for each   *)
(* there is an entry through which it can be removed.                      *)
NoOrphanFilter == \A f \in filters : \E id \in table : related[id] = f

(* After onRegisterSuccess the prefix is answered, until the application   *)
(* removes the registration or the filter.                                 *)
SuccessIsAnswered ==
  \A id \in combined :
    "success" \in outcome[id] =>
      related[id] \in filters \cup unset \/ id \in removed

(* A registration ends in one way, and a removed one not with success.     *)
RemovedDoesNotSucceed ==
  [][\A id \in Ids :
       outcome'[id] # outcome[id] =>
         outcome[id] = {} /\ ("success" \in outcome'[id] => id \notin removed)]_vars

(* removeRegisteredPrefix does nothing when there is no entry any more.    *)
RemoveOfEndedDoesNothing ==
  [][\A id \in Ids : outcome[id] # {} =>
       (id \in removeRequests' => id \in removeRequests)]_vars
=============================================================================
