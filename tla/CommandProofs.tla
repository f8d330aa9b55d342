--------------------------- MODULE CommandProofs ---------------------------
(***************************************************************************)
(* Both sides of the command Interests.  The one that sends them: the      *)
(* safety of Registration, for any number of IDs and prefixes.  The one    *)
(* that validates them: the accepted commands of a key are in the order of *)
(* their time stamps, for any keys, clock and grace period, when a record  *)
(* lives longer than two grace periods and a signer waits for the outcome  *)
(* of its command.                                                         *)
(***************************************************************************)
EXTENDS Registration, CommandInterest, TLAPS, FiniteSetTheorems, WellFoundedInduction

-----------------------------------------------------------------------------
(* Registration.                                                           *)


(* Only a registration whose RegisterResponse was called has an entry or   *)
(* an outcome.                                                             *)
EndedInv ==
  \A id \in Ids :
    id \in table \/ outcome[id] # {} => interest[id] = "told"

(* A removed registration that has not ended has its request waiting.      *)
RequestInv ==
  \A id \in removed : interest[id] # "told" => id \in removeRequests

(* A filter is related to one registration, and to none without an entry.  *)
RelatedInv ==
  /\ \A id \in Ids : related[id] <= lastEntryId
  /\ \A i, j \in Ids : i # j /\ related[i] = related[j] => related[i] = 0
  /\ \A id \in Ids : id \notin table => related[id] \notin filters

RegistrationInv ==
  /\ TypeOK /\ EndedInv /\ RequestInv /\ RelatedInv
  /\ RemovedIsGone /\ NoOrphanFilter /\ SuccessIsAnswered

(* Registering, and the end of a command, change none of the tables.       *)
LEMMA StartPreserves ==
  ASSUME RegistrationInv,
         \/ \E taken \in 1 .. 2 : RegisterThrows(taken)
         \/ \E prefix \in Prefixes, withOnInterest, throws \in BOOLEAN :
              RegisterPrefix(prefix, withOnInterest, throws)
         \/ \E id \in Ids, end \in Replies : CommandEnds(id, end)
  PROVE  RegistrationInv'
<1> USE RegistrationAssumption DEF RegistrationInv, Ids
<1>1. ASSUME NEW taken \in 1 .. 2, RegisterThrows(taken)
      PROVE  RegistrationInv'
  <2> USE <1>1 DEF RegisterThrows, tableVars, inputVars
  <2>1. TypeOK'
    BY DEF TypeOK
  <2>2. lastEntryId' \in Nat /\ lastEntryId <= lastEntryId'
    BY DEF TypeOK
  <2>3. (EndedInv /\ RequestInv)'
    BY DEF EndedInv, RequestInv
  <2>4. RelatedInv'
    BY <2>2 DEF RelatedInv, TypeOK
  <2>5. (RemovedIsGone /\ NoOrphanFilter /\ SuccessIsAnswered)'
    BY DEF RemovedIsGone, NoOrphanFilter, SuccessIsAnswered
  <2> QED
    BY <2>1, <2>3, <2>4, <2>5
<1>2. ASSUME NEW prefix \in Prefixes, NEW withOnInterest \in BOOLEAN,
             NEW throws \in BOOLEAN,
             RegisterPrefix(prefix, withOnInterest, throws)
      PROVE  RegistrationInv'
  <2> DEFINE new == lastEntryId + 1
  <2>1. /\ lastEntryId \in Nat /\ lastEntryId' = lastEntryId + 2
        /\ new \in Ids /\ lastEntryId' \in Ids
        /\ interest[new] = "unused"
        /\ interest' = [id \in Ids |-> IF id = new THEN "pending"
                                      ELSE interest[id]]
        /\ prefixOf' = [prefixOf EXCEPT ![new] = {prefix}]
        /\ combined' \in SUBSET (combined \cup {new})
        /\ known' \in SUBSET (known \cup {new})
    BY <1>2 DEF TypeOK, RegisterPrefix, Command!Express, Command!Moves
  <2>2. UNCHANGED <<reply, table, related, removeRequests, filters, outcome,
                    removed, unset>>
    BY <1>2 DEF RegisterPrefix, tableVars
  <2> HIDE DEF new
  <2>3. TypeOK'
    BY <2>1, <2>2 DEF TypeOK, Command!States
  <2>4. (EndedInv /\ RequestInv)'
    BY <2>1, <2>2 DEF EndedInv, RequestInv, TypeOK
  <2>5. RelatedInv'
    BY <2>1, <2>2 DEF RelatedInv, TypeOK
  <2>6. outcome[new] = {}
    BY <2>1 DEF EndedInv
  <2>7. SuccessIsAnswered'
    BY <2>1, <2>2, <2>6 DEF SuccessIsAnswered
  <2>8. (RemovedIsGone /\ NoOrphanFilter)'
    BY <2>2 DEF RemovedIsGone, NoOrphanFilter
  <2> QED
    BY <2>3, <2>4, <2>5, <2>7, <2>8
<1>3. ASSUME NEW id \in Ids, NEW end \in Replies, CommandEnds(id, end)
      PROVE  RegistrationInv'
  <2>1. /\ interest[id] = "pending"
        /\ interest' = [i \in Ids |-> IF i = id THEN "chosen" ELSE interest[i]]
        /\ reply' = [reply EXCEPT ![id] = end]
        /\ UNCHANGED <<lastEntryId, prefixOf, combined, table, related,
                       removeRequests, filters, known, outcome, removed, unset>>
    BY <1>3 DEF CommandEnds, tableVars, inputVars, Command!Choose,
                Command!Moves
  <2>2. TypeOK'
    BY <2>1 DEF TypeOK, Command!States
  <2>3. (EndedInv /\ RequestInv /\ RelatedInv)'
    BY <2>1 DEF EndedInv, RequestInv, RelatedInv, TypeOK
  <2>4. (RemovedIsGone /\ NoOrphanFilter /\ SuccessIsAnswered)'
    BY <2>1 DEF RemovedIsGone, NoOrphanFilter, SuccessIsAnswered
  <2> QED
    BY <2>2, <2>3, <2>4
<1> QED
  BY <1>1, <1>2, <1>3

LEMMA FailedPreserves ==
  ASSUME RegistrationInv, NEW id \in Ids, ResponseFailed(id)
  PROVE  RegistrationInv'
<1> USE RegistrationAssumption DEF RegistrationInv, Ids
<1>1. /\ interest[id] = "chosen"
      /\ interest' = [i \in Ids |-> IF i = id THEN "told" ELSE interest[i]]
      /\ outcome' = [outcome EXCEPT ![id] = @ \cup {"failed"}]
      /\ UNCHANGED <<lastEntryId, reply, prefixOf, combined, table, related,
                     removeRequests, filters, known, removed, unset>>
  BY DEF ResponseFailed, tableVars, inputVars, Command!Tell, Command!Moves
<1>2. TypeOK'
  BY <1>1 DEF TypeOK, Command!States
<1>3. (EndedInv /\ RequestInv /\ RelatedInv)'
  BY <1>1 DEF EndedInv, RequestInv, RelatedInv, TypeOK
<1>4. (RemovedIsGone /\ NoOrphanFilter)'
  BY <1>1 DEF RemovedIsGone, NoOrphanFilter
<1>5. SuccessIsAnswered'
  BY <1>1 DEF SuccessIsAnswered, TypeOK
<1> QED
  BY <1>2, <1>3, <1>4, <1>5

(* An entry is added with a filter whose ID is new, so that no other       *)
(* registration is related to it.                                          *)
LEMMA SucceededPreserves ==
  ASSUME RegistrationInv, NEW id \in Ids, ResponseSucceeded(id)
  PROVE  RegistrationInv'
<1> USE RegistrationAssumption DEF RegistrationInv, Ids
<1> DEFINE f == IF id \in combined THEN lastEntryId + 1 ELSE 0
<1>1. /\ interest[id] = "chosen"
      /\ interest' = [i \in Ids |-> IF i = id THEN "told" ELSE interest[i]]
      /\ UNCHANGED <<reply, prefixOf, combined, known, removed, unset>>
  BY DEF ResponseSucceeded, inputVars, Command!Tell, Command!Moves
<1>2. /\ lastEntryId \in Nat /\ f \in 0 .. MaxEntryId
      /\ lastEntryId' = IF id \in combined THEN lastEntryId + 1 ELSE lastEntryId
      /\ lastEntryId' \in 0 .. MaxEntryId
  BY DEF ResponseSucceeded, TypeOK
<1>3. f = 0 \/ (f \in Ids /\ f = lastEntryId + 1 /\ f <= lastEntryId')
  BY <1>2 DEF ResponseSucceeded
<1>3a. id \in combined => f # 0
  BY <1>2
<1>4. CASE IsRemoveRequested(id)
  <2>1. /\ removeRequests' = removeRequests \ {id}
        /\ UNCHANGED <<table, related, filters, outcome>>
    BY <1>4 DEF ResponseSucceeded, Cancel
  <2>2. TypeOK'
    BY <1>1, <1>2, <2>1 DEF TypeOK, Command!States
  <2>3. (EndedInv /\ RequestInv)'
    BY <1>1, <2>1 DEF EndedInv, RequestInv, TypeOK
  <2>4. RelatedInv'
    BY <1>2, <2>1 DEF RelatedInv, TypeOK
  <2>5. (RemovedIsGone /\ NoOrphanFilter /\ SuccessIsAnswered)'
    BY <1>1, <2>1 DEF RemovedIsGone, NoOrphanFilter, SuccessIsAnswered
  <2> QED
    BY <2>2, <2>3, <2>4, <2>5
<1>5. CASE ~IsRemoveRequested(id)
  <2>1. /\ table' = table \cup {id}
        /\ related' = [related EXCEPT ![id] = f]
        /\ filters' = IF f # 0 THEN filters \cup {f} ELSE filters
        /\ outcome' = [outcome EXCEPT ![id] = @ \cup {"success"}]
        /\ removeRequests' = removeRequests
    BY <1>5 DEF ResponseSucceeded, AddEntry
  <2>2. id \notin removed /\ id \notin table /\ outcome[id] = {}
    BY <1>1, <1>5 DEF RequestInv, EndedInv, IsRemoveRequested
  <2> HIDE DEF f
  <2>3. \A r \in Ids : f # 0 => related[r] # f
    BY <1>2, <1>3 DEF RelatedInv, TypeOK
  <2>4. 0 \notin filters
    BY DEF TypeOK
  <2>5. TypeOK'
    BY <1>1, <1>2, <1>3, <2>1 DEF TypeOK, Command!States
  <2>6. (EndedInv /\ RequestInv)'
    BY <1>1, <2>1, <2>2 DEF EndedInv, RequestInv, TypeOK
  <2>7. RelatedInv'
    <3>1. \A r \in Ids : related'[r] = IF r = id THEN f ELSE related[r]
      BY <2>1 DEF TypeOK
    <3>2. \A r \in Ids : related'[r] <= lastEntryId'
      BY <1>2, <1>3, <3>1 DEF RelatedInv, TypeOK
    <3>3. \A i, j \in Ids :
            i # j /\ related'[i] = related'[j] => related'[i] = 0
      BY <2>3, <3>1 DEF RelatedInv
    <3>4. \A r \in Ids : r \notin table' => related'[r] \notin filters'
      BY <2>1, <2>3, <3>1 DEF RelatedInv
    <3> QED
      BY <3>2, <3>3, <3>4 DEF RelatedInv
  <2>8. RemovedIsGone'
    BY <1>1, <2>1, <2>2, <2>3 DEF RemovedIsGone, TypeOK
  <2>9. NoOrphanFilter'
    <3> SUFFICES ASSUME NEW g \in filters'
                 PROVE  \E r \in table' : related'[r] = g
      BY DEF NoOrphanFilter
    <3>1. CASE g \in filters
      <4>1. PICK r \in table : related[r] = g
        BY <3>1 DEF NoOrphanFilter
      <4>2. r # id /\ r \in table' /\ related'[r] = g
        BY <2>1, <2>2, <4>1 DEF TypeOK
      <4> QED
        BY <4>2
    <3>2. CASE g \notin filters
      <4>1. g = f /\ id \in table' /\ related'[id] = f
        BY <2>1, <3>2 DEF TypeOK
      <4> QED
        BY <4>1
    <3> QED
      BY <3>1, <3>2
  <2>10. SuccessIsAnswered'
    BY <1>1, <1>3a, <2>1 DEF SuccessIsAnswered, TypeOK
  <2> QED
    BY <2>5, <2>6, <2>7, <2>8, <2>9, <2>10
<1> QED
  BY <1>4, <1>5

(* What removeRegisteredPrefix takes out is related to no other entry.     *)
LEMMA RemovePreserves ==
  ASSUME RegistrationInv, NEW id \in Ids, RemoveRegisteredPrefix(id)
  PROVE  RegistrationInv'
<1> USE RegistrationAssumption DEF RegistrationInv, Ids
<1>1. /\ table' = table \ {id}
      /\ filters' = IF id \in table THEN filters \ {related[id]} ELSE filters
      /\ removeRequests' = IF id \in table THEN removeRequests
                           ELSE removeRequests \cup {id}
      /\ removed' = removed \cup {id}
      /\ UNCHANGED <<lastEntryId, interest, reply, related, prefixOf, combined,
                     known, outcome, unset>>
  BY DEF RemoveRegisteredPrefix, EntriesOf, FiltersOf, inputVars
<1>2. TypeOK'
  BY <1>1 DEF TypeOK
<1>3. (EndedInv /\ RequestInv)'
  BY <1>1 DEF EndedInv, RequestInv
<1>4. RelatedInv'
  BY <1>1 DEF RelatedInv
<1>5. RemovedIsGone'
  BY <1>1 DEF RemovedIsGone, RelatedInv
<1>6. NoOrphanFilter'
  <2> SUFFICES ASSUME NEW g \in filters'
               PROVE  \E r \in table' : related'[r] = g
    BY DEF NoOrphanFilter
  <2>1. g \in filters /\ (id \in table => g # related[id])
    BY <1>1
  <2>2. PICK r \in table : related[r] = g
    BY <2>1 DEF NoOrphanFilter
  <2> QED
    BY <1>1, <2>1, <2>2
<1>7. SuccessIsAnswered'
  <2> SUFFICES ASSUME NEW i \in combined, "success" \in outcome[i],
                      i \notin removed, i # id
               PROVE  related[i] \in filters' \cup unset
    BY <1>1 DEF SuccessIsAnswered
  <2>1. related[i] \in filters \cup unset /\ related[i] # 0 /\ i \in Ids
    BY DEF SuccessIsAnswered, TypeOK
  <2>2. related[i] # related[id]
    BY <2>1 DEF RelatedInv
  <2> QED
    BY <1>1, <2>1, <2>2
<1> QED
  BY <1>2, <1>3, <1>4, <1>5, <1>6, <1>7

LEMMA UnsetPreserves ==
  ASSUME RegistrationInv, NEW id \in Ids, UnsetInterestFilter(id)
  PROVE  RegistrationInv'
<1> USE RegistrationAssumption DEF RegistrationInv, UnsetInterestFilter, inputVars
<1>1. TypeOK'
  BY DEF TypeOK
<1>2. (EndedInv /\ RequestInv /\ RelatedInv)'
  BY DEF EndedInv, RequestInv, RelatedInv
<1>3. (RemovedIsGone /\ NoOrphanFilter /\ SuccessIsAnswered)'
  BY DEF RemovedIsGone, NoOrphanFilter, SuccessIsAnswered
<1> QED
  BY <1>1, <1>2, <1>3

LEMMA StepPreserves == RegistrationInv /\ [Next]_vars => RegistrationInv'
<1> SUFFICES ASSUME RegistrationInv, [Next]_vars
             PROVE  RegistrationInv'
  OBVIOUS
<1>1. CASE UNCHANGED vars
  BY <1>1 DEF vars, RegistrationInv, TypeOK, EndedInv, RequestInv, RelatedInv,
              RemovedIsGone, NoOrphanFilter, SuccessIsAnswered
<1>2. CASE Next
  BY <1>2, StartPreserves, FailedPreserves, SucceededPreserves,
     RemovePreserves, UnsetPreserves DEF Next
<1> QED
  BY <1>1, <1>2

LEMMA InitEstablishes == Init => RegistrationInv
<1> SUFFICES ASSUME Init PROVE RegistrationInv
  OBVIOUS
<1> USE RegistrationAssumption DEF Init, Ids, Command!Init
<1>1. TypeOK
  BY DEF TypeOK, Command!States
<1>2. EndedInv /\ RequestInv /\ RelatedInv
  BY DEF EndedInv, RequestInv, RelatedInv
<1>3. RemovedIsGone /\ NoOrphanFilter /\ SuccessIsAnswered
  BY DEF RemovedIsGone, NoOrphanFilter, SuccessIsAnswered
<1> QED
  BY <1>1, <1>2, <1>3 DEF RegistrationInv

(* Of a registration that was removed, before or after the forwarder's     *)
(* answer, there is neither an entry nor a filter.                         *)
THEOREM RemovedLeavesNothing == Spec => []RemovedIsGone
<1>1. RegistrationInv => RemovedIsGone
  BY DEF RegistrationInv
<1> QED
  BY InitEstablishes, StepPreserves, <1>1, PTL DEF Spec

(* Each filter that registerPrefix set can be removed through its entry.   *)
THEOREM FiltersHaveEntries == Spec => []NoOrphanFilter
<1>1. RegistrationInv => NoOrphanFilter
  BY DEF RegistrationInv
<1> QED
  BY InitEstablishes, StepPreserves, <1>1, PTL DEF Spec

(* A registered prefix is answered until it is removed.                    *)
THEOREM RegisteredIsAnswered == Spec => []SuccessIsAnswered
<1>1. RegistrationInv => SuccessIsAnswered
  BY DEF RegistrationInv
<1> QED
  BY InitEstablishes, StepPreserves, <1>1, PTL DEF Spec

(* A registration ends at most once, and not with success once it was      *)
(* removed.                                                                *)
THEOREM RemovedNeverSucceeds == Spec => RemovedDoesNotSucceed
<1>1. ASSUME RegistrationInv, [Next]_vars
      PROVE  [\A id \in Ids :
                outcome'[id] # outcome[id] =>
                  outcome[id] = {}
                  /\ ("success" \in outcome'[id] => id \notin removed)]_vars
  <2> SUFFICES ASSUME Next, NEW id \in Ids, outcome'[id] # outcome[id]
               PROVE  outcome[id] = {}
                      /\ ("success" \in outcome'[id] => id \notin removed)
    BY <1>1
  <2>1. CASE ResponseFailed(id)
    <3>1. interest[id] = "chosen"
          /\ outcome' = [outcome EXCEPT ![id] = @ \cup {"failed"}]
      BY <2>1 DEF ResponseFailed, Command!Tell, Command!Moves
    <3>2. outcome[id] = {}
      BY <1>1, <3>1 DEF RegistrationInv, EndedInv
    <3> QED
      BY <1>1, <3>1, <3>2 DEF RegistrationInv, TypeOK
  <2>2. CASE ResponseSucceeded(id)
    <3>1. interest[id] = "chosen" /\ ~IsRemoveRequested(id)
      BY <2>2 DEF ResponseSucceeded, Cancel, Command!Tell, Command!Moves
    <3> QED
      BY <1>1, <3>1 DEF RegistrationInv, EndedInv, RequestInv, IsRemoveRequested
  <2>3. ASSUME NEW i \in Ids, i # id, ResponseFailed(i) \/ ResponseSucceeded(i)
        PROVE  FALSE
    BY <1>1, <2>3 DEF RegistrationInv, TypeOK, ResponseFailed,
                      ResponseSucceeded, Cancel, AddEntry
  <2>4. ASSUME \/ \E taken \in 1 .. 2 : RegisterThrows(taken)
               \/ \E prefix \in Prefixes, withOnInterest, throws \in BOOLEAN :
                    RegisterPrefix(prefix, withOnInterest, throws)
               \/ \E i \in Ids :
                    \/ \E end \in Replies : CommandEnds(i, end)
                    \/ RemoveRegisteredPrefix(i)
                    \/ UnsetInterestFilter(i)
        PROVE  FALSE
    BY <2>4 DEF RegisterThrows, RegisterPrefix, CommandEnds,
                RemoveRegisteredPrefix, UnsetInterestFilter
  <2> QED
    BY <2>1, <2>2, <2>3, <2>4 DEF Next
<1> QED
  BY InitEstablishes, StepPreserves, <1>1, PTL DEF Spec, RemovedDoesNotSucceed

-----------------------------------------------------------------------------
(* The time stamps of the commands that are accepted.                      *)

Records == [key : Keys, timestamp : Int, lastRefreshed : Int]

(* The options and the signers for which the order is kept: the default    *)
(* ones are 2 minutes, 1000 records and 1 hour.                            *)
Options ==
  /\ GracePeriod \in Nat /\ RecordLifetime \in Nat /\ MaxRecords \in Int
  /\ 2 * GracePeriod < RecordLifetime
  /\ Timestamps \subseteq Int /\ MaxTime \in Int
  /\ IsFiniteSet(Keys) /\ StopAndWait = TRUE

CmdTypeOK ==
  /\ now \in Nat
  /\ container \in Seq(Records)
  /\ command \in [DOMAIN command -> [key : Keys, timestamp : Int]]
  /\ accepted \in [Keys -> [timestamp : Int, at : Int]]

(* A record is the last accepted command of its key; there is one of each  *)
(* key, and the oldest is the first.                                       *)
RecordIsLast ==
  \A k \in DOMAIN container :
    accepted[container[k].key] =
      [timestamp |-> container[k].timestamp, at |-> container[k].lastRefreshed]

OneRecord ==
  \A j, k \in DOMAIN container : container[j].key = container[k].key => j = k

OldestFirst ==
  \A j, k \in DOMAIN container :
    j < k => container[j].lastRefreshed <= container[k].lastRefreshed

OneCommand ==
  \A v, w \in DOMAIN command : command[v].key = command[w].key => v = w

(* Nothing is from later than the grace period allows.                     *)
InTime ==
  /\ \A key \in Keys :
       /\ accepted[key].at <= now
       /\ accepted[key] # Never =>
            accepted[key].at \in Nat
            /\ accepted[key].timestamp <= accepted[key].at + GracePeriod
  /\ \A v \in DOMAIN command : command[v].timestamp <= now + GracePeriod

(* The key was pushed out of the records.                                  *)
IsEvicted(key) == MaxRecords >= 0 /\ Cardinality(UsedSince(key)) >= MaxRecords

(* The last command of a key is remembered, unless the clock or other keys *)
(* have moved on far enough.                                               *)
Remembered ==
  \A key \in Keys : accepted[key] # Never =>
    \/ IsFound(container, key)
    \/ accepted[key].at + RecordLifetime <= now
    \/ IsEvicted(key)

(* A command in progress is later than the last one of its key.            *)
IsLater(key, timestamp) ==
  \/ accepted[key] = Never
  \/ accepted[key].timestamp < timestamp
  \/ IsEvicted(key)

InProgressFollows ==
  \A v \in DOMAIN command : IsLater(command[v].key, command[v].timestamp)

CmdIInv ==
  /\ CmdTypeOK /\ RecordIsLast /\ OneRecord /\ OldestFirst /\ OneCommand
  /\ InTime /\ Remembered /\ InProgressFollows
-----------------------------------------------------------------------------
(* A set of positions has a first one.                                     *)
LEMMA FirstOfPositions ==
  ASSUME NEW T, T \subseteq Nat, T # {}
  PROVE  \E x \in T : \A y \in T : x <= y
<1> DEFINE R == OpToRel(<, Nat)
<1>1. PICK x \in T : \A y \in T : <<y, x>> \notin R
  BY NatLessThanWellFounded, WFMin
<1>2. \A y \in T : ~(y < x)
  BY <1>1 DEF OpToRel
<1> QED
  BY <1>2

(* cleanUp leaves the end of the records, and drops only records which     *)
(* have expired or are too many.                                           *)
LEMMA CleanUpIsSuffix ==
  ASSUME Options, NEW c \in Seq(Records), NEW t \in Int
  PROVE  /\ FirstKept(c, t) \in 1 .. Len(c) + 1
         /\ \A k \in 1 .. FirstKept(c, t) - 1 : IsDropped(c, k, t)
         /\ CleanUp(c, t) \in Seq(Records)
         /\ Len(CleanUp(c, t)) = Len(c) - FirstKept(c, t) + 1
         /\ \A i \in 1 .. Len(CleanUp(c, t)) :
              CleanUp(c, t)[i] = c[FirstKept(c, t) + i - 1]
<1> DEFINE f == FirstKept(c, t)
<1>1. Len(c) \in Nat
  OBVIOUS
<1>2. Len(c) + 1 \in Stays(c, t) /\ Stays(c, t) \subseteq Nat
  BY <1>1 DEF Stays
<1>3. \E k \in Stays(c, t) : \A j \in Stays(c, t) : k <= j
  BY <1>2, FirstOfPositions
<1>4. f \in Stays(c, t) /\ \A j \in Stays(c, t) : f <= j
  BY <1>3 DEF FirstKept
<1>5. f \in 1 .. Len(c) + 1
  BY <1>4 DEF Stays
<1>6. ASSUME NEW k \in 1 .. f - 1 PROVE IsDropped(c, k, t)
  <2>1. k \notin Stays(c, t)
    BY <1>4, <1>5, <1>1
  <2> QED
    BY <2>1, <1>5, <1>1 DEF Stays
<1>7. CleanUp(c, t) = SubSeq(c, f, Len(c))
  BY DEF CleanUp
<1> HIDE DEF f
<1>8. CleanUp(c, t) \in Seq(Records) /\ Len(CleanUp(c, t)) = Len(c) - f + 1
  BY <1>1, <1>5, <1>7
<1>9. \A i \in 1 .. Len(CleanUp(c, t)) : CleanUp(c, t)[i] = c[f + i - 1]
  BY <1>1, <1>5, <1>7, <1>8
<1> QED
  BY <1>5, <1>6, <1>8, <1>9 DEF f

(* Erasing a record moves the later ones by one position.                  *)
LEMMA ErasedRecords ==
  ASSUME NEW c \in Seq(Records), NEW k \in DOMAIN c
  PROVE  /\ Erased(c, k) \in Seq(Records)
         /\ Len(Erased(c, k)) = Len(c) - 1
         /\ \A i \in 1 .. Len(c) - 1 :
              Erased(c, k)[i] = IF i < k THEN c[i] ELSE c[i + 1]
<1>1. Len(c) \in Nat /\ k \in 1 .. Len(c)
  OBVIOUS
<1>2. \A i \in 1 .. Len(c) - 1 : (IF i < k THEN c[i] ELSE c[i + 1]) \in Records
  BY <1>1
<1> QED
  BY <1>1, <1>2 DEF Erased

LEMMA Types ==
  ASSUME CmdTypeOK
  PROVE  /\ now \in Nat /\ now \in Int
         /\ Len(container) \in Nat /\ DOMAIN container = 1 .. Len(container)
         /\ \A k \in DOMAIN container :
              /\ container[k] \in Records /\ container[k].key \in Keys
              /\ container[k].timestamp \in Int /\ container[k].lastRefreshed \in Int
         /\ \A v \in DOMAIN command :
              command[v].key \in Keys /\ command[v].timestamp \in Int
         /\ \A key \in Keys : accepted[key].timestamp \in Int /\ accepted[key].at \in Int
<1>1. \A k \in DOMAIN container : container[k] \in Records
  BY DEF CmdTypeOK
<1> QED
  BY <1>1 DEF CmdTypeOK, Records

LEMMA RecordOf ==
  ASSUME RecordIsLast, NEW k \in DOMAIN container
  PROVE  /\ accepted[container[k].key].timestamp = container[k].timestamp
         /\ accepted[container[k].key].at = container[k].lastRefreshed
<1> DEFINE mark == [timestamp |-> container[k].timestamp, at |-> container[k].lastRefreshed]
<1>1. accepted[container[k].key] = mark
  BY DEF RecordIsLast
<1>2. mark.timestamp = container[k].timestamp /\ mark.at = container[k].lastRefreshed
  OBVIOUS
<1> QED
  BY <1>1, <1>2, Zenon

(* A record which is one of too many was followed by other keys.           *)
LEMMA TooManyIsEvicted ==
  ASSUME Options, CmdTypeOK, RecordIsLast, OneRecord, OldestFirst,
         NEW k \in DOMAIN container, TooMany(Len(container) - k + 1)
  PROVE  IsEvicted(container[k].key)
<1> DEFINE n == Len(container)
           later == k + 1 .. n
           key == container[k].key
           f == [j \in later |-> container[j].key]
<1>1. n \in Nat /\ k \in 1 .. n /\ DOMAIN container = 1 .. n
  BY Types
<1>2. later \subseteq DOMAIN container /\ \A j \in later : k < j
  BY <1>1
<1>3. ASSUME NEW j \in later PROVE f[j] \in UsedSince(key)
  <2>1. container[j].key \in Keys /\ container[j].key # key
    BY <1>2, Types DEF OneRecord
  <2>2. container[k].lastRefreshed <= container[j].lastRefreshed
    BY <1>2 DEF OldestFirst
  <2>3. accepted[key].at = container[k].lastRefreshed
        /\ accepted[container[j].key].at = container[j].lastRefreshed
    BY <1>2, RecordOf
  <2>4. container[k].lastRefreshed \in Int /\ container[j].lastRefreshed \in Int
    BY <1>2, Types
  <2> QED
    BY <2>1, <2>2, <2>3, <2>4 DEF UsedSince
<1>4. \A i, j \in later : f[i] = f[j] => i = j
  BY <1>2 DEF OneRecord
<1>5. f \in Injection(later, UsedSince(key))
  <2>1. f \in [later -> UsedSince(key)]
    BY <1>3
  <2> QED
    BY <2>1, <1>4, Zenon DEF Injection, IsInjective
<1>6. IsFiniteSet(UsedSince(key))
  BY FS_Subset DEF Options, UsedSince
<1>7. Cardinality(later) <= Cardinality(UsedSince(key))
  BY <1>5, <1>6, FS_Injection
<1>8. Cardinality(later) = n - k
  <2>1. k + 1 \in Int /\ n \in Int
    BY <1>1
  <2>2. Cardinality(later) = IF k + 1 > n THEN 0 ELSE n - (k + 1) + 1
    BY <2>1, FS_Interval
  <2> QED
    BY <2>2, <1>1
<1>9. Cardinality(UsedSince(key)) \in Nat
  BY <1>6, FS_CardinalityType
<1>10. MaxRecords >= 0 /\ n - k + 1 > MaxRecords
  BY DEF TooMany
<1> QED
  BY <1>1, <1>7, <1>8, <1>9, <1>10 DEF IsEvicted, Options

(* What cleanUp drops is too old or was followed by other keys.            *)
LEMMA DroppedIsForgotten ==
  ASSUME Options, CmdIInv, NEW key \in Keys, accepted[key] # Never
  PROVE  \/ IsFound(CleanUp(container, now), key)
         \/ accepted[key].at + RecordLifetime <= now
         \/ IsEvicted(key)
<1> DEFINE c == CleanUp(container, now)
           f == FirstKept(container, now)
<1>1. now \in Int /\ container \in Seq(Records)
  BY DEF CmdIInv, CmdTypeOK
<1>2. /\ f \in 1 .. Len(container) + 1
      /\ \A k \in 1 .. f - 1 : IsDropped(container, k, now)
      /\ c \in Seq(Records) /\ Len(c) = Len(container) - f + 1
      /\ \A i \in 1 .. Len(c) : c[i] = container[f + i - 1]
  BY <1>1, CleanUpIsSuffix
<1> HIDE DEF c, f
<1>3. SUFFICES ASSUME NEW k \in DOMAIN container, container[k].key = key
               PROVE  \/ IsFound(c, key)
                      \/ accepted[key].at + RecordLifetime <= now
                      \/ IsEvicted(key)
  BY DEF CmdIInv, Remembered, IsFound, c
<1>4. Len(container) \in Nat /\ k \in 1 .. Len(container)
      /\ container[k].lastRefreshed \in Int /\ accepted[key].at = container[k].lastRefreshed
  BY <1>3, Types, RecordOf DEF CmdIInv
<1>5. CASE k < f
  <2>1. IsDropped(container, k, now)
    BY <1>2, <1>4, <1>5
  <2>2. CASE container[k].lastRefreshed <= now - RecordLifetime
    BY <2>2, <1>1, <1>4 DEF Options
  <2>3. CASE TooMany(Len(container) - k + 1)
    BY <2>3, <1>3, TooManyIsEvicted DEF CmdIInv
  <2> QED
    BY <2>1, <2>2, <2>3 DEF IsDropped
<1>6. CASE f <= k
  <2>1. k - f + 1 \in 1 .. Len(c) /\ f + (k - f + 1) - 1 = k
    BY <1>2, <1>4, <1>6
  <2>2. c[k - f + 1].key = key /\ k - f + 1 \in DOMAIN c
    <3>1. c[k - f + 1] = container[k]
      BY <2>1, <1>2
    <3>2. DOMAIN c = 1 .. Len(c)
      BY <1>2
    <3> QED
      BY <2>1, <3>1, <3>2, <1>3
  <2> QED
    BY <2>2 DEF IsFound
<1> QED
  BY <1>2, <1>4, <1>5, <1>6

(* A key that was pushed out stays so until a command of it is accepted.   *)
LEMMA EvictedStays ==
  ASSUME Options, CmdTypeOK, CmdTypeOK', NEW key \in Keys, IsEvicted(key),
         accepted'[key] = accepted[key],
         \A k \in Keys : accepted[k].at <= accepted'[k].at
  PROVE  IsEvicted(key)'
<1>1. UsedSince(key) \subseteq UsedSince(key)'
  <2> SUFFICES ASSUME NEW k \in Keys \ {key}, accepted[k].at >= accepted[key].at
               PROVE  accepted'[k].at >= accepted'[key].at
    BY DEF UsedSince
  <2>1. /\ accepted[k].at \in Int /\ accepted[key].at \in Int
        /\ accepted'[k].at \in Int /\ accepted[k].at <= accepted'[k].at
    BY DEF CmdTypeOK
  <2> QED
    BY <2>1
<1>2. IsFiniteSet(UsedSince(key)')
  BY FS_Subset DEF Options, UsedSince
<1>3. /\ Cardinality(UsedSince(key)) <= Cardinality(UsedSince(key)')
      /\ IsFiniteSet(UsedSince(key))
  BY <1>1, <1>2, FS_Subset
<1>4. Cardinality(UsedSince(key)) \in Nat /\ Cardinality(UsedSince(key)') \in Nat
  BY <1>2, <1>3, FS_CardinalityType
<1>5. Cardinality(UsedSince(key)') >= MaxRecords
  BY <1>3, <1>4 DEF IsEvicted, Options
<1> QED
  BY <1>5 DEF IsEvicted
-----------------------------------------------------------------------------
LEMMA InitIsGood == Options /\ CmdInit => CmdIInv
<1> SUFFICES ASSUME Options, CmdInit PROVE CmdIInv
  OBVIOUS
<1>1. DOMAIN command = {} /\ command = [v \in {} |-> {}]
  BY DEF CmdInit
<1>2. command \in [DOMAIN command -> [key : Keys, timestamp : Int]]
  BY <1>1
<1>3. container = <<>> /\ container \in Seq(Records) /\ DOMAIN container = {}
  BY DEF CmdInit
<1>4. now = 0 /\ \A key \in Keys : accepted[key] = Never
  BY DEF CmdInit
<1>5. Never \in [timestamp : Int, at : Int] /\ Never.at = -1
  BY DEF Never
<1>6. CmdTypeOK
  BY <1>2, <1>3, <1>4, <1>5 DEF CmdTypeOK, CmdInit
<1>7. RecordIsLast /\ OneRecord /\ OldestFirst
  BY <1>3 DEF RecordIsLast, OneRecord, OldestFirst
<1>8. OneCommand /\ InProgressFollows
  BY <1>1 DEF OneCommand, InProgressFollows
<1>9. InTime /\ Remembered
  BY <1>1, <1>4, <1>5 DEF InTime, Remembered
<1> QED
  BY <1>6, <1>7, <1>8, <1>9 DEF CmdIInv

(* When only the clock moves or a command ends, nothing is forgotten.      *)
LEMMA TickIsGood == Options /\ CmdIInv /\ Tick => CmdIInv'
<1> SUFFICES ASSUME Options, CmdIInv, Tick PROVE CmdIInv'
  OBVIOUS
<1> USE DEF CmdIInv
<1>1. now' = now + 1 /\ now \in Nat /\ GracePeriod \in Nat /\ RecordLifetime \in Nat
      /\ UNCHANGED <<container, command, accepted>>
  BY DEF Tick, CmdTypeOK, Options
<1>2. CmdTypeOK'
  BY <1>1 DEF CmdTypeOK
<1>3. RecordIsLast' /\ OneRecord' /\ OldestFirst' /\ OneCommand'
  BY <1>1 DEF RecordIsLast, OneRecord, OldestFirst, OneCommand
<1>4. \A key \in Keys : IsEvicted(key) => IsEvicted(key)'
  BY <1>1 DEF IsEvicted, UsedSince
<1>5. InProgressFollows'
  <2>1. ASSUME NEW v \in DOMAIN command
        PROVE  IsLater(command[v].key, command[v].timestamp)'
    <3>1. command[v].key \in Keys /\ IsLater(command[v].key, command[v].timestamp)
      BY Types DEF InProgressFollows
    <3> QED
      BY <1>1, <1>4, <3>1 DEF IsLater
  <2> QED
    BY <1>1, <2>1 DEF InProgressFollows
<1>6. InTime'
  BY <1>1, Types DEF InTime
<1>7. Remembered'
  BY <1>1, <1>4, Types DEF Remembered
<1> QED
  BY <1>2, <1>3, <1>5, <1>6, <1>7

LEMMA FailIsGood ==
  ASSUME Options, CmdIInv, NEW v \in Validations, Fail(v)
  PROVE  CmdIInv'
<1> USE DEF CmdIInv
<1>1. UNCHANGED <<now, container, accepted>>
      /\ command' = [w \in DOMAIN command \ {v} |-> command[w]]
  BY DEF Fail
<1>2. DOMAIN command' \subseteq DOMAIN command
      /\ \A w \in DOMAIN command' : command'[w] = command[w]
  BY <1>1
<1>3. CmdTypeOK'
  BY <1>1 DEF CmdTypeOK
<1>4. RecordIsLast' /\ OneRecord' /\ OldestFirst'
  BY <1>1 DEF RecordIsLast, OneRecord, OldestFirst
<1>5. OneCommand' /\ InTime'
  BY <1>1, <1>2 DEF OneCommand, InTime
<1>6. \A key \in Keys : IsEvicted(key) => IsEvicted(key)'
  BY <1>1 DEF IsEvicted, UsedSince
<1>7. InProgressFollows'
  <2>1. ASSUME NEW w \in DOMAIN command'
        PROVE  IsLater(command[w].key, command[w].timestamp)'
    <3>1. command[w].key \in Keys /\ command'[w] = command[w]
          /\ IsLater(command[w].key, command[w].timestamp)
      BY <1>2, Types DEF InProgressFollows
    <3> QED
      BY <1>1, <1>6, <3>1 DEF IsLater
  <2> QED
    BY <2>1 DEF InProgressFollows
<1>8. Remembered'
  BY <1>1, <1>6 DEF Remembered
<1> QED
  BY <1>3, <1>4, <1>5, <1>7, <1>8

(* The check: a command which may proceed is later than the last one of    *)
(* its key, remembered or not.                                             *)
LEMMA ProceedingFollows ==
  ASSUME Options, CmdIInv, NEW key \in Keys, NEW timestamp \in Int,
         MayProceed(CleanUp(container, now), now, key, timestamp)
  PROVE  IsLater(key, timestamp)
<1> DEFINE c == CleanUp(container, now)
           f == FirstKept(container, now)
<1> USE DEF CmdIInv
<1> SUFFICES ASSUME accepted[key] # Never, ~IsEvicted(key)
             PROVE  accepted[key].timestamp < timestamp
  BY DEF IsLater
<1>1. /\ accepted[key].timestamp \in Int /\ accepted[key].at \in Int /\ now \in Int
      /\ GracePeriod \in Nat /\ RecordLifetime \in Nat /\ 2 * GracePeriod < RecordLifetime
  BY Types DEF Options
<1>2. CASE IsFound(c, key)
  <2>1. PICK i \in DOMAIN c : c[i].key = key
    BY <1>2 DEF IsFound
  <2>2. ~(timestamp <= c[i].timestamp)
    BY <2>1 DEF MayProceed, IsReordered
  <2>3. /\ f \in 1 .. Len(container) + 1 /\ i \in 1 .. Len(c)
        /\ Len(c) = Len(container) - f + 1 /\ c[i] = container[f + i - 1]
    <3>1. now \in Int /\ container \in Seq(Records)
      BY DEF CmdTypeOK
    <3>2. /\ f \in 1 .. Len(container) + 1 /\ c \in Seq(Records)
          /\ Len(c) = Len(container) - f + 1
          /\ \A j \in 1 .. Len(c) : c[j] = container[f + j - 1]
      BY <3>1, CleanUpIsSuffix
    <3> HIDE DEF c, f
    <3>3. i \in 1 .. Len(c)
      BY <2>1, <3>2
    <3> QED
      BY <3>2, <3>3
  <2>4. f + i - 1 \in DOMAIN container
    BY <2>3, Types
  <2> HIDE DEF c, f
  <2>5. accepted[key].timestamp = c[i].timestamp
    BY <2>1, <2>3, <2>4, RecordOf
  <2> QED
    BY <1>1, <2>2, <2>5
<1>3. CASE accepted[key].at + RecordLifetime <= now
  <2>1. accepted[key].timestamp <= accepted[key].at + GracePeriod
    BY DEF InTime
  <2>2. now - GracePeriod <= timestamp
    BY DEF MayProceed, InGracePeriod
  <2> QED
    BY <1>1, <1>3, <2>1, <2>2
<1> QED
  BY <1>2, <1>3, DroppedIsForgotten

LEMMA CheckIsGood ==
  ASSUME Options, CmdIInv, NEW v \in Validations, NEW key \in Keys,
         NEW timestamp \in Timestamps, Check(v, key, timestamp)
  PROVE  CmdIInv'
<1> USE DEF CmdIInv
<1> DEFINE c == CleanUp(container, now)
           f == FirstKept(container, now)
<1>1. UNCHANGED <<now, accepted>> /\ container' = c /\ v \notin DOMAIN command
  BY DEF Check
<1>2. now \in Int /\ container \in Seq(Records) /\ timestamp \in Int
  BY DEF CmdTypeOK, Options
<1>3. /\ f \in 1 .. Len(container) + 1 /\ c \in Seq(Records)
      /\ Len(c) = Len(container) - f + 1
      /\ \A i \in 1 .. Len(c) : c[i] = container[f + i - 1]
  BY <1>2, CleanUpIsSuffix
<1>4. \/ UNCHANGED command
      \/ /\ MayProceed(c, now, key, timestamp)
         /\ command' = [w \in DOMAIN command \cup {v} |->
              IF w = v THEN [key |-> key, timestamp |-> timestamp] ELSE command[w]]
  BY <1>1 DEF Check
<1>5. \A w \in DOMAIN command' :
        \/ w \in DOMAIN command /\ command'[w] = command[w]
        \/ /\ w = v /\ command'[w].key = key /\ command'[w].timestamp = timestamp
           /\ MayProceed(c, now, key, timestamp)
  BY <1>4
<1>6. CmdTypeOK'
  <2>1. command' \in [DOMAIN command' -> [key : Keys, timestamp : Int]]
    BY <1>2, <1>4 DEF CmdTypeOK
  <2> QED
    BY <1>1, <1>3, <2>1 DEF CmdTypeOK
<1>7. DOMAIN container' = 1 .. Len(c) /\ Len(container) \in Nat
      /\ DOMAIN container = 1 .. Len(container)
  BY <1>1, <1>2, <1>3
<1> HIDE DEF c, f
<1>8. \A i \in DOMAIN container' :
        f + i - 1 \in DOMAIN container /\ container'[i] = container[f + i - 1]
  BY <1>1, <1>3, <1>7
<1>9. RecordIsLast'
  BY <1>1, <1>8 DEF RecordIsLast
<1>10. OneRecord'
  <2> SUFFICES ASSUME NEW i \in DOMAIN container', NEW j \in DOMAIN container',
                      container'[i].key = container'[j].key
               PROVE  i = j
    BY DEF OneRecord
  <2>1. f + i - 1 = f + j - 1
    BY <1>8 DEF OneRecord
  <2> QED
    BY <2>1, <1>3, <1>7
<1>11. OldestFirst'
  <2> SUFFICES ASSUME NEW i \in DOMAIN container', NEW j \in DOMAIN container', i < j
               PROVE  container'[i].lastRefreshed <= container'[j].lastRefreshed
    BY DEF OldestFirst
  <2>1. f + i - 1 < f + j - 1
    BY <1>3, <1>7
  <2> QED
    BY <2>1, <1>8 DEF OldestFirst
<1>12. OneCommand'
  <2>1. \A w \in DOMAIN command : command[w].key # key
    BY DEF Check, MaySend, Options
  <2> QED
    BY <1>5, <2>1 DEF OneCommand
<1>13. InTime'
  <2>1. MayProceed(c, now, key, timestamp) => timestamp <= now + GracePeriod
    BY DEF MayProceed, InGracePeriod
  <2> QED
    BY <1>1, <1>5, <2>1 DEF InTime
<1>14. \A k \in Keys : IsEvicted(k)' = IsEvicted(k)
  BY <1>1 DEF IsEvicted, UsedSince
<1>15. Remembered'
  <2> SUFFICES ASSUME NEW k \in Keys, accepted[k] # Never
               PROVE  \/ IsFound(c, k)
                      \/ accepted[k].at + RecordLifetime <= now
                      \/ IsEvicted(k)
    BY <1>1, <1>14 DEF Remembered
  <2> QED
    BY DroppedIsForgotten DEF c
<1>16. InProgressFollows'
  <2>1. ASSUME NEW w \in DOMAIN command'
        PROVE  IsLater(command[w].key, command[w].timestamp)'
    <3>1. w \in DOMAIN command /\ command'[w] = command[w]
            => IsLater(command'[w].key, command'[w].timestamp)
      BY DEF InProgressFollows
    <3>2. command'[w].key = key /\ command'[w].timestamp = timestamp
            /\ MayProceed(c, now, key, timestamp)
            => IsLater(command'[w].key, command'[w].timestamp)
      BY <1>2, ProceedingFollows DEF c
    <3>3. command'[w].key \in Keys
      BY <1>6 DEF CmdTypeOK
    <3>4. IsLater(command'[w].key, command'[w].timestamp)
      BY <1>5, <3>1, <3>2
    <3> QED
      BY <1>1, <1>14, <3>3, <3>4 DEF IsLater
  <2> QED
    BY <2>1 DEF InProgressFollows
<1> QED
  BY <1>6, <1>9, <1>10, <1>11, <1>12, <1>13, <1>15, <1>16

LEMMA SucceedIsGood ==
  ASSUME Options, CmdIInv, NEW v \in Validations, Succeed(v)
  PROVE  CmdIInv' /\ \A key \in Keys : Follows(key)
<1> USE DEF CmdIInv
<1> DEFINE key == command[v].key
           timestamp == command[v].timestamp
           record == [key |-> key, timestamp |-> timestamp, lastRefreshed |-> now]
           mark == [timestamp |-> timestamp, at |-> now]
           rest == IF IsFound(container, key)
                   THEN Erased(container, FindByKeyName(container, key)) ELSE container
<1>1. /\ v \in DOMAIN command /\ now' = now
      /\ container' = Append(rest, record)
      /\ accepted' = [accepted EXCEPT ![key] = mark]
      /\ command' = [w \in DOMAIN command \ {v} |-> command[w]]
  BY DEF Succeed, InsertNewRecord
<1>2. now \in Nat /\ key \in Keys /\ timestamp \in Int /\ container \in Seq(Records)
  BY <1>1, Types DEF CmdTypeOK
<1>3. record \in Records /\ record.key = key /\ record.timestamp = timestamp
      /\ record.lastRefreshed = now
  BY <1>2 DEF Records
<1>4. mark \in [timestamp : Int, at : Int] /\ mark.timestamp = timestamp /\ mark.at = now
  BY <1>2
<1>5. /\ accepted'[key] = mark
      /\ \A k \in Keys \ {key} : accepted'[k] = accepted[k]
  BY <1>1, <1>2 DEF CmdTypeOK
<1>6. DOMAIN container = 1 .. Len(container) /\ Len(container) \in Nat
  BY <1>2
(* The other records stay, in their order.                                 *)
<1>7. \E g \in [1 .. Len(rest) -> DOMAIN container] :
        /\ rest \in Seq(Records)
        /\ \A i \in 1 .. Len(rest) : rest[i] = container[g[i]] /\ rest[i].key # key
        /\ \A i, j \in 1 .. Len(rest) : i < j => g[i] < g[j]
        /\ \A k \in DOMAIN container :
             container[k].key # key => \E i \in 1 .. Len(rest) : rest[i] = container[k]
  <2>1. CASE ~IsFound(container, key)
    <3> DEFINE g == [i \in 1 .. Len(container) |-> i]
    <3>1. rest = container /\ \A k \in DOMAIN container : container[k].key # key
      BY <2>1 DEF IsFound
    <3>2. g \in [1 .. Len(rest) -> DOMAIN container]
      BY <3>1, <1>6
    <3> QED
      BY <3>1, <3>2, <1>2, <1>6
  <2>2. CASE IsFound(container, key)
    <3> DEFINE p == FindByKeyName(container, key)
               g == [i \in 1 .. Len(container) - 1 |-> IF i < p THEN i ELSE i + 1]
    <3>1. p \in DOMAIN container /\ container[p].key = key
      BY <2>2 DEF IsFound, FindByKeyName
    <3>2. /\ rest = Erased(container, p)
          /\ rest \in Seq(Records) /\ Len(rest) = Len(container) - 1
          /\ \A i \in 1 .. Len(container) - 1 :
               rest[i] = IF i < p THEN container[i] ELSE container[i + 1]
      BY <2>2, <3>1, <1>2, ErasedRecords
    <3> HIDE DEF rest, p
    <3>3. g \in [1 .. Len(rest) -> DOMAIN container]
      BY <3>1, <3>2, <1>6
    <3>4. \A i \in 1 .. Len(rest) : rest[i] = container[g[i]] /\ g[i] # p
      BY <3>1, <3>2, <1>6
    <3>5. \A i \in 1 .. Len(rest) : rest[i].key # key
      <4> SUFFICES ASSUME NEW i \in 1 .. Len(rest) PROVE rest[i].key # key
        OBVIOUS
      <4>1. g[i] \in DOMAIN container /\ g[i] # p /\ rest[i] = container[g[i]]
        BY <3>3, <3>4
      <4> HIDE DEF g
      <4> QED
        BY <4>1, <3>1 DEF OneRecord
    <3>6. \A i, j \in 1 .. Len(rest) : i < j => g[i] < g[j]
      BY <3>1, <3>2, <1>6
    <3>7. ASSUME NEW k \in DOMAIN container, container[k].key # key
          PROVE  \E i \in 1 .. Len(rest) : rest[i] = container[k]
      <4>1. k # p
        BY <3>1, <3>7
      <4>2. CASE k < p
        BY <4>2, <3>1, <3>2, <1>6
      <4>3. CASE k > p
        <5>1. k - 1 \in 1 .. Len(rest) /\ ~(k - 1 < p) /\ (k - 1) + 1 = k
          BY <4>3, <3>1, <3>2, <1>6
        <5> QED
          BY <5>1, <3>2
      <4> QED
        BY <4>1, <4>2, <4>3, <3>1, <1>6
    <3> HIDE DEF g
    <3>8. \A i \in 1 .. Len(rest) : rest[i] = container[g[i]] /\ rest[i].key # key
      BY <3>4, <3>5
    <3> QED
      BY <3>2, <3>3, <3>6, <3>7, <3>8
  <2> QED
    BY <2>1, <2>2
<1> HIDE DEF rest, record, mark
<1>8. PICK g \in [1 .. Len(rest) -> DOMAIN container] :
        /\ rest \in Seq(Records)
        /\ \A i \in 1 .. Len(rest) : rest[i] = container[g[i]] /\ rest[i].key # key
        /\ \A i, j \in 1 .. Len(rest) : i < j => g[i] < g[j]
        /\ \A k \in DOMAIN container :
             container[k].key # key => \E i \in 1 .. Len(rest) : rest[i] = container[k]
  BY <1>7
<1> DEFINE n == Len(rest)
<1>9. n \in Nat
  BY <1>8
<1>10. /\ container' \in Seq(Records) /\ DOMAIN container' = 1 .. n + 1
       /\ container'[n + 1] = record
       /\ \A i \in 1 .. n : container'[i] = rest[i]
  BY <1>1, <1>3, <1>8
<1> HIDE DEF n, key, timestamp
<1>11. \A i \in DOMAIN container' :
         \/ /\ i \in 1 .. n /\ g[i] \in DOMAIN container /\ container'[i] = container[g[i]]
            /\ container'[i].key # key
         \/ i = n + 1 /\ container'[i] = record
  BY <1>8, <1>9, <1>10 DEF n
<1>12. /\ DOMAIN command' \subseteq DOMAIN command
       /\ \A w \in DOMAIN command' : command'[w] = command[w] /\ command[w].key # key
  <2>1. DOMAIN command' = DOMAIN command \ {v}
        /\ \A w \in DOMAIN command' : command'[w] = command[w]
    BY <1>1
  <2> QED
    BY <2>1, <1>1 DEF OneCommand, key
<1>13. CmdTypeOK'
  <2>1. command' \in [DOMAIN command' -> [key : Keys, timestamp : Int]]
    BY <1>1, <1>12 DEF CmdTypeOK
  <2>2. accepted' \in [Keys -> [timestamp : Int, at : Int]]
    BY <1>1, <1>4 DEF CmdTypeOK
  <2> QED
    BY <1>1, <1>10, <2>1, <2>2 DEF CmdTypeOK
<1>14. RecordIsLast'
  <2> SUFFICES ASSUME NEW i \in DOMAIN container'
               PROVE  accepted'[container'[i].key] =
                        [timestamp |-> container'[i].timestamp,
                         at |-> container'[i].lastRefreshed]
    BY DEF RecordIsLast
  <2>1. CASE container'[i] = record
    <3>1. /\ container'[i].key = key /\ container'[i].timestamp = timestamp
          /\ container'[i].lastRefreshed = now
      BY <2>1, <1>3
    <3> QED
      BY <3>1, <1>5, Zenon DEF mark
  <2>2. CASE g[i] \in DOMAIN container /\ container'[i] = container[g[i]]
             /\ container'[i].key # key
    <3>1. container'[i].key \in Keys
      BY <2>2, Types
    <3> QED
      BY <2>2, <3>1, <1>5 DEF RecordIsLast
  <2> QED
    BY <1>11, <2>1, <2>2
<1>15. OneRecord'
  <2> SUFFICES ASSUME NEW i \in DOMAIN container', NEW j \in DOMAIN container',
                      container'[i].key = container'[j].key
               PROVE  i = j
    BY DEF OneRecord
  <2>1. CASE i = n + 1 \/ j = n + 1
    BY <2>1, <1>3, <1>9, <1>10, <1>11
  <2>2. CASE i \in 1 .. n /\ j \in 1 .. n
    <3>1. g[i] = g[j]
      BY <2>2, <1>9, <1>11 DEF OneRecord
    <3>2. ~(i < j) /\ ~(j < i)
      <4>1. i < j => g[i] < g[j]
        BY <2>2, <1>8 DEF n
      <4>2. j < i => g[j] < g[i]
        BY <2>2, <1>8 DEF n
      <4>3. g[i] \in Int
        BY <2>2, <1>6, <1>8 DEF n
      <4> QED
        BY <3>1, <4>1, <4>2, <4>3
    <3> QED
      BY <2>2, <3>2
  <2> QED
    BY <1>10, <1>11, <2>1, <2>2
<1>16. OldestFirst'
  <2> SUFFICES ASSUME NEW i \in DOMAIN container', NEW j \in DOMAIN container', i < j
               PROVE  container'[i].lastRefreshed <= container'[j].lastRefreshed
    BY DEF OldestFirst
  <2>1. i \in 1 .. n /\ g[i] \in DOMAIN container /\ container'[i] = container[g[i]]
    BY <1>9, <1>10, <1>11
  <2>2. CASE j = n + 1
    <3>1. accepted[container[g[i]].key].at = container[g[i]].lastRefreshed
      BY <2>1, RecordOf
    <3>2. container[g[i]].key \in Keys
      BY <2>1, Types
    <3>3. container[g[i]].lastRefreshed <= now
      BY <3>1, <3>2 DEF InTime
    <3> QED
      BY <2>1, <2>2, <3>3, <1>3, <1>10
  <2>3. CASE j \in 1 .. n
    <3>1. g[i] < g[j] /\ container'[j] = container[g[j]] /\ g[j] \in DOMAIN container
      BY <2>1, <2>3, <1>8, <1>9, <1>11 DEF n
    <3> QED
      BY <2>1, <3>1 DEF OldestFirst
  <2> QED
    BY <2>2, <2>3, <1>9, <1>10
<1>17. OneCommand'
  BY <1>12 DEF OneCommand
<1>18. timestamp <= now + GracePeriod
  BY <1>1 DEF InTime, timestamp
<1>19. InTime'
  <2>1. \A k \in Keys :
          /\ accepted'[k].at <= now
          /\ accepted'[k] # Never =>
               accepted'[k].at \in Nat
               /\ accepted'[k].timestamp <= accepted'[k].at + GracePeriod
    BY <1>2, <1>4, <1>5, <1>18 DEF InTime
  <2> QED
    BY <1>1, <1>12, <2>1 DEF InTime
<1>20. \A k \in Keys : accepted[k].at <= accepted'[k].at
  BY <1>2, <1>4, <1>5, Types DEF InTime
<1>21. \A k \in Keys \ {key} : IsEvicted(k) => IsEvicted(k)'
  BY <1>5, <1>13, <1>20, EvictedStays
<1>22. Remembered'
  <2> SUFFICES ASSUME NEW k \in Keys, accepted'[k] # Never
               PROVE  \/ IsFound(container, k)'
                      \/ accepted'[k].at + RecordLifetime <= now'
                      \/ IsEvicted(k)'
    BY DEF Remembered
  <2>1. CASE k = key
    BY <2>1, <1>3, <1>9, <1>10 DEF IsFound
  <2>2. CASE k # key /\ IsFound(container, k)
    <3>1. PICK j \in DOMAIN container : container[j].key = k
      BY <2>2 DEF IsFound
    <3>2. PICK i \in 1 .. n : container'[i] = container[j]
      BY <2>2, <3>1, <1>8, <1>10 DEF n
    <3> QED
      BY <3>1, <3>2, <1>9, <1>10 DEF IsFound
  <2> QED
    BY <2>1, <2>2, <1>1, <1>5, <1>21 DEF Remembered
<1>23. InProgressFollows'
  <2>1. ASSUME NEW w \in DOMAIN command'
        PROVE  IsLater(command[w].key, command[w].timestamp)'
    <3>1. /\ command'[w] = command[w] /\ command[w].key \in Keys \ {key}
          /\ IsLater(command[w].key, command[w].timestamp)
      BY <1>12, Types DEF InProgressFollows
    <3> QED
      BY <1>5, <1>21, <3>1 DEF IsLater
  <2> QED
    BY <2>1 DEF InProgressFollows
<1>24. \A k \in Keys : Follows(k)
  <2>1. IsLater(key, timestamp)
    BY <1>1 DEF InProgressFollows, key, timestamp
  <2> QED
    BY <2>1, <1>4, <1>5 DEF IsLater, IsEvicted, Follows
<1> QED
  BY <1>13, <1>14, <1>15, <1>16, <1>17, <1>19, <1>22, <1>23, <1>24
-----------------------------------------------------------------------------
(* What is kept of the commands is always so.                              *)
THEOREM CommandsAreKept ==
  ASSUME Options
  PROVE  CmdSpec => []CmdIInv
<1>1. CmdInit => CmdIInv
  BY InitIsGood
<1>2. CmdIInv /\ [CmdNext]_cmdVars => CmdIInv'
  <2> SUFFICES ASSUME CmdIInv, [CmdNext]_cmdVars PROVE CmdIInv'
    OBVIOUS
  <2>1. CASE Tick
    BY <2>1, TickIsGood
  <2>2. ASSUME NEW v \in Validations, Succeed(v) PROVE CmdIInv'
    BY <2>2, SucceedIsGood
  <2>3. ASSUME NEW v \in Validations, Fail(v) PROVE CmdIInv'
    BY <2>3, FailIsGood
  <2>4. ASSUME NEW v \in Validations, NEW key \in Keys, NEW timestamp \in Timestamps,
               Check(v, key, timestamp)
        PROVE  CmdIInv'
    BY <2>4, CheckIsGood
  <2>5. CASE UNCHANGED cmdVars
    BY <2>5 DEF cmdVars, CmdIInv, CmdTypeOK, RecordIsLast, OneRecord, OldestFirst,
      OneCommand, InTime, Remembered, InProgressFollows, IsLater, IsEvicted,
      UsedSince, IsFound
  <2> QED
    BY <2>1, <2>2, <2>3, <2>4, <2>5 DEF CmdNext
<1> QED
  BY <1>1, <1>2, PTL DEF CmdSpec

(* "The command Interest is rejected if its timestamp is less than or      *)
(* equal to the recorded timestamp" (validation-policy-command-interest.hpp *)
(* line 81): the commands that are accepted of a key are in the order of   *)
(* their time stamps.                                                      *)
THEOREM AcceptedInOrder ==
  ASSUME Options
  PROVE  CmdSpec => CommandsInOrder
<1>1. CmdIInv /\ [CmdNext]_cmdVars => [\A key \in Keys : Follows(key)]_cmdVars
  <2> SUFFICES ASSUME CmdIInv, CmdNext PROVE \A key \in Keys : Follows(key)
    OBVIOUS
  <2>1. UNCHANGED accepted => \A key \in Keys : Follows(key)
    BY DEF Follows
  <2>2. ASSUME NEW v \in Validations, Succeed(v) PROVE \A key \in Keys : Follows(key)
    BY <2>2, SucceedIsGood
  <2> QED
    BY <2>1, <2>2 DEF CmdNext, Tick, Fail, Check
<1> QED
  BY <1>1, CommandsAreKept, PTL DEF CmdSpec, CommandsInOrder
=============================================================================
