-------------------------- MODULE CommandInterest --------------------------
(***************************************************************************)
(* The time stamps of command Interests, as                                *)
(* ValidationPolicyCommandInterest keeps them                              *)
(* (src/src/security/v2/validation-policy-command-interest.cpp), with the  *)
(* validation that follows the check left open: it succeeds or fails, at   *)
(* once or later.  A time stamp is in the unit of the clock.               *)
(***************************************************************************)
EXTENDS Integers, Sequences, FiniteSets

CONSTANTS
  Validations,     \* the validations that can be in progress
  Keys,            \* the names of the signers' keys
  Timestamps,      \* the time stamps a signer can put in a command
  GracePeriod,     \* gracePeriod_
  MaxRecords,      \* maxRecords_, negative for no limit
  RecordLifetime,  \* recordLifetime_
  MaxTime,         \* bound: the last time of the clock
  StopAndWait      \* whether a signer waits for the outcome of its command

VARIABLES
  now,        \* ndn_getNowMilliseconds()
  container,  \* container_, the oldest record first
  command,    \* what the validations in progress are about
  accepted    \* of each key the command that was accepted last, and when

cmdVars == <<now, container, command, accepted>>

Never == [timestamp |-> -1, at |-> -1]
-----------------------------------------------------------------------------
(* cleanUp: drop the oldest record while it has expired or there are too   *)
(* many.  The mutant also drops one at the limit.                          *)
AtLimit(n) == MaxRecords >= 0 /\ n >= MaxRecords
TooMany(n) == MaxRecords >= 0 /\ n > MaxRecords
IsDropped(c, k, t) ==
  c[k].lastRefreshed <= t - RecordLifetime \/ TooMany(Len(c) - k + 1)

Stays(c, t) == {k \in 1 .. Len(c) + 1 : k <= Len(c) => ~IsDropped(c, k, t)}
FirstKept(c, t) == CHOOSE k \in Stays(c, t) : \A j \in Stays(c, t) : k <= j
CleanUp(c, t) == SubSeq(c, FirstKept(c, t), Len(c))

(* checkTimestamp.                                                         *)
InGracePeriod(timestamp, t) ==
  t - GracePeriod <= timestamp /\ timestamp <= t + GracePeriod

IsReordered(c, key, timestamp) ==
  \E k \in DOMAIN c : c[k].key = key /\ timestamp <= c[k].timestamp

MayProceed(c, t, key, timestamp) ==
  InGracePeriod(timestamp, t) /\ ~IsReordered(c, key, timestamp)

(* insertNewRecord: the record of the key, if there is one, moves to the   *)
(* end.                                                                    *)
IsFound(c, key) == \E k \in DOMAIN c : c[k].key = key
FindByKeyName(c, key) == CHOOSE k \in DOMAIN c : c[k].key = key
Erased(c, k) == [i \in 1 .. Len(c) - 1 |-> IF i < k THEN c[i] ELSE c[i + 1]]

InsertNewRecord(c, key, timestamp, t) ==
  Append(IF IsFound(c, key) THEN Erased(c, FindByKeyName(c, key)) ELSE c,
         [key |-> key, timestamp |-> timestamp, lastRefreshed |-> t])
-----------------------------------------------------------------------------
CmdInit ==
  /\ now = 0
  /\ container = <<>>
  /\ command = [v \in {} |-> {}]
  /\ accepted = [key \in Keys |-> Never]

(* A signer that stops and waits has one command at a time.                *)
MaySend(key) ==
  StopAndWait => \A v \in DOMAIN command : command[v].key # key

Check(v, key, timestamp) ==
  /\ v \notin DOMAIN command /\ MaySend(key)
  /\ container' = CleanUp(container, now)
  /\ IF MayProceed(container', now, key, timestamp)
     THEN command' = [w \in DOMAIN command \cup {v} |->
            IF w = v THEN [key |-> key, timestamp |-> timestamp] ELSE command[w]]
     ELSE UNCHANGED command
  /\ UNCHANGED <<now, accepted>>

Succeed(v) ==
  /\ v \in DOMAIN command
  /\ LET key == command[v].key
         timestamp == command[v].timestamp IN
     /\ container' = InsertNewRecord(container, key, timestamp, now)
     /\ accepted' = [accepted EXCEPT ![key] = [timestamp |-> timestamp, at |-> now]]
  /\ command' = [w \in DOMAIN command \ {v} |-> command[w]]
  /\ UNCHANGED now

Fail(v) ==
  /\ v \in DOMAIN command
  /\ command' = [w \in DOMAIN command \ {v} |-> command[w]]
  /\ UNCHANGED <<now, container, accepted>>

Tick ==
  /\ now < MaxTime /\ now' = now + 1
  /\ UNCHANGED <<container, command, accepted>>

CmdNext ==
  \/ Tick
  \/ \E v \in Validations :
       \/ Succeed(v) \/ Fail(v)
       \/ \E key \in Keys, timestamp \in Timestamps : Check(v, key, timestamp)

CmdSpec == CmdInit /\ [][CmdNext]_cmdVars
-----------------------------------------------------------------------------
(* "The command Interest is rejected if its timestamp is less than or      *)
(* equal to the recorded timestamp" (validation-policy-command-interest.hpp *)
(* line 81).  So the accepted commands of a key are in the order of their  *)
(* time stamps, and none is accepted twice: also when its record has       *)
(* expired, as the clock is then beyond its grace period, unless as many   *)
(* keys as are recorded were used since.                                   *)
UsedSince(key) == {k \in Keys \ {key} : accepted[k].at >= accepted[key].at}

Follows(key) ==
  \/ accepted[key] \in {Never, accepted'[key]}
  \/ accepted[key].timestamp < accepted'[key].timestamp
  \/ MaxRecords >= 0 /\ Cardinality(UsedSince(key)) >= MaxRecords

CommandsInOrder == [][\A key \in Keys : Follows(key)]_cmdVars
=============================================================================
