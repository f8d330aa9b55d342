-------------------------- MODULE DelayedCallTable --------------------------
(***************************************************************************)
(* The calls which Face::callLater delays and processEvents makes          *)
(* (src/src/impl/delayed-call-table.cpp): the timeouts of Interests and    *)
(* the timers of the utilities.  A callback can delay further calls, run   *)
(* processEvents itself, or throw.                                         *)
(***************************************************************************)
EXTENDS Naturals, Sequences

CONSTANTS
  MaxCalls,  \* bound on the calls that are delayed
  MaxClock,  \* bound on the clock
  Delays,    \* the delays
  MaxDepth   \* bound on the nesting of callTimedOut

ASSUME DelayedCallAssumption ==
  /\ MaxCalls \in Nat /\ MaxClock \in Nat /\ MaxDepth \in Nat
  /\ Delays \subseteq Nat

VARIABLES
  clock,   \* ndn_getNowMilliseconds()
  table,   \* table_
  loops,   \* the callTimedOut being executed, the innermost last: its local
           \* now, and whether it is inside a callback
  added,   \* how many calls were delayed
  called   \* the entries that were called, in order

vars == <<clock, table, loops, added, called>>

Entries == [call : 1 .. MaxCalls, callTime : Nat]
Loops == [now : Nat, busy : BOOLEAN]

TypeOK ==
  /\ clock \in 0 .. MaxClock
  /\ table \in Seq(Entries)
  /\ loops \in Seq(Loops)
  /\ added \in 0 .. MaxCalls
  /\ called \in Seq(Entries)

Init ==
  /\ clock = 0 /\ table = <<>> /\ loops = <<>> /\ added = 0 /\ called = <<>>

Innermost == loops[Len(loops)]
IsBusy(busy) == loops # <<>> /\ Innermost.busy = busy
CodeRuns == loops = <<>> \/ IsBusy(TRUE)

-----------------------------------------------------------------------------
(* lower_bound: the first position whose entry is not earlier.  An entry   *)
(* goes in front of those with the same time.  The mutant takes the back.  *)
IsLowerBound(k, time) ==
  /\ \A i \in 1 .. k - 1 : table[i].callTime < time
  /\ k <= Len(table) => time <= table[k].callTime

LowerBound(time) == CHOOSE k \in 1 .. Len(table) + 1 : IsLowerBound(k, time)

InsertAt(k, entry) ==
  SubSeq(table, 1, k - 1) \o <<entry>> \o SubSeq(table, k, Len(table))

InsertAtBack(entry) == Append(table, entry)
Insert(entry) == InsertAt(LowerBound(entry.callTime), entry)

CallLater(delay) ==
  /\ CodeRuns
  /\ added < MaxCalls
  /\ added' = added + 1
  /\ table' = Insert([call |-> added + 1, callTime |-> clock + delay])
  /\ UNCHANGED <<clock, loops, called>>

CallTimedOut ==
  /\ CodeRuns /\ Len(loops) < MaxDepth
  /\ loops' = Append(loops, [now |-> clock, busy |-> FALSE])
  /\ UNCHANGED <<clock, table, added, called>>

(* callTimedOut reads the clock once.  The mutants leave the last entry,   *)
(* and do not erase the entry before they call.                            *)
HasSecond == Len(table) > 1
HasFront == table # <<>>
IsDue == HasFront /\ Head(table).callTime <= Innermost.now

EraseNothing == table
Erase == Tail(table)

(* The entry is erased before its callback is called.                      *)
CallNext ==
  /\ IsBusy(FALSE) /\ IsDue
  /\ table' = Erase
  /\ called' = Append(called, Head(table))
  /\ loops' = [loops EXCEPT ![Len(loops)].busy = TRUE]
  /\ UNCHANGED <<clock, added>>

CallbackReturns ==
  /\ IsBusy(TRUE)
  /\ loops' = [loops EXCEPT ![Len(loops)].busy = FALSE]
  /\ UNCHANGED <<clock, table, added, called>>

Leave ==
  /\ loops' = SubSeq(loops, 1, Len(loops) - 1)
  /\ UNCHANGED <<clock, table, added, called>>

(* The exception leaves callTimedOut.                                      *)
CallbackThrows == IsBusy(TRUE) /\ Leave
LoopEnds == IsBusy(FALSE) /\ ~IsDue /\ Leave

(* The clock is the time of day.  Here it only goes forward.               *)
Tick ==
  /\ clock < MaxClock
  /\ clock' = clock + 1
  /\ UNCHANGED <<table, loops, added, called>>

Next ==
  \/ \E delay \in Delays : CallLater(delay)
  \/ CallTimedOut \/ CallNext \/ CallbackReturns \/ CallbackThrows \/ LoopEnds
  \/ Tick

Spec == Init /\ [][Next]_vars

(* Time passes, the application keeps calling processEvents and its        *)
(* callbacks end.                                                          *)
FairSpec ==
  /\ Spec
  /\ WF_vars(Tick) /\ WF_vars(CallNext) /\ WF_vars(LoopEnds)
  /\ WF_vars(CallbackReturns \/ CallbackThrows)
  /\ WF_vars(loops = <<>> /\ CallTimedOut)

-----------------------------------------------------------------------------
(* callTimedOut looks at the front only: that is enough because every      *)
(* callLater, also one in a callback, keeps the table sorted.              *)
IsSorted ==
  \A i, j \in DOMAIN table : i < j => table[i].callTime <= table[j].callTime

(* Whatever callbacks delay and throw, a call is not lost and not made     *)
(* twice: each is in the table, or was called, and only once.              *)
EachCallOnce ==
  LET all == table \o called
  IN  /\ \A i, j \in DOMAIN all : i # j => all[i].call # all[j].call
      /\ Len(all) = added

(* Calls are made in the order of their times, also across nested and      *)
(* interrupted executions of callTimedOut.                                 *)
CalledInOrder ==
  \A i, j \in DOMAIN called : i < j => called[i].callTime <= called[j].callTime

(* Each delayed call is made.                                              *)
EveryCallIsMade ==
  \A c \in 1 .. MaxCalls :
    (\E i \in DOMAIN table : table[i].call = c /\ table[i].callTime <= MaxClock)
      ~> (\E i \in DOMAIN called : called[i].call = c)
=============================================================================
