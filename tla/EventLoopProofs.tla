--------------------------- MODULE EventLoopProofs ---------------------------
(***************************************************************************)
(* The two components that Face::processEvents drives.  The delayed call   *)
(* table is always sorted, and calls are made once and in the order of     *)
(* their times, for any delays and any nesting.  The element reader        *)
(* reports the elements of the stream whole and in order, for any elements *)
(* and any way in which they are cut into pieces.                          *)
(***************************************************************************)
EXTENDS DelayedCallTable, ElementReader, TLAPS, SequenceTheorems, WellFoundedInduction

(* A set of positions has a first one.                                     *)
LEMMA FirstPosition ==
  ASSUME NEW T, T \subseteq Nat, T # {}
  PROVE  \E x \in T : \A y \in T : x <= y
<1> DEFINE R == OpToRel(<, Nat)
<1>1. PICK x \in T : \A y \in T : <<y, x>> \notin R
  BY NatLessThanWellFounded, WFMin
<1>2. \A y \in T : ~(y < x)
  BY <1>1 DEF OpToRel
<1> QED
  BY <1>2

(* All that was called is due, and not later than anything that waits.     *)
CalledBefore ==
  /\ \A i \in DOMAIN called : called[i].callTime <= clock
  /\ \A k \in DOMAIN loops : loops[k].now <= clock
  /\ \A i \in DOMAIN called, j \in DOMAIN table :
       called[i].callTime <= table[j].callTime

OrderInv == TypeOK /\ IsSorted /\ CalledBefore /\ CalledInOrder

LEMMA Types ==
  ASSUME TypeOK
  PROVE  /\ clock \in Nat /\ added \in Nat
         /\ Len(table) \in Nat /\ DOMAIN table = 1 .. Len(table)
         /\ Len(called) \in Nat /\ DOMAIN called = 1 .. Len(called)
         /\ Len(loops) \in Nat /\ DOMAIN loops = 1 .. Len(loops)
         /\ \A i \in DOMAIN table : table[i] \in Entries /\ table[i].callTime \in Nat
         /\ \A i \in DOMAIN called : called[i] \in Entries /\ called[i].callTime \in Nat
         /\ \A i \in DOMAIN loops : loops[i] \in Loops /\ loops[i].now \in Nat
<1>1. \A i \in DOMAIN table : table[i] \in Entries
  BY DEF TypeOK
<1>2. \A i \in DOMAIN called : called[i] \in Entries
  BY DEF TypeOK
<1>3. \A i \in DOMAIN loops : loops[i] \in Loops
  BY DEF TypeOK
<1> QED
  BY <1>1, <1>2, <1>3, DelayedCallAssumption DEF TypeOK, Entries, Loops

(* In a sorted table or not, there is a first position which is not        *)
(* earlier: the end, if no other.                                          *)
LEMMA LowerBoundExists ==
  ASSUME TypeOK, NEW time \in Nat
  PROVE  /\ LowerBound(time) \in 1 .. Len(table) + 1
         /\ IsLowerBound(LowerBound(time), time)
<1> DEFINE T == {k \in 1 .. Len(table) + 1 :
                   k <= Len(table) => time <= table[k].callTime}
<1>1. Len(table) \in Nat /\ DOMAIN table = 1 .. Len(table)
      /\ \A i \in DOMAIN table : table[i].callTime \in Nat
  BY Types
<1>2. Len(table) + 1 \in T /\ T \subseteq Nat
  BY <1>1
<1>3. PICK k \in T : \A y \in T : k <= y
  BY <1>2, FirstPosition
<1>4. \A i \in 1 .. k - 1 : table[i].callTime < time
  <2> TAKE i \in 1 .. k - 1
  <2>1. i \in 1 .. Len(table) /\ i < k
    BY <1>1, <1>3
  <2>2. i \notin T
    BY <1>1, <1>3, <2>1
  <2> QED
    BY <1>1, <2>1, <2>2
<1>5. k \in 1 .. Len(table) + 1 /\ IsLowerBound(k, time)
  BY <1>3, <1>4 DEF IsLowerBound
<1> QED
  BY <1>5 DEF LowerBound

(* What Insert does to the table, position by position.                    *)
LEMMA InsertElements ==
  ASSUME TypeOK, NEW entry \in Entries, NEW k \in 1 .. Len(table) + 1,
         NEW new, new = InsertAt(k, entry)
  PROVE  /\ new \in Seq(Entries)
         /\ Len(new) = Len(table) + 1
         /\ \A i \in 1 .. Len(table) + 1 :
              new[i] = IF i < k THEN table[i]
                       ELSE IF i = k THEN entry ELSE table[i - 1]
<1>1. Len(table) \in Nat /\ DOMAIN table = 1 .. Len(table)
      /\ \A i \in 1 .. Len(table) : table[i] \in Entries
  BY Types
<1> DEFINE front == SubSeq(table, 1, k - 1)
           rest == SubSeq(table, k, Len(table))
<1>2. /\ front \in Seq(Entries) /\ Len(front) = k - 1
      /\ \A i \in 1 .. k - 1 : front[i] = table[i]
  <2>1. \A i \in 1 .. k - 1 : table[i] \in Entries
    BY <1>1
  <2>2. 1 \in Int /\ k - 1 \in Int
    OBVIOUS
  <2> HIDE DEF front
  <2>3. /\ front \in Seq(Entries)
        /\ Len(front) = IF 1 <= k - 1 THEN k - 1 - 1 + 1 ELSE 0
        /\ \A i \in 1 .. k - 1 - 1 + 1 : front[i] = table[1 + i - 1]
    BY <2>1, <2>2, SubSeqProperties DEF front
  <2>4. k - 1 - 1 + 1 = k - 1 /\ (~(1 <= k - 1) => k - 1 = 0)
    BY <1>1
  <2>5. Len(front) = k - 1
    BY <2>3, <2>4
  <2>6. ASSUME NEW i \in 1 .. k - 1
        PROVE  front[i] = table[i]
    <3>1. 1 + i - 1 = i
      BY <1>1
    <3> QED
      BY <2>3, <2>4, <3>1
  <2> QED
    BY <2>3, <2>5, <2>6
<1>3. /\ rest \in Seq(Entries) /\ Len(rest) = Len(table) - k + 1
      /\ \A i \in 1 .. Len(table) - k + 1 : rest[i] = table[k + i - 1]
  <2>1. \A i \in k .. Len(table) : table[i] \in Entries
    BY <1>1
  <2>2. k \in Int /\ Len(table) \in Int
    BY <1>1
  <2> HIDE DEF rest
  <2>3. /\ rest \in Seq(Entries)
        /\ Len(rest) = IF k <= Len(table) THEN Len(table) - k + 1 ELSE 0
        /\ \A i \in 1 .. Len(table) - k + 1 : rest[i] = table[k + i - 1]
    BY <2>1, <2>2, SubSeqProperties DEF rest
  <2> QED
    BY <1>1, <2>3
<1> DEFINE head == front \o <<entry>>
<1>4. <<entry>> \in Seq(Entries) /\ Len(<<entry>>) = 1 /\ <<entry>>[1] = entry
  OBVIOUS
<1> HIDE DEF front, rest
<1>5. /\ head \in Seq(Entries) /\ Len(head) = k
      /\ \A i \in 1 .. k : head[i] = IF i <= k - 1 THEN front[i] ELSE entry
  <2>1. /\ head \in Seq(Entries)
        /\ Len(head) = Len(front) + Len(<<entry>>)
        /\ \A i \in 1 .. Len(front) + Len(<<entry>>) :
             head[i] = IF i <= Len(front) THEN front[i]
                       ELSE <<entry>>[i - Len(front)]
    BY <1>2, <1>4, ConcatProperties
  <2> HIDE DEF head
  <2>2. \A i \in 1 .. k : i <= k - 1 \/ i - (k - 1) = 1
    BY <1>1
  <2> QED
    BY <1>1, <1>2, <1>4, <2>1, <2>2
<1>6. new = head \o rest
  BY DEF front, rest, InsertAt
<1> HIDE DEF head
<1>7. /\ head \o rest \in Seq(Entries)
      /\ Len(head \o rest) = Len(head) + Len(rest)
      /\ \A i \in 1 .. Len(head) + Len(rest) :
           (head \o rest)[i] =
             IF i <= Len(head) THEN head[i] ELSE rest[i - Len(head)]
  BY <1>3, <1>5, ConcatProperties
<1>8. Len(head) + Len(rest) = Len(table) + 1
  BY <1>1, <1>3, <1>5
<1>9. ASSUME NEW i \in 1 .. Len(table) + 1
      PROVE  new[i] = IF i < k THEN table[i]
                      ELSE IF i = k THEN entry ELSE table[i - 1]
  <2>1. new[i] = IF i <= k THEN head[i] ELSE rest[i - k]
    BY <1>5, <1>6, <1>7, <1>8
  <2>2. CASE i < k
    <3>1. i <= k /\ i <= k - 1 /\ i \in 1 .. k /\ i \in 1 .. k - 1
      BY <1>1, <2>2
    <3> QED
      BY <1>2, <1>5, <2>1, <2>2, <3>1
  <2>3. CASE i = k
    <3>1. i <= k /\ ~(i <= k - 1) /\ i \in 1 .. k /\ ~(i < k)
      BY <1>1, <2>3
    <3> QED
      BY <1>5, <2>1, <2>3, <3>1
  <2>4. CASE k < i
    <3>1. /\ ~(i <= k) /\ ~(i < k) /\ i # k
          /\ i - k \in 1 .. Len(table) - k + 1 /\ k + (i - k) - 1 = i - 1
      BY <1>1, <2>4
    <3> QED
      BY <1>3, <2>1, <3>1
  <2> QED
    BY <1>1, <2>2, <2>3, <2>4
<1> QED
  BY <1>6, <1>7, <1>8, <1>9

(* Insert keeps the table sorted, and puts no entry in front of one that   *)
(* is earlier: what waits is the entry or waited before.                   *)
LEMMA InsertSorts ==
  ASSUME TypeOK, IsSorted, NEW entry \in Entries,
         NEW new, new = Insert(entry)
  PROVE  /\ new \in Seq(Entries)
         /\ \A i, j \in DOMAIN new : i < j => new[i].callTime <= new[j].callTime
         /\ \A i \in DOMAIN new :
              new[i] = entry \/ \E j \in DOMAIN table : new[i] = table[j]
<1> DEFINE k == LowerBound(entry.callTime)
<1>1. /\ Len(table) \in Nat /\ DOMAIN table = 1 .. Len(table)
      /\ \A i \in 1 .. Len(table) : table[i].callTime \in Nat
  BY Types
<1>2. entry.callTime \in Nat
  BY DEF Entries
<1>3. k \in 1 .. Len(table) + 1 /\ IsLowerBound(k, entry.callTime)
  BY <1>2, LowerBoundExists
<1>4. new = InsertAt(k, entry)
  BY DEF Insert
<1> HIDE DEF k
<1>5. /\ new \in Seq(Entries) /\ Len(new) = Len(table) + 1
      /\ \A i \in 1 .. Len(table) + 1 :
           new[i] = IF i < k THEN table[i]
                    ELSE IF i = k THEN entry ELSE table[i - 1]
  BY <1>3, <1>4, InsertElements
<1>6. DOMAIN new = 1 .. Len(table) + 1
  BY <1>5
<1>7. /\ \A i \in 1 .. k - 1 : table[i].callTime < entry.callTime
      /\ \A i \in 1 .. Len(table) : i >= k => entry.callTime <= table[i].callTime
  <2>1. /\ \A i \in 1 .. k - 1 : table[i].callTime < entry.callTime
        /\ k <= Len(table) => entry.callTime <= table[k].callTime
    BY <1>3 DEF IsLowerBound
  <2>2. ASSUME NEW i \in 1 .. Len(table), i >= k
        PROVE  entry.callTime <= table[i].callTime
    <3>1. k \in 1 .. Len(table) /\ (i = k \/ k < i)
      BY <1>1, <1>3, <2>2
    <3>2. table[k].callTime <= table[i].callTime
      BY <1>1, <3>1 DEF IsSorted
    <3> QED
      BY <1>1, <1>2, <2>1, <3>1, <3>2
  <2> QED
    BY <2>1, <2>2
<1>8. ASSUME NEW i \in 1 .. Len(table) + 1, NEW j \in 1 .. Len(table) + 1, i < j
      PROVE  new[i].callTime <= new[j].callTime
  <2>1. CASE j < k
    <3>1. i < k /\ i \in 1 .. Len(table) /\ j \in 1 .. Len(table)
      BY <1>1, <1>3, <1>8, <2>1
    <3>2. new[i] = table[i] /\ new[j] = table[j]
      BY <1>5, <2>1, <3>1
    <3> QED
      BY <1>1, <1>8, <3>1, <3>2 DEF IsSorted
  <2>2. CASE j = k
    <3>1. i < k /\ i \in 1 .. k - 1 /\ i \in 1 .. Len(table) /\ ~(j < k)
      BY <1>1, <1>3, <1>8, <2>2
    <3>2. new[i] = table[i] /\ new[j] = entry
      BY <1>5, <2>2, <3>1
    <3> QED
      BY <1>1, <1>2, <1>7, <3>1, <3>2
  <2>3. CASE k < j /\ i < k
    <3>1. /\ i \in 1 .. k - 1 /\ i \in 1 .. Len(table)
          /\ j - 1 \in 1 .. Len(table) /\ j - 1 >= k /\ ~(j < k) /\ j # k
      BY <1>1, <1>3, <2>3
    <3>2. new[i] = table[i] /\ new[j] = table[j - 1]
      BY <1>5, <2>3, <3>1
    <3>3. table[i].callTime < entry.callTime
          /\ entry.callTime <= table[j - 1].callTime
      BY <1>7, <3>1
    <3> QED
      BY <1>1, <1>2, <3>1, <3>2, <3>3
  <2>4. CASE k < j /\ i = k
    <3>1. j - 1 \in 1 .. Len(table) /\ j - 1 >= k /\ ~(j < k) /\ j # k /\ ~(i < k)
      BY <1>1, <1>3, <2>4
    <3>2. new[i] = entry /\ new[j] = table[j - 1]
      BY <1>5, <2>4, <3>1
    <3> QED
      BY <1>7, <3>1, <3>2
  <2>5. CASE k < j /\ k < i
    <3>1. /\ j - 1 \in 1 .. Len(table) /\ i - 1 \in 1 .. Len(table)
          /\ i - 1 < j - 1 /\ ~(j < k) /\ j # k /\ ~(i < k) /\ i # k
      BY <1>1, <1>3, <1>8, <2>5
    <3>2. new[i] = table[i - 1] /\ new[j] = table[j - 1]
      BY <1>5, <3>1
    <3> QED
      BY <1>1, <3>1, <3>2 DEF IsSorted
  <2> QED
    BY <1>1, <1>3, <2>1, <2>2, <2>3, <2>4, <2>5
<1>9. ASSUME NEW i \in 1 .. Len(table) + 1
      PROVE  new[i] = entry \/ \E j \in 1 .. Len(table) : new[i] = table[j]
  <2>1. CASE i < k
    <3>1. i \in 1 .. Len(table)
      BY <1>1, <1>3, <2>1
    <3> QED
      BY <1>5, <2>1, <3>1
  <2>2. CASE i = k
    BY <1>1, <1>3, <1>5, <2>2
  <2>3. CASE k < i
    <3>1. i - 1 \in 1 .. Len(table) /\ ~(i < k) /\ i # k
      BY <1>1, <1>3, <2>3
    <3> QED
      BY <1>5, <3>1
  <2> QED
    BY <1>1, <1>3, <2>1, <2>2, <2>3
<1> QED
  BY <1>1, <1>5, <1>6, <1>8, <1>9

(* A new entry is not earlier than the clock, so not than what was called. *)
LEMMA CallLaterPreserves ==
  ASSUME OrderInv, NEW delay \in Delays, CallLater(delay)
  PROVE  OrderInv'
<1> DEFINE entry == [call |-> added + 1, callTime |-> clock + delay]
<1>1. TypeOK /\ IsSorted /\ CalledBefore /\ CalledInOrder
  BY DEF OrderInv
<1>2. /\ clock \in Nat /\ delay \in Nat
      /\ added + 1 \in 1 .. MaxCalls /\ added' = added + 1
      /\ DOMAIN table = 1 .. Len(table)
      /\ \A i \in DOMAIN table : table[i].callTime \in Nat
      /\ \A i \in DOMAIN called : called[i].callTime \in Nat
  BY <1>1, Types, DelayedCallAssumption DEF CallLater, TypeOK
<1>3. /\ entry \in Entries /\ entry.callTime = clock + delay
      /\ clock <= entry.callTime
  BY <1>2 DEF Entries
<1>4. table' = Insert(entry) /\ UNCHANGED <<clock, loops, called>>
  BY DEF CallLater
<1> HIDE DEF entry
<1>5. /\ table' \in Seq(Entries)
      /\ \A i, j \in DOMAIN table' :
           i < j => table'[i].callTime <= table'[j].callTime
      /\ \A i \in DOMAIN table' :
           table'[i] = entry \/ \E j \in DOMAIN table : table'[i] = table[j]
  BY <1>1, <1>3, <1>4, InsertSorts
<1>6. TypeOK'
  BY <1>1, <1>2, <1>4, <1>5, DelayedCallAssumption DEF TypeOK
<1>7. ASSUME NEW i \in DOMAIN called, NEW j \in DOMAIN table'
      PROVE  called[i].callTime <= table'[j].callTime
  <2>1. called[i].callTime <= clock
    BY <1>1 DEF CalledBefore
  <2>2. CASE table'[j] = entry
    BY <1>2, <1>3, <2>1, <2>2
  <2>3. CASE \E l \in DOMAIN table : table'[j] = table[l]
    BY <1>1, <2>3 DEF CalledBefore
  <2> QED
    BY <1>5, <2>2, <2>3
<1>8. CalledBefore'
  BY <1>1, <1>4, <1>7 DEF CalledBefore
<1> QED
  BY <1>1, <1>4, <1>5, <1>6, <1>8 DEF OrderInv, IsSorted, CalledInOrder

(* The entry that is called is not later than any which waits.             *)
LEMMA CallNextPreserves ==
  ASSUME OrderInv, CallNext
  PROVE  OrderInv'
<1> DEFINE n == Len(called)
<1>1. TypeOK /\ IsSorted /\ CalledBefore /\ CalledInOrder
  BY DEF OrderInv
<1>2. /\ clock \in Nat
      /\ Len(table) \in Nat /\ DOMAIN table = 1 .. Len(table)
      /\ n \in Nat /\ DOMAIN called = 1 .. n
      /\ Len(loops) \in Nat /\ DOMAIN loops = 1 .. Len(loops)
      /\ \A i \in 1 .. Len(table) : table[i] \in Entries /\ table[i].callTime \in Nat
      /\ \A i \in 1 .. n : called[i] \in Entries /\ called[i].callTime \in Nat
      /\ \A i \in 1 .. Len(loops) : loops[i] \in Loops /\ loops[i].now \in Nat
  BY <1>1, Types
<1>3. /\ loops # <<>> /\ table # <<>>
      /\ Head(table).callTime <= loops[Len(loops)].now
      /\ table' = Tail(table) /\ called' = Append(called, Head(table))
      /\ loops' = [loops EXCEPT ![Len(loops)].busy = TRUE]
      /\ UNCHANGED <<clock, added>>
  BY DEF CallNext, IsBusy, IsDue, HasFront, Erase, Innermost
<1>4. /\ Len(table) >= 1 /\ Head(table) = table[1]
      /\ table' \in Seq(Entries) /\ Len(table') = Len(table) - 1
      /\ DOMAIN table' = 1 .. Len(table) - 1
      /\ \A j \in 1 .. Len(table) - 1 : table'[j] = table[j + 1]
  BY <1>1, <1>2, <1>3 DEF TypeOK
<1>5. /\ called' \in Seq(Entries) /\ DOMAIN called' = 1 .. n + 1
      /\ called'[n + 1] = table[1]
      /\ \A i \in 1 .. n : called'[i] = called[i]
  BY <1>1, <1>2, <1>3, <1>4 DEF TypeOK
<1>6. /\ loops' \in Seq(Loops) /\ DOMAIN loops' = DOMAIN loops
      /\ \A k \in DOMAIN loops : loops'[k].now = loops[k].now
  <2>1. Len(loops) \in DOMAIN loops
    BY <1>1, <1>2, <1>3 DEF TypeOK
  <2>2. loops \in Seq(Loops)
    BY <1>1 DEF TypeOK
  <2>3. [loops[Len(loops)] EXCEPT !.busy = TRUE] \in Loops
        /\ [loops[Len(loops)] EXCEPT !.busy = TRUE].now = loops[Len(loops)].now
    BY <1>2, <2>1 DEF Loops
  <2>4. loops' = [loops EXCEPT ![Len(loops)] =
                    [loops[Len(loops)] EXCEPT !.busy = TRUE]]
    BY <1>3
  <2> QED
    BY <1>2, <2>1, <2>2, <2>3, <2>4
<1>7. TypeOK'
  BY <1>1, <1>3, <1>4, <1>5, <1>6 DEF TypeOK
<1>8. table[1].callTime <= clock
  <2>1. loops[Len(loops)].now <= clock /\ Len(loops) \in 1 .. Len(loops)
    BY <1>1, <1>2, <1>3 DEF CalledBefore, TypeOK
  <2> QED
    BY <1>2, <1>3, <1>4, <2>1
<1>9. \A j \in 1 .. Len(table) : table[1].callTime <= table[j].callTime
  BY <1>1, <1>2, <1>4 DEF IsSorted
<1> HIDE DEF n
<1>10. IsSorted'
  <2> SUFFICES ASSUME NEW i \in 1 .. Len(table) - 1,
                      NEW j \in 1 .. Len(table) - 1, i < j
               PROVE  table'[i].callTime <= table'[j].callTime
    BY <1>4 DEF IsSorted
  <2>1. /\ i + 1 \in 1 .. Len(table) /\ j + 1 \in 1 .. Len(table)
        /\ i + 1 < j + 1
    BY <1>2
  <2>2. table[i + 1].callTime <= table[j + 1].callTime
    BY <1>1, <1>2, <2>1 DEF IsSorted
  <2> QED
    BY <1>4, <2>2
<1>11. ASSUME NEW i \in 1 .. n + 1
       PROVE  called'[i].callTime <= clock
  <2>1. CASE i = n + 1
    BY <1>5, <1>8, <2>1
  <2>2. CASE i \in 1 .. n
    BY <1>1, <1>2, <1>5, <2>2 DEF CalledBefore
  <2> QED
    BY <1>2, <2>1, <2>2
<1>12. ASSUME NEW i \in 1 .. n + 1, NEW j \in 1 .. Len(table) - 1
       PROVE  called'[i].callTime <= table'[j].callTime
  <2>1. j + 1 \in 1 .. Len(table) /\ table'[j] = table[j + 1]
    BY <1>2, <1>4
  <2>2. CASE i = n + 1
    BY <1>5, <1>9, <2>1, <2>2
  <2>3. CASE i \in 1 .. n
    BY <1>1, <1>2, <1>5, <2>1, <2>3 DEF CalledBefore
  <2> QED
    BY <1>2, <2>2, <2>3
<1>13. CalledBefore'
  BY <1>1, <1>3, <1>4, <1>5, <1>6, <1>11, <1>12 DEF CalledBefore
<1>14. CalledInOrder'
  <2> SUFFICES ASSUME NEW i \in 1 .. n + 1, NEW j \in 1 .. n + 1, i < j
               PROVE  called'[i].callTime <= called'[j].callTime
    BY <1>5 DEF CalledInOrder
  <2>1. i \in 1 .. n
    BY <1>2
  <2>2. CASE j = n + 1
    <3>1. called[i].callTime <= table[1].callTime
      BY <1>1, <1>2, <1>4, <2>1 DEF CalledBefore
    <3> QED
      BY <1>5, <2>1, <2>2, <3>1
  <2>3. CASE j \in 1 .. n
    BY <1>1, <1>2, <1>5, <2>1, <2>3 DEF CalledInOrder
  <2>4. n \in Nat
    BY <1>2
  <2>5. j = n + 1 \/ j \in 1 .. n
    BY <2>4
  <2> QED
    BY <2>2, <2>3, <2>5
<1> QED
  BY <1>7, <1>10, <1>13, <1>14 DEF OrderInv

(* The other steps change neither the table nor what was called.           *)
LEMMA OtherPreserves ==
  ASSUME OrderInv,
         CallTimedOut \/ CallbackReturns \/ CallbackThrows \/ LoopEnds \/ Tick
  PROVE  OrderInv'
<1>1. TypeOK /\ IsSorted /\ CalledBefore /\ CalledInOrder
  BY DEF OrderInv
<1>2. UNCHANGED <<table, called, added>>
  BY DEF CallTimedOut, CallbackReturns, CallbackThrows, LoopEnds, Leave, Tick
<1>3. /\ clock \in Nat /\ Len(loops) \in Nat /\ DOMAIN loops = 1 .. Len(loops)
      /\ \A i \in 1 .. Len(loops) : loops[i] \in Loops /\ loops[i].now \in Nat
      /\ \A i \in DOMAIN called : called[i].callTime \in Nat
  BY <1>1, Types
<1>4. clock' \in 0 .. MaxClock /\ clock <= clock'
  <2>1. clock' = clock \/ (clock < MaxClock /\ clock' = clock + 1)
    BY DEF CallTimedOut, CallbackReturns, CallbackThrows, LoopEnds, Leave, Tick
  <2>2. clock \in 0 .. MaxClock /\ MaxClock \in Nat
    BY <1>1, DelayedCallAssumption DEF TypeOK
  <2> QED
    BY <2>1, <2>2
<1>5. loops' \in Seq(Loops) /\ \A k \in DOMAIN loops' : loops'[k].now <= clock'
  <2>1. \A k \in DOMAIN loops : loops[k].now <= clock
    BY <1>1 DEF CalledBefore
  <2>2. CASE CallTimedOut
    <3>1. /\ loops' = Append(loops, [now |-> clock, busy |-> FALSE])
          /\ clock' = clock
      BY <2>2 DEF CallTimedOut
    <3>2. [now |-> clock, busy |-> FALSE] \in Loops
      BY <1>3 DEF Loops
    <3>3. /\ loops' \in Seq(Loops) /\ DOMAIN loops' = 1 .. Len(loops) + 1
          /\ loops'[Len(loops) + 1] = [now |-> clock, busy |-> FALSE]
          /\ \A k \in 1 .. Len(loops) : loops'[k] = loops[k]
      BY <1>1, <1>3, <3>1, <3>2 DEF TypeOK
    <3>4. ASSUME NEW k \in 1 .. Len(loops) + 1
          PROVE  loops'[k].now <= clock
      <4>1. CASE k = Len(loops) + 1
        BY <1>3, <3>3, <4>1
      <4>2. CASE k \in 1 .. Len(loops)
        BY <1>3, <2>1, <3>3, <4>2
      <4> QED
        BY <1>3, <4>1, <4>2
    <3> QED
      BY <3>1, <3>3, <3>4
  <2>3. CASE CallbackReturns
    <3>1. /\ loops' = [loops EXCEPT ![Len(loops)].busy = FALSE]
          /\ loops # <<>> /\ clock' = clock
      BY <2>3 DEF CallbackReturns, IsBusy
    <3>2. Len(loops) \in DOMAIN loops
      BY <1>1, <1>3, <3>1 DEF TypeOK
    <3>3. [loops[Len(loops)] EXCEPT !.busy = FALSE] \in Loops
          /\ [loops[Len(loops)] EXCEPT !.busy = FALSE].now = loops[Len(loops)].now
      BY <1>3, <3>2 DEF Loops
    <3>4. loops' = [loops EXCEPT ![Len(loops)] =
                      [loops[Len(loops)] EXCEPT !.busy = FALSE]]
      BY <3>1
    <3>5. loops' \in Seq(Loops) /\ DOMAIN loops' = DOMAIN loops
      BY <1>1, <1>3, <3>2, <3>3, <3>4 DEF TypeOK
    <3>6. \A k \in DOMAIN loops : loops'[k].now = loops[k].now
      BY <1>1, <1>3, <3>2, <3>3, <3>4 DEF TypeOK
    <3> QED
      BY <2>1, <3>1, <3>5, <3>6
  <2>4. CASE CallbackThrows \/ LoopEnds
    <3>1. /\ loops' = SubSeq(loops, 1, Len(loops) - 1)
          /\ loops # <<>> /\ clock' = clock
      BY <2>4 DEF CallbackThrows, LoopEnds, Leave, IsBusy
    <3>2. Len(loops) >= 1
      BY <1>1, <1>3, <3>1 DEF TypeOK
    <3>2a. Len(loops) - 1 \in 1 .. Len(loops) \/ Len(loops) - 1 = 0
      BY <1>3, <3>2
    <3>2b. loops \in Seq(Loops)
      BY <1>1 DEF TypeOK
    <3>3. /\ loops' \in Seq(Loops) /\ DOMAIN loops' = 1 .. Len(loops) - 1
          /\ \A k \in 1 .. Len(loops) - 1 : loops'[k] = loops[k]
      BY <1>3, <3>1, <3>2, <3>2a, <3>2b
    <3> QED
      BY <1>3, <2>1, <3>1, <3>3
  <2>5. CASE Tick
    <3>1. loops' = loops /\ clock' = clock + 1
      BY <2>5 DEF Tick
    <3> QED
      BY <1>1, <1>3, <2>1, <3>1 DEF TypeOK
  <2> QED
    BY <2>2, <2>3, <2>4, <2>5
<1>6. TypeOK'
  <2>1. loops' \in Seq(Loops)
    BY <1>5
  <2> QED
    BY <1>1, <1>2, <1>4, <2>1 DEF TypeOK
<1>7. CalledBefore'
  <2>1. \A i \in DOMAIN called : called[i].callTime <= clock'
    BY <1>1, <1>3, <1>4 DEF CalledBefore
  <2> QED
    BY <1>1, <1>2, <1>5, <2>1 DEF CalledBefore
<1> QED
  BY <1>1, <1>2, <1>6, <1>7 DEF OrderInv, IsSorted, CalledInOrder

LEMMA OrderInductive == Spec => []OrderInv
<1>1. Init => OrderInv
  BY DelayedCallAssumption
  DEF Init, OrderInv, TypeOK, IsSorted, CalledBefore, CalledInOrder
<1>2. ASSUME OrderInv, [Next]_vars
      PROVE  OrderInv'
  <2>1. CASE UNCHANGED vars
    BY <1>2, <2>1
    DEF vars, OrderInv, TypeOK, IsSorted, CalledBefore, CalledInOrder
  <2>2. CASE Next
    BY <1>2, <2>2, CallLaterPreserves, CallNextPreserves, OtherPreserves DEF Next
  <2> QED
    BY <1>2, <2>1, <2>2
<1> QED
  BY <1>1, <1>2, PTL DEF Spec

(* callLater keeps the table sorted, so its front is always the next call. *)
THEOREM TableIsSorted == Spec => []IsSorted
<1>1. OrderInv => IsSorted
  BY DEF OrderInv
<1> QED
  BY OrderInductive, <1>1, PTL

(* Calls are made in the order of their times, whatever callbacks delay,   *)
(* throw or nest, as long as the clock does not go back.                   *)
THEOREM CallsAreInOrder == Spec => []CalledInOrder
<1>1. OrderInv => CalledInOrder
  BY DEF OrderInv
<1> QED
  BY OrderInductive, <1>1, PTL
-----------------------------------------------------------------------------
(* Each call is made once.                                                 *)

(* The calls that wait and those that were made are different ones, and    *)
(* all that were delayed.                                                  *)
OnceInv ==
  /\ \A i, j \in DOMAIN table : i # j => table[i].call # table[j].call
  /\ \A i, j \in DOMAIN called : i # j => called[i].call # called[j].call
  /\ \A i \in DOMAIN table, j \in DOMAIN called : table[i].call # called[j].call
  /\ \A i \in DOMAIN table : table[i].call <= added
  /\ \A i \in DOMAIN called : called[i].call <= added
  /\ Len(table) + Len(called) = added

LEMMA CallNumbers ==
  ASSUME TypeOK
  PROVE  /\ \A i \in DOMAIN table : table[i].call \in Nat
         /\ \A i \in DOMAIN called : called[i].call \in Nat
<1>1. \A e \in Entries : e.call \in Nat
  BY DelayedCallAssumption DEF Entries
<1> QED BY <1>1, Types

(* callLater gives the entry the next number.                              *)
LEMMA CallLaterKeepsOnce ==
  ASSUME TypeOK, OnceInv, NEW delay \in Delays, CallLater(delay)
  PROVE  OnceInv'
<1> DEFINE entry == [call |-> added + 1, callTime |-> clock + delay]
           k == LowerBound(entry.callTime)
           n == Len(table)
<1>1. /\ clock \in Nat /\ delay \in Nat /\ added \in Nat
      /\ added + 1 \in 1 .. MaxCalls /\ added' = added + 1 /\ called' = called
      /\ n \in Nat /\ DOMAIN table = 1 .. n
      /\ Len(called) \in Nat /\ DOMAIN called = 1 .. Len(called)
  BY Types, DelayedCallAssumption DEF CallLater, TypeOK
<1>2. /\ entry \in Entries /\ entry.call = added + 1 /\ entry.callTime \in Nat
      /\ table' = InsertAt(k, entry)
  BY <1>1 DEF Entries, CallLater, Insert
<1>3. k \in 1 .. n + 1
  BY <1>2, LowerBoundExists
<1> HIDE DEF entry, k
<1>4. /\ table' \in Seq(Entries) /\ Len(table') = n + 1
      /\ \A i \in 1 .. n + 1 :
           table'[i] = IF i < k THEN table[i]
                       ELSE IF i = k THEN entry ELSE table[i - 1]
  BY <1>2, <1>3, InsertElements
<1>5. DOMAIN table' = 1 .. n + 1
  BY <1>4
<1> HIDE DEF n
(* Where an entry of the new table was before.                             *)
<1> DEFINE old(i) == IF i < k THEN i ELSE i - 1
<1>6. ASSUME NEW i \in 1 .. n + 1, i # k
      PROVE  old(i) \in 1 .. n /\ table'[i] = table[old(i)]
  BY <1>1, <1>3, <1>4, <1>6
<1>7. ASSUME NEW i \in 1 .. n + 1, NEW j \in 1 .. n + 1, i # k, j # k, i # j
      PROVE  old(i) # old(j)
  BY <1>1, <1>3, <1>7
<1> HIDE DEF old
<1>8. table'[k] = entry
  BY <1>1, <1>3, <1>4
<1>9. /\ \A i \in 1 .. n : table[i].call \in Nat /\ table[i].call <= added
      /\ \A i \in DOMAIN called : called[i].call \in Nat /\ called[i].call <= added
  BY <1>1, CallNumbers DEF OnceInv
<1>10. ASSUME NEW i \in 1 .. n + 1, NEW j \in 1 .. n + 1, i # j
       PROVE  table'[i].call # table'[j].call
  <2>1. CASE i # k /\ j # k
    BY <1>1, <1>6, <1>7, <1>10, <2>1 DEF OnceInv
  <2>2. CASE i = k
    <3>1. j # k /\ table'[j].call \in Nat /\ table'[j].call <= added
      BY <1>6, <1>9, <1>10, <2>2
    <3> QED BY <1>1, <1>2, <1>8, <2>2, <3>1
  <2>3. CASE j = k
    <3>1. i # k /\ table'[i].call \in Nat /\ table'[i].call <= added
      BY <1>6, <1>9, <1>10, <2>3
    <3> QED BY <1>1, <1>2, <1>8, <2>3, <3>1
  <2> QED BY <2>1, <2>2, <2>3
<1>11. ASSUME NEW i \in 1 .. n + 1
       PROVE  /\ table'[i].call <= added + 1
              /\ \A j \in DOMAIN called : table'[i].call # called[j].call
  <2>1. CASE i = k
    BY <1>1, <1>2, <1>8, <1>9, <2>1
  <2>2. CASE i # k
    <3>1. old(i) \in 1 .. n /\ table'[i] = table[old(i)]
      BY <1>6, <2>2
    <3>2. table[old(i)].call <= added + 1
      BY <1>1, <1>9, <3>1
    <3> QED BY <1>1, <3>1, <3>2 DEF OnceInv
  <2> QED BY <2>1, <2>2
<1>12. \A i \in DOMAIN called : called[i].call <= added'
  BY <1>1, <1>9
<1>13. Len(table') + Len(called) = added + 1
  BY <1>1, <1>4 DEF OnceInv, n
<1> QED BY <1>1, <1>5, <1>10, <1>11, <1>12, <1>13 DEF OnceInv

(* The entry is moved from the front of the table to what was called.      *)
LEMMA CallNextKeepsOnce ==
  ASSUME TypeOK, OnceInv, CallNext
  PROVE  OnceInv'
<1> DEFINE n == Len(called)
           m == Len(table) - 1
<1>1. /\ m \in Nat /\ n \in Nat /\ Len(table) = m + 1
      /\ DOMAIN table = 1 .. m + 1 /\ DOMAIN called = 1 .. n
      /\ added' = added
  BY Types DEF CallNext, IsDue, HasFront, TypeOK
<1>2. /\ Len(table') = m /\ DOMAIN table' = 1 .. m
      /\ \A i \in 1 .. m : table'[i] = table[i + 1]
      /\ Len(called') = n + 1 /\ DOMAIN called' = 1 .. n + 1
      /\ called'[n + 1] = table[1]
      /\ \A i \in 1 .. n : called'[i] = called[i]
  <2>1. /\ table \in Seq(Entries) /\ table # <<>> /\ called \in Seq(Entries)
        /\ table' = Tail(table) /\ called' = Append(called, Head(table))
    BY DEF CallNext, IsDue, HasFront, Erase, TypeOK
  <2> QED BY <1>1, <2>1
<1> HIDE DEF m, n
<1>3. /\ 1 \in 1 .. m + 1
      /\ \A i \in 1 .. m : i + 1 \in 1 .. m + 1 /\ i + 1 # 1
      /\ \A i, j \in 1 .. m : i # j => i + 1 # j + 1
      /\ \A i \in 1 .. n + 1 : i \in 1 .. n \/ i = n + 1
      /\ m + (n + 1) = m + 1 + n
  BY <1>1
<1>4. ASSUME NEW i \in 1 .. n + 1, NEW j \in 1 .. n + 1, i # j
      PROVE  called'[i].call # called'[j].call
  <2>1. CASE i \in 1 .. n /\ j \in 1 .. n
    BY <1>1, <1>2, <1>4, <2>1 DEF OnceInv
  <2>2. CASE i = n + 1 /\ j \in 1 .. n
    <3>1. table[1].call # called[j].call
      BY <1>1, <1>3, <2>2 DEF OnceInv
    <3>2. called'[i] = table[1] /\ called'[j] = called[j]
      BY <1>2, <2>2
    <3> QED BY <3>1, <3>2
  <2>3. CASE j = n + 1 /\ i \in 1 .. n
    <3>1. table[1].call # called[i].call
      BY <1>1, <1>3, <2>3 DEF OnceInv
    <3>2. called'[i] = called[i] /\ called'[j] = table[1]
      BY <1>2, <2>3
    <3> QED BY <3>1, <3>2
  <2> QED BY <1>3, <1>4, <2>1, <2>2, <2>3
<1>5. ASSUME NEW i \in 1 .. m
      PROVE  /\ table'[i].call <= added
             /\ \A j \in 1 .. m : i # j => table'[i].call # table'[j].call
             /\ \A j \in 1 .. n + 1 : table'[i].call # called'[j].call
  <2>1. /\ i + 1 \in DOMAIN table /\ 1 \in DOMAIN table /\ i + 1 # 1
        /\ table'[i] = table[i + 1]
    BY <1>1, <1>2, <1>3
  <2>2. table[i + 1].call <= added
    BY <2>1 DEF OnceInv
  <2>3. ASSUME NEW j \in 1 .. m, i # j
        PROVE  table[i + 1].call # table[j + 1].call
    <3>1. j + 1 \in DOMAIN table /\ i + 1 # j + 1
      BY <1>1, <1>3, <2>3
    <3> QED BY <2>1, <3>1 DEF OnceInv
  <2>4. ASSUME NEW j \in 1 .. n + 1
        PROVE  table'[i].call # called'[j].call
    <3>1. CASE j \in 1 .. n
      <4>1. table[i + 1].call # called[j].call
        BY <1>1, <2>1, <3>1 DEF OnceInv
      <4> QED BY <1>2, <2>1, <3>1, <4>1
    <3>2. CASE j = n + 1
      <4>1. table[i + 1].call # table[1].call
        BY <2>1 DEF OnceInv
      <4> QED BY <1>2, <2>1, <3>2, <4>1
    <3> QED BY <1>3, <3>1, <3>2
  <2> QED BY <1>2, <2>1, <2>2, <2>3, <2>4
<1>6. \A j \in 1 .. n + 1 : called'[j].call <= added
  BY <1>1, <1>2, <1>3 DEF OnceInv
<1>7. Len(table') + Len(called') = added
  BY <1>1, <1>2, <1>3 DEF OnceInv, n
<1> QED BY <1>1, <1>2, <1>4, <1>5, <1>6, <1>7 DEF OnceInv

(* The invariant says the same of the two sequences as EachCallOnce says   *)
(* of one after the other.                                                 *)
LEMMA OnceImplies ==
  ASSUME TypeOK, OnceInv
  PROVE  EachCallOnce
<1> DEFINE n == Len(table)
           m == Len(called)
           all == table \o called
<1>1. /\ table \in Seq(Entries) /\ called \in Seq(Entries)
      /\ n \in Nat /\ m \in Nat /\ DOMAIN table = 1 .. n /\ DOMAIN called = 1 .. m
  BY Types DEF TypeOK
<1>2. /\ all \in Seq(Entries) /\ Len(all) = n + m
      /\ \A i \in 1 .. n + m : all[i] = IF i <= n THEN table[i] ELSE called[i - n]
  BY <1>1, ConcatProperties
<1>3. DOMAIN all = 1 .. n + m
  BY <1>2
<1>4. n + m = added
  BY DEF OnceInv
<1> HIDE DEF n, m, all
<1>5. ASSUME NEW i \in 1 .. n + m, NEW j \in 1 .. n + m, i # j
      PROVE  all[i].call # all[j].call
  <2>1. /\ i <= n => i \in 1 .. n
        /\ j <= n => j \in 1 .. n
        /\ ~(i <= n) => i - n \in 1 .. m
        /\ ~(j <= n) => j - n \in 1 .. m
        /\ i - n # j - n
    BY <1>1, <1>5
  <2>2. CASE i <= n /\ j <= n
    BY <1>1, <1>2, <1>5, <2>1, <2>2 DEF OnceInv
  <2>3. CASE i <= n /\ ~(j <= n)
    BY <1>1, <1>2, <2>1, <2>3 DEF OnceInv
  <2>4. CASE ~(i <= n) /\ j <= n
    BY <1>1, <1>2, <2>1, <2>4 DEF OnceInv
  <2>5. CASE ~(i <= n) /\ ~(j <= n)
    <3>1. i - n \in DOMAIN called /\ j - n \in DOMAIN called
      BY <1>1, <2>1, <2>5
    <3>2. called[i - n].call # called[j - n].call
      BY <2>1, <3>1 DEF OnceInv
    <3>3. all[i] = called[i - n] /\ all[j] = called[j - n]
      BY <1>2, <2>5
    <3> QED BY <3>2, <3>3
  <2> QED BY <2>2, <2>3, <2>4, <2>5
<1> QED BY <1>2, <1>3, <1>4, <1>5 DEF EachCallOnce, all

(* Whatever callbacks delay and throw, and however callTimedOut is nested, *)
(* no delayed call is lost and none is made twice: the entry is erased     *)
(* before its callback is called.                                          *)
THEOREM CallsAreMadeOnce == Spec => []EachCallOnce
<1>1. Init => OnceInv
  BY DEF Init, OnceInv
<1>2. TypeOK /\ OnceInv /\ [Next]_vars => OnceInv'
  <2> SUFFICES ASSUME TypeOK, OnceInv, [Next]_vars PROVE OnceInv'
    OBVIOUS
  <2>1. CASE \/ CallTimedOut \/ CallbackReturns \/ CallbackThrows \/ LoopEnds \/ Tick
             \/ UNCHANGED vars
    <3>1. UNCHANGED <<table, called, added>>
      BY <2>1
      DEF CallTimedOut, CallbackReturns, CallbackThrows, LoopEnds, Leave, Tick, vars
    <3> QED BY <3>1 DEF OnceInv
  <2> QED BY <2>1, CallLaterKeepsOnce, CallNextKeepsOnce DEF Next
<1>3. TypeOK /\ OnceInv => EachCallOnce
  BY OnceImplies
<1>4. OrderInv => TypeOK
  BY DEF OrderInv
<1> QED BY <1>1, <1>2, <1>3, <1>4, OrderInductive, PTL DEF Spec

-----------------------------------------------------------------------------
(* Loops and recursive definitions, whose values up to some number exist.  *)

(* What holds before a loop and is kept by each pass holds after it.       *)
LEMMA PassesKeep ==
  ASSUME NEW n \in Nat, NEW S, 0 \in S, \A k \in 1 .. n : k - 1 \in S => k \in S
  PROVE  n \in S
<1> DEFINE T == (0 .. n) \ S
<1>1. ASSUME T # {} PROVE FALSE
  <2>1. T \subseteq Nat
    OBVIOUS
  <2>2. PICK m \in T : \A k \in T : m <= k
    BY <1>1, <2>1, FirstPosition
  <2>3. m \in 1 .. n /\ m - 1 \in 0 .. n /\ m - 1 \notin T
    BY <2>2
  <2> QED
    BY <2>2, <2>3
<1> QED
  BY <1>1

(* The values f that a recursive definition gives up to n, with the step   *)
(* in G.                                                                   *)
IsRecursion(f, n, S, a, G) ==
  /\ f = [k \in 0 .. n |-> f[k]] /\ \A k \in 0 .. n : f[k] \in S
  /\ f[0] = a /\ \A k \in 1 .. n : f[k] = G[<<f[k - 1], k>>]

LEMMA RecursionExists ==
  ASSUME NEW S, NEW a \in S, NEW n \in Nat, NEW G,
         \A x \in S, k \in 1 .. n : G[<<x, k>>] \in S
  PROVE  \E f : IsRecursion(f, n, S, a, G)
<1> DEFINE T == {m \in 0 .. n : \E f : IsRecursion(f, m, S, a, G)}
<1>1. 0 \in T
  <2> DEFINE g == [k \in 0 .. 0 |-> a]
  <2>1. IsRecursion(g, 0, S, a, G)
    BY DEF IsRecursion
  <2> HIDE DEF g
  <2> QED
    BY <2>1
<1>2. ASSUME NEW m \in 1 .. n, m - 1 \in T
      PROVE  m \in T
  <2>1. PICK f : IsRecursion(f, m - 1, S, a, G)
    BY <1>2
  <2> DEFINE g == [k \in 0 .. m |-> IF k = m THEN G[<<f[m - 1], m>>] ELSE f[k]]
  <2>2. m - 1 \in 0 .. m - 1 /\ f[m - 1] \in S
    BY <2>1 DEF IsRecursion
  <2>3. \A k \in 0 .. m - 1 : k \in 0 .. m /\ k # m
    OBVIOUS
  <2>4. m \in 0 .. m /\ g[m] = G[<<f[m - 1], m>>]
    OBVIOUS
  <2>5. \A k \in 0 .. m - 1 : g[k] = f[k]
    BY <2>3
  <2>6. g = [k \in 0 .. m |-> g[k]]
    OBVIOUS
  <2> HIDE DEF g
  <2>7. \A k \in 0 .. m : g[k] \in S
    <3>1. \A k \in 0 .. m : k = m \/ k \in 0 .. m - 1
      OBVIOUS
    <3>2. g[m] \in S
      BY <2>2, <2>4
    <3> QED
      BY <2>1, <2>5, <3>1, <3>2 DEF IsRecursion
  <2>8. g[0] = a
    <3>1. 0 \in 0 .. m - 1
      OBVIOUS
    <3> QED
      BY <2>1, <2>5, <3>1 DEF IsRecursion
  <2>9. ASSUME NEW k \in 1 .. m PROVE g[k] = G[<<g[k - 1], k>>]
    <3>1. k - 1 \in 0 .. m - 1 /\ g[k - 1] = f[k - 1]
      BY <2>5
    <3>2. CASE k = m
      BY <2>4, <3>1, <3>2
    <3>3. CASE k # m
      <4>1. k \in 1 .. m - 1 /\ k \in 0 .. m - 1
        BY <3>3
      <4> QED
        BY <2>1, <2>5, <3>1, <4>1 DEF IsRecursion
    <3> QED
      BY <3>2, <3>3
  <2>10. IsRecursion(g, m, S, a, G)
    BY <2>6, <2>7, <2>8, <2>9 DEF IsRecursion
  <2> QED
    BY <2>10
<1> HIDE DEF T
<1>3. n \in T
  BY <1>1, <1>2, PassesKeep
<1> QED
  BY <1>3 DEF T

-----------------------------------------------------------------------------
(* The elements of a stream, one after the other.                          *)

Octets == 0 .. 255

AreJoins(f, s) ==
  f = [k \in 0 .. Len(s) |-> IF k = 0 THEN <<>> ELSE f[k - 1] \o s[k]]
Joins(s) == CHOOSE f : AreJoins(f, s)

LEMMA JoinsByElement ==
  ASSUME NEW s, NEW f
  PROVE  AreJoins(f, s) <=>
           /\ f = [k \in 0 .. Len(s) |-> f[k]]
           /\ \A k \in 0 .. Len(s) : f[k] = IF k = 0 THEN <<>> ELSE f[k - 1] \o s[k]
<1> DEFINE value(k) == IF k = 0 THEN <<>> ELSE f[k - 1] \o s[k]
           h == [k \in 0 .. Len(s) |-> value(k)]
<1> HIDE DEF value
<1>1. ASSUME f = h PROVE f = [k \in 0 .. Len(s) |-> f[k]] /\ \A k \in 0 .. Len(s) : f[k] = value(k)
  <2>1. h = [k \in 0 .. Len(s) |-> h[k]] /\ \A k \in 0 .. Len(s) : h[k] = value(k)
    OBVIOUS
  <2> HIDE DEF h
  <2> QED
    BY <1>1, <2>1
<1>2. ASSUME f = [k \in 0 .. Len(s) |-> f[k]], \A k \in 0 .. Len(s) : f[k] = value(k)
      PROVE  f = h
  BY <1>2, Zenon
<1> QED
  BY <1>1, <1>2 DEF AreJoins, value

(* Joins(s)[n] is what the first n elements are together.                  *)
LEMMA JoinsSteps ==
  ASSUME NEW s \in Seq(Seq(Octets))
  PROVE  /\ Joins(s)[0] = <<>>
         /\ \A k \in 1 .. Len(s) : Joins(s)[k] = Joins(s)[k - 1] \o s[k]
         /\ \A k \in 0 .. Len(s) : Joins(s)[k] \in Seq(Octets)
<1> DEFINE S == Seq(Octets)
           n == Len(s)
           G == [p \in S \X (1 .. n) |-> p[1] \o s[p[2]]]
<1>1. n \in Nat /\ <<>> \in S /\ \A k \in 1 .. n : s[k] \in S
  BY EmptySeq
<1>2. \A x \in S, y \in S : x \o y \in S
  BY ConcatProperties
<1> HIDE DEF S
<1>3. \A x \in S, k \in 1 .. n : G[<<x, k>>] = x \o s[k]
  OBVIOUS
<1>4. \A x \in S, k \in 1 .. n : G[<<x, k>>] \in S
  BY <1>1, <1>2, <1>3
<1> HIDE DEF G, n
<1>5. \E f : IsRecursion(f, n, S, <<>>, G)
  BY <1>1, <1>4, RecursionExists
<1>5a. PICK f : IsRecursion(f, n, S, <<>>, G)
  BY <1>5
<1>5b. /\ f = [k \in 0 .. n |-> f[k]] /\ \A k \in 0 .. n : f[k] \in S
      /\ f[0] = <<>> /\ \A k \in 1 .. n : f[k] = G[<<f[k - 1], k>>]
  BY <1>5a DEF IsRecursion
<1>6. ASSUME NEW k \in 0 .. n PROVE f[k] = IF k = 0 THEN <<>> ELSE f[k - 1] \o s[k]
  <2>1. CASE k = 0
    BY <1>5b, <2>1
  <2>2. CASE k # 0
    <3>1. k \in 1 .. n /\ k - 1 \in 0 .. n
      BY <1>1, <2>2
    <3> QED
      BY <1>3, <1>5b, <2>2, <3>1
  <2> QED
    BY <2>1, <2>2
<1>7. AreJoins(f, s)
  BY <1>5b, <1>6, JoinsByElement DEF n
<1>8. AreJoins(Joins(s), s)
  BY <1>7 DEF Joins
<1> DEFINE j == Joins(s)
<1> HIDE DEF j
<1>9. \A k \in 0 .. n : j[k] = IF k = 0 THEN <<>> ELSE j[k - 1] \o s[k]
  BY <1>8, JoinsByElement DEF j, n
<1>10. j[0] = <<>> /\ \A k \in 1 .. n : j[k] = j[k - 1] \o s[k]
  <2>1. 0 \in 0 .. n /\ \A k \in 1 .. n : k \in 0 .. n /\ k # 0
    BY <1>1
  <2> QED
    BY <1>9, <2>1
<1>11. \A k \in 0 .. n : j[k] \in S
  <2> DEFINE K == {k \in 0 .. n : j[k] \in S}
  <2>1. ASSUME NEW m \in 0 .. n PROVE m \in K
    <3>1. 0 \in K
      BY <1>1, <1>10
    <3>2. ASSUME NEW k \in 1 .. m, k - 1 \in K PROVE k \in K
      <4>1. k \in 1 .. n /\ k \in 0 .. n
        BY <1>1, <2>1
      <4>2. j[k - 1] \in S
        BY <3>2
      <4>3. j[k] = j[k - 1] \o s[k] /\ s[k] \in S
        BY <1>1, <1>10, <4>1
      <4>4. j[k] \in S
        BY <1>2, <4>2, <4>3
      <4> QED
        BY <4>1, <4>4
    <3> HIDE DEF K
    <3>3. m \in Nat
      OBVIOUS
    <3> QED
      BY <3>1, <3>2, <3>3, PassesKeep
  <2> QED
    BY <2>1
<1> QED
  BY <1>10, <1>11 DEF j, n, S

LEMMA FirstProperties ==
  ASSUME NEW S, NEW s \in Seq(S), NEW n \in 0 .. Len(s)
  PROVE  /\ First(s, n) \in Seq(S) /\ Len(First(s, n)) = n
         /\ \A k \in 1 .. n : First(s, n)[k] = s[k]
<1>1. \A k \in 1 .. n : s[k] \in S
  BY ElementOfSeq
<1> QED
  BY <1>1, SubSeqProperties DEF First

LEMMA JoinedIsJoins ==
  ASSUME NEW s \in Seq(Seq(Octets))
  PROVE  Joined(s) = Joins(s)[Len(s)]
BY Zenon DEF Joined, Joins, AreJoins

LEMMA JoinedFirst ==
  ASSUME NEW s \in Seq(Seq(Octets)), NEW n \in 0 .. Len(s)
  PROVE  Joined(First(s, n)) = Joins(s)[n]
<1> DEFINE t == First(s, n)
           K == {k \in 0 .. n : Joins(t)[k] = Joins(s)[k]}
<1>1. t \in Seq(Seq(Octets)) /\ Len(t) = n /\ \A k \in 1 .. n : t[k] = s[k]
  BY FirstProperties
<1> HIDE DEF t
<1>2. Joined(t) = Joins(t)[n]
  BY <1>1, JoinedIsJoins
<1>3. /\ Joins(s)[0] = <<>> /\ Joins(t)[0] = <<>>
      /\ \A k \in 1 .. n : Joins(t)[k] = Joins(t)[k - 1] \o t[k]
  BY <1>1, JoinsSteps
<1>4. \A k \in 1 .. Len(s) : Joins(s)[k] = Joins(s)[k - 1] \o s[k]
  BY JoinsSteps
<1>5. 0 \in K
  BY <1>3
<1>6. ASSUME NEW k \in 1 .. n, k - 1 \in K PROVE k \in K
  <2>1. k \in 1 .. Len(s) /\ k \in 0 .. n
    OBVIOUS
  <2>2. Joins(t)[k - 1] = Joins(s)[k - 1]
    BY <1>6
  <2>3. Joins(t)[k] = Joins(t)[k - 1] \o t[k] /\ Joins(s)[k] = Joins(s)[k - 1] \o s[k]
    BY <1>3, <1>4, <2>1
  <2>4. Joins(t)[k] = Joins(s)[k]
    BY <1>1, <2>2, <2>3
  <2> QED
    BY <2>1, <2>4
<1> HIDE DEF K
<1>7. n \in K
  BY <1>5, <1>6, PassesKeep
<1> QED
  BY <1>2, <1>7 DEF K, t

(* What the first elements are together begins what more of them are.      *)
IsPrefix(s, t) ==
  Len(s) <= Len(t) /\ \A j \in 1 .. Len(s) : t[j] = s[j]

LEMMA JoinsGrow ==
  ASSUME NEW s \in Seq(Seq(Octets)), NEW m \in 0 .. Len(s), NEW n \in m .. Len(s)
  PROVE  IsPrefix(Joins(s)[m], Joins(s)[n])
<1> DEFINE d == n - m
           K == {k \in 0 .. d : IsPrefix(Joins(s)[m], Joins(s)[m + k])}
<1>1. Len(s) \in Nat /\ d \in Nat /\ m + d = n
  OBVIOUS
<1>2. ASSUME NEW k \in 0 .. Len(s)
      PROVE  Joins(s)[k] \in Seq(Octets) /\ Len(Joins(s)[k]) \in Nat
  <2>1. Joins(s)[k] \in Seq(Octets)
    BY JoinsSteps
  <2> QED
    BY <2>1, LenProperties
<1>3. 0 \in K
  BY <1>1, <1>2 DEF IsPrefix
<1>4. ASSUME NEW k \in 1 .. d, k - 1 \in K PROVE k \in K
  <2> DEFINE a == Joins(s)[m]
             b == Joins(s)[m + (k - 1)]
             c == Joins(s)[m + k]
  <2>1. m + k \in 1 .. Len(s) /\ (m + k) - 1 = m + (k - 1) /\ m + (k - 1) \in 0 .. Len(s)
    BY <1>1
  <2>2. s[m + k] \in Seq(Octets)
    BY <2>1
  <2>3. c = b \o s[m + k]
    BY <2>1, JoinsSteps
  <2>4. a \in Seq(Octets) /\ b \in Seq(Octets) /\ Len(a) \in Nat /\ Len(b) \in Nat
    BY <1>2, <2>1
  <2> HIDE DEF a, b, c
  <2>5. Len(c) = Len(b) + Len(s[m + k]) /\ \A j \in 1 .. Len(b) : c[j] = b[j]
    BY <2>2, <2>3, <2>4, ConcatProperties
  <2>6. IsPrefix(a, b)
    BY <1>4 DEF a, b
  <2>7. Len(s[m + k]) \in Nat
    BY <2>2, LenProperties
  <2>8. IsPrefix(a, c)
    BY <2>4, <2>5, <2>6, <2>7 DEF IsPrefix
  <2> QED
    BY <2>8 DEF a, c
<1> HIDE DEF K, d
<1>5. d \in K
  BY <1>1, <1>3, <1>4, PassesKeep
<1> QED
  BY <1>1, <1>5 DEF K

-----------------------------------------------------------------------------
(* The decoder within an element.                                          *)

Decoders ==
  [gotElementEnd : BOOLEAN, offset : Nat, state : DecoderStates,
   header : Seq(Octets), nBytesToRead : Nat]

LengthOctet(e) == e[TypeEnd(e) + 1]

(* The decoder d has read the first i bytes of the element e, of which     *)
(* there are more.                                                         *)
InType(d, e, i) ==
  /\ d.header = <<>>
  /\ \/ d.state = "type" /\ i = 0
     \/ d.state = "typeBytes" /\ i \in 1 .. TypeEnd(e) - 1 /\ d.nBytesToRead = TypeEnd(e) - i
     \/ d.state = "length" /\ i = TypeEnd(e)
InLength(d, e, i) ==
  /\ d.state = "lengthBytes" /\ IsExtended(LengthOctet(e))
  /\ i \in TypeEnd(e) + 1 .. LengthEnd(e) - 1
  /\ d.nBytesToRead = Width(LengthOctet(e))
  /\ d.header = SubSeq(e, TypeEnd(e) + 2, i)
InValue(d, e, i) ==
  d.state = "value" /\ i \in LengthEnd(e) .. Len(e) - 1 /\ d.nBytesToRead = Len(e) - i
IsWithin(d, e, i) ==
  ~d.gotElementEnd /\ (InType(d, e, i) \/ InLength(d, e, i) \/ InValue(d, e, i))

(* It has, or it has read all of the element.                              *)
HasRead(d, e, i) == IsWithin(d, e, i) \/ (d.gotElementEnd /\ i = Len(e))

(* The input goes on where the first i bytes of the element end.           *)
GoesOn(input, e, i) ==
  \A j \in 1 .. Len(input) : i + j <= Len(e) => input[j] = e[i + j]

(* What a pass of the loop of findElementEnd keeps, from d to r.           *)
Keeps(d, r, e, i, input) ==
  /\ r \in Decoders /\ r.offset <= Len(input)
  /\ HasRead(r, e, i + r.offset)
  /\ r.gotElementEnd \/ r.offset > d.offset \/ r.offset = Len(input)

(* What it needs.                                                          *)
Reads(d, e, i, input) ==
  /\ IsElement(e) /\ e \in Seq(Octets) /\ input \in Seq(Octets) /\ i \in Nat
  /\ GoesOn(input, e, i)
  /\ d \in Decoders /\ d.offset < Len(input) /\ HasRead(d, e, i + d.offset)
  /\ ~d.gotElementEnd

LEMMA Extensions ==
  ASSUME NEW o \in Octets
  PROVE  Extension(o) \in Nat /\ (IsExtended(o) => Width(o) \in Nat \ {0}) /\ o \in Nat
BY DEF Octets, Extension, IsExtended, Width

LEMMA ElementLengths ==
  ASSUME NEW e \in Seq(Octets), IsElement(e)
  PROVE  /\ Len(e) \in Nat /\ TypeEnd(e) \in Nat /\ LengthEnd(e) \in Nat
         /\ 1 <= TypeEnd(e) /\ TypeEnd(e) < LengthEnd(e) /\ LengthEnd(e) <= Len(e)
         /\ \A j \in 1 .. Len(e) : e[j] \in Octets
         /\ LengthOctet(e) \in Octets
         /\ TypeEnd(e) = 1 + (IF IsExtended(e[1]) THEN Width(e[1]) ELSE 0)
         /\ LengthEnd(e) = TypeEnd(e) + 1
              + (IF IsExtended(LengthOctet(e)) THEN Width(LengthOctet(e)) ELSE 0)
         /\ Len(e) - LengthEnd(e) =
              IF IsExtended(LengthOctet(e))
              THEN VarNumber(SubSeq(e, TypeEnd(e) + 2, LengthEnd(e)))
              ELSE LengthOctet(e)
<1>1. Len(e) \in Nat /\ \A j \in 1 .. Len(e) : e[j] \in Octets
  BY LenProperties, ElementOfSeq
<1>2. \A o \in Octets : Extension(o) \in Nat
  BY Extensions
<1>3. Len(e) > 0 /\ Len(e) > TypeEnd(e) /\ Len(e) >= LengthEnd(e)
  BY DEF IsElement
<1>4. e[1] \in Octets
  BY <1>1, <1>3
<1>5. TypeEnd(e) \in Nat /\ 1 <= TypeEnd(e)
  BY <1>2, <1>4 DEF TypeEnd
<1>6. LengthOctet(e) \in Octets
  BY <1>1, <1>3, <1>5 DEF LengthOctet
<1>7. LengthEnd(e) \in Nat /\ TypeEnd(e) < LengthEnd(e)
  BY <1>2, <1>5, <1>6 DEF LengthEnd, LengthOctet
<1>8. TypeEnd(e) = 1 + (IF IsExtended(e[1]) THEN Width(e[1]) ELSE 0)
  BY DEF TypeEnd, Extension
<1>9. LengthEnd(e) = TypeEnd(e) + 1
              + (IF IsExtended(LengthOctet(e)) THEN Width(LengthOctet(e)) ELSE 0)
  BY DEF LengthEnd, Extension, LengthOctet
<1>10. Len(e) - LengthEnd(e) =
              IF IsExtended(LengthOctet(e))
              THEN VarNumber(SubSeq(e, TypeEnd(e) + 2, LengthEnd(e)))
              ELSE LengthOctet(e)
  BY DEF IsElement, ValueLength, LengthOctet
<1> QED
  BY <1>1, <1>3, <1>5, <1>6, <1>7, <1>8, <1>9, <1>10

(* The decoder with another offset, state and number of bytes to read.     *)
IsUpdated(r, d, p, t, n) ==
  /\ r \in Decoders /\ r.offset = p /\ r.state = t /\ r.nBytesToRead = n
  /\ r.header = d.header /\ r.gotElementEnd = d.gotElementEnd

LEMMA Updates ==
  ASSUME NEW d \in Decoders, NEW p \in Nat, NEW t \in DecoderStates, NEW n \in Nat
  PROVE  /\ IsUpdated([d EXCEPT !.offset = p], d, p, d.state, d.nBytesToRead)
         /\ IsUpdated([d EXCEPT !.offset = p, !.state = t], d, p, t, d.nBytesToRead)
         /\ IsUpdated([d EXCEPT !.offset = p, !.nBytesToRead = n], d, p, d.state, n)
         /\ IsUpdated([d EXCEPT !.offset = p, !.state = t, !.nBytesToRead = n], d, p, t, n)
         /\ IsUpdated([d EXCEPT !.state = t, !.nBytesToRead = n], d, d.offset, t, n)
<1>1. IsUpdated([d EXCEPT !.offset = p], d, p, d.state, d.nBytesToRead)
  BY DEF IsUpdated, Decoders
<1>2. IsUpdated([d EXCEPT !.offset = p, !.state = t], d, p, t, d.nBytesToRead)
  BY DEF IsUpdated, Decoders
<1>3. IsUpdated([d EXCEPT !.offset = p, !.nBytesToRead = n], d, p, d.state, n)
  BY DEF IsUpdated, Decoders
<1>4. IsUpdated([d EXCEPT !.offset = p, !.state = t, !.nBytesToRead = n], d, p, t, n)
  BY DEF IsUpdated, Decoders
<1>5. IsUpdated([d EXCEPT !.state = t, !.nBytesToRead = n], d, d.offset, t, n)
  BY DEF IsUpdated, Decoders
<1> QED
  BY <1>1, <1>2, <1>3, <1>4, <1>5

(* The decoder at the end of an element.                                   *)
LEMMA UpdatesEnd ==
  ASSUME NEW d \in Decoders, NEW p \in Nat
  PROVE  /\ [d EXCEPT !.offset = p, !.gotElementEnd = TRUE] \in Decoders
         /\ [d EXCEPT !.offset = p, !.gotElementEnd = TRUE].offset = p
         /\ [d EXCEPT !.offset = p, !.gotElementEnd = TRUE].gotElementEnd
         /\ [d EXCEPT !.nBytesToRead = 0, !.gotElementEnd = TRUE] \in Decoders
         /\ [d EXCEPT !.nBytesToRead = 0, !.gotElementEnd = TRUE].offset = d.offset
         /\ [d EXCEPT !.nBytesToRead = 0, !.gotElementEnd = TRUE].gotElementEnd
BY DEF Decoders

LEMMA DecoderFields ==
  ASSUME NEW d \in Decoders
  PROVE  /\ d.gotElementEnd \in BOOLEAN /\ d.offset \in Nat /\ d.state \in DecoderStates
         /\ d.header \in Seq(Octets) /\ d.nBytesToRead \in Nat
BY DEF Decoders

LEMMA States ==
  {"type", "typeBytes", "length", "lengthBytes", "value"} \subseteq DecoderStates
BY DEF DecoderStates

(* Where the decoder is, there is a byte to read, which is the element's.  *)
LEMMA ReadsNext ==
  ASSUME NEW d, NEW e, NEW i, NEW input, Reads(d, e, i, input)
  PROVE  /\ d \in Decoders /\ IsWithin(d, e, i + d.offset) /\ i \in Nat
         /\ Len(input) \in Nat /\ d.offset \in Nat /\ d.nBytesToRead \in Nat
         /\ d.offset < Len(input) /\ ~d.gotElementEnd
         /\ i + d.offset \in 0 .. Len(e) - 1
         /\ NextOctet(d, input) = e[i + d.offset + 1]
         /\ NextOctet(d, input) \in Octets
<1> DEFINE o == d.offset
           l == Len(input)
           m == Len(e)
           T == TypeEnd(e)
           L == LengthEnd(e)
<1>1. d \in Decoders /\ i \in Nat /\ o < l /\ ~d.gotElementEnd /\ IsWithin(d, e, i + o)
  BY DEF Reads, HasRead
<1>2. o \in Nat /\ d.nBytesToRead \in Nat
  BY <1>1, DecoderFields
<1>3. l \in Nat
  BY LenProperties DEF Reads
<1>4. m \in Nat /\ 1 <= T /\ T < L /\ L <= m /\ T \in Nat /\ L \in Nat
  BY ElementLengths DEF Reads
<1>5. i + o = 0 \/ i + o \in 1 .. T - 1 \/ i + o = T \/ i + o \in T + 1 .. L - 1 \/ i + o \in L .. m - 1
  BY <1>1 DEF IsWithin, InType, InLength, InValue
<1>6. NextOctet(d, input) = input[o + 1]
  BY DEF NextOctet
<1>7. \A j \in 1 .. l : i + j <= m => input[j] = e[i + j]
  BY DEF Reads, GoesOn
<1>8. \A j \in 1 .. m : e[j] \in Octets
  BY ElementLengths DEF Reads
<1> HIDE DEF o, l, m, T, L
<1>9. i + o \in 0 .. m - 1
  BY <1>1, <1>2, <1>4, <1>5
<1>10. o + 1 \in 1 .. l /\ i + (o + 1) <= m /\ i + (o + 1) = i + o + 1 /\ i + o + 1 \in 1 .. m
  BY <1>1, <1>2, <1>3, <1>4, <1>9
<1>11. input[o + 1] = e[i + o + 1] /\ e[i + o + 1] \in Octets
  BY <1>7, <1>8, <1>10
<1> QED
  BY <1>1, <1>2, <1>3, <1>6, <1>9, <1>11 DEF o, l, m

LEMMA ReadTypeKeeps ==
  ASSUME NEW d, NEW e, NEW i, NEW input, Reads(d, e, i, input), d.state = "type"
  PROVE  Keeps(d, ReadType(d, input), e, i, input)
<1> DEFINE octet == NextOctet(d, input)
           r == ReadType(d, input)
           o == d.offset
           p == o + 1
           w == Width(octet)
           l == Len(input)
           T == TypeEnd(e)
<1>1. l \in Nat /\ o \in Nat /\ o < l /\ i \in Nat /\ d \in Decoders /\ ~d.gotElementEnd
      /\ octet = e[i + o + 1] /\ octet \in Octets /\ IsWithin(d, e, i + o)
  BY ReadsNext
<1>2. d.header = <<>> /\ i + o = 0
  BY <1>1 DEF IsWithin, InType, InLength, InValue
<1>3. T \in Nat /\ T = 1 + (IF IsExtended(e[1]) THEN Width(e[1]) ELSE 0)
  BY ElementLengths DEF Reads
<1>4. IsExtended(octet) => w \in Nat \ {0}
  BY <1>1, Extensions
<1>5. \/ IsExtended(octet) /\ r = [d EXCEPT !.offset = p, !.state = "typeBytes", !.nBytesToRead = w]
      \/ ~IsExtended(octet) /\ r = [d EXCEPT !.offset = p, !.state = "length"]
  BY DEF ReadType
<1>6. p = o + 1
  OBVIOUS
<1>7. T = IF IsExtended(octet) THEN 1 + w ELSE 1
  <2>1. i + o + 1 = 1
    BY <1>1, <1>2
  <2>2. octet = e[1]
    BY <1>1, <2>1
  <2> HIDE DEF octet, T
  <2> QED
    BY <1>3, <2>2, <1>4
<1> HIDE DEF octet, r, o, p, w, l, T
<1>8. p \in Nat /\ i + p = 1 /\ p <= l /\ p > o
  BY <1>1, <1>2, <1>6
<1>9. CASE IsExtended(octet)
  <2>1. IsUpdated(r, d, p, "typeBytes", w)
    <3>1. "typeBytes" \in DecoderStates /\ w \in Nat
      BY <1>4, <1>9, States
    <3>2. IsUpdated([d EXCEPT !.offset = p, !.state = "typeBytes", !.nBytesToRead = w],
                    d, p, "typeBytes", w)
      BY <1>1, <1>8, <3>1, Updates
    <3> QED
      BY <1>5, <1>9, <3>2
  <2>2. i + p \in 1 .. T - 1 /\ w = T - (i + p)
    BY <1>3, <1>4, <1>7, <1>8, <1>9
  <2>3. InType(r, e, i + p)
    BY <1>2, <2>1, <2>2 DEF InType, IsUpdated, T
  <2> QED
    BY <1>1, <1>8, <2>1, <2>3 DEF Keeps, HasRead, IsWithin, IsUpdated, r, l, o
<1>10. CASE ~IsExtended(octet)
  <2>1. IsUpdated(r, d, p, "length", d.nBytesToRead)
    <3>1. "length" \in DecoderStates /\ d.nBytesToRead \in Nat
      BY <1>1, States, DecoderFields
    <3>2. IsUpdated([d EXCEPT !.offset = p, !.state = "length"], d, p, "length", d.nBytesToRead)
      BY <1>1, <1>8, <3>1, Updates
    <3> QED
      BY <1>5, <1>10, <3>2
  <2>2. i + p = T
    BY <1>7, <1>8, <1>10
  <2>3. InType(r, e, i + p)
    BY <1>2, <2>1, <2>2 DEF InType, IsUpdated, T
  <2> QED
    BY <1>1, <1>8, <2>1, <2>3 DEF Keeps, HasRead, IsWithin, IsUpdated, r, l, o
<1> QED
  BY <1>9, <1>10

LEMMA ReadTypeBytesKeeps ==
  ASSUME NEW d, NEW e, NEW i, NEW input, Reads(d, e, i, input), d.state = "typeBytes"
  PROVE  Keeps(d, ReadTypeBytes(d, input), e, i, input)
<1> DEFINE r == ReadTypeBytes(d, input)
           n == d.nBytesToRead
           o == d.offset
           l == Len(input)
           p == o + n
           q == n - (l - o)
           T == TypeEnd(e)
<1>1. l \in Nat /\ o \in Nat /\ o < l /\ i \in Nat /\ d \in Decoders /\ ~d.gotElementEnd
      /\ IsWithin(d, e, i + o) /\ n \in Nat
  BY ReadsNext
<1>2. d.header = <<>> /\ i + o \in 1 .. T - 1 /\ n = T - (i + o)
  BY <1>1 DEF IsWithin, InType, InLength, InValue
<1>3. T \in Nat
  BY ElementLengths DEF Reads
<1>4. \/ l - o < n /\ r = [d EXCEPT !.offset = l, !.nBytesToRead = q]
      \/ ~(l - o < n) /\ r = [d EXCEPT !.offset = p, !.state = "length"]
  BY DEF ReadTypeBytes, Skip, Remaining
<1>5. p = o + n /\ q = n - (l - o)
  OBVIOUS
<1> HIDE DEF r, n, o, l, p, q, T
<1>6. CASE l - o < n
  <2>1. q \in Nat /\ i + l \in 1 .. T - 1 /\ q = T - (i + l)
    BY <1>1, <1>2, <1>3, <1>5, <1>6
  <2>2. IsUpdated(r, d, l, "typeBytes", q)
    <3>1. IsUpdated(r, d, l, d.state, q)
      BY <1>1, <1>4, <1>6, <2>1, Updates, States
    <3> QED
      BY <3>1
  <2>3. InType(r, e, i + l)
    BY <1>2, <2>1, <2>2 DEF InType, IsUpdated, T
  <2>4. l <= l
    BY <1>1
  <2> QED
    BY <1>1, <2>2, <2>3, <2>4 DEF Keeps, HasRead, IsWithin, IsUpdated, r, l
<1>7. CASE ~(l - o < n)
  <2>1. p \in Nat /\ i + p = T /\ p <= l /\ p > o
    <3>1. n \in Nat /\ n <= l - o /\ n > 0
      BY <1>1, <1>2, <1>3, <1>7
    <3> QED
      BY <1>1, <1>2, <1>3, <1>5, <3>1
  <2>2. IsUpdated(r, d, p, "length", n)
    <3>1. "length" \in DecoderStates
      BY States
    <3>2. IsUpdated([d EXCEPT !.offset = p, !.state = "length"], d, p, "length", n)
      BY <1>1, <2>1, <3>1, Updates DEF n
    <3> QED
      BY <1>4, <1>7, <3>2
  <2>3. InType(r, e, i + p)
    BY <1>2, <2>1, <2>2 DEF InType, IsUpdated, T
  <2> QED
    BY <1>1, <2>1, <2>2, <2>3 DEF Keeps, HasRead, IsWithin, IsUpdated, r, l, o
<1> QED
  BY <1>6, <1>7

LEMMA ReadValueBytesKeeps ==
  ASSUME NEW d, NEW e, NEW i, NEW input, Reads(d, e, i, input), d.state = "value"
  PROVE  Keeps(d, ReadValueBytes(d, input), e, i, input)
<1> DEFINE r == ReadValueBytes(d, input)
           n == d.nBytesToRead
           o == d.offset
           l == Len(input)
           p == o + n
           q == n - (l - o)
           L == LengthEnd(e)
           m == Len(e)
<1>1. l \in Nat /\ o \in Nat /\ o < l /\ i \in Nat /\ d \in Decoders /\ ~d.gotElementEnd
      /\ IsWithin(d, e, i + o) /\ n \in Nat
  BY ReadsNext
<1>2. i + o \in L .. m - 1 /\ n = m - (i + o)
  BY <1>1 DEF IsWithin, InType, InLength, InValue
<1>3. L \in Nat /\ m \in Nat
  BY ElementLengths DEF Reads
<1>4. \/ l - o < n /\ r = [d EXCEPT !.offset = l, !.nBytesToRead = q]
      \/ ~(l - o < n) /\ r = [d EXCEPT !.offset = p, !.gotElementEnd = TRUE]
  BY DEF ReadValueBytes, Skip, Remaining
<1>5. p = o + n /\ q = n - (l - o)
  OBVIOUS
<1> HIDE DEF r, n, o, l, p, q, L, m
<1>6. CASE l - o < n
  <2>1. q \in Nat /\ i + l \in L .. m - 1 /\ q = m - (i + l)
    BY <1>1, <1>2, <1>3, <1>5, <1>6
  <2>2. IsUpdated(r, d, l, "value", q)
    <3>1. IsUpdated(r, d, l, d.state, q)
      BY <1>1, <1>4, <1>6, <2>1, Updates, States
    <3> QED
      BY <3>1
  <2>3. InValue(r, e, i + l)
    BY <2>1, <2>2 DEF InValue, IsUpdated, L, m
  <2>4. l <= l
    BY <1>1
  <2> QED
    BY <1>1, <2>2, <2>3, <2>4 DEF Keeps, HasRead, IsWithin, IsUpdated, r, l
<1>7. CASE ~(l - o < n)
  <2>1. p \in Nat /\ i + p = m /\ p <= l
    BY <1>1, <1>2, <1>3, <1>5, <1>7
  <2>2. r \in Decoders /\ r.offset = p /\ r.gotElementEnd
    <3>1. r = [d EXCEPT !.offset = p, !.gotElementEnd = TRUE]
      BY <1>4, <1>7
    <3> QED
      BY <1>1, <2>1, <3>1, UpdatesEnd
  <2> QED
    BY <2>1, <2>2 DEF Keeps, HasRead, r, l, m
<1> QED
  BY <1>6, <1>7

LEMMA BeginValueKeeps ==
  ASSUME NEW d \in Decoders, NEW e \in Seq(Octets), IsElement(e), NEW i \in Nat,
         NEW input \in Seq(Octets), NEW c \in Decoders, ~c.gotElementEnd,
         i + c.offset = LengthEnd(e), c.offset <= Len(input), c.offset > d.offset,
         NEW length, length = Len(e) - LengthEnd(e)
  PROVE  Keeps(d, BeginValue(c, length), e, i, input)
<1> DEFINE r == BeginValue(c, length)
           L == LengthEnd(e)
           m == Len(e)
           p == c.offset
<1>1. L \in Nat /\ m \in Nat /\ L <= m
  BY ElementLengths
<1>2. p \in Nat /\ i + p = L /\ p <= Len(input) /\ p > d.offset /\ length = m - L
  BY DecoderFields
<1> HIDE DEF L, m, p
<1>3. CASE length = 0
  <2>1. r = [c EXCEPT !.nBytesToRead = 0, !.gotElementEnd = TRUE]
    BY <1>3 DEF BeginValue
  <2> HIDE DEF r
  <2>2. r \in Decoders /\ r.offset = p /\ r.gotElementEnd
    <3>1. 0 \in Nat
      OBVIOUS
    <3> QED
      BY <2>1, <3>1, UpdatesEnd DEF p
  <2>3. i + p = m
    BY <1>1, <1>2, <1>3
  <2> QED
    BY <1>2, <2>2, <2>3 DEF Keeps, HasRead, r, m
<1>4. CASE length # 0
  <2>1. r = [c EXCEPT !.state = "value", !.nBytesToRead = length]
    BY <1>4 DEF BeginValue
  <2> HIDE DEF r
  <2>2. i + p \in L .. m - 1 /\ length \in Nat /\ length = m - (i + p)
    BY <1>1, <1>2, <1>4
  <2>3. IsUpdated(r, c, p, "value", length)
    <3>1. "value" \in DecoderStates
      BY States
    <3>2. IsUpdated([c EXCEPT !.state = "value", !.nBytesToRead = length], c, p, "value", length)
      BY <1>2, <2>2, <3>1, Updates DEF p
    <3> QED
      BY <2>1, <3>2
  <2>4. InValue(r, e, i + p)
    BY <2>2, <2>3 DEF InValue, IsUpdated, L, m
  <2> QED
    BY <1>2, <2>3, <2>4 DEF Keeps, HasRead, IsWithin, IsUpdated, r
<1> QED
  BY <1>3, <1>4

LEMMA ReadLengthKeeps ==
  ASSUME NEW d, NEW e, NEW i, NEW input, Reads(d, e, i, input), d.state = "length"
  PROVE  Keeps(d, ReadLength(d, input), e, i, input)
<1> DEFINE octet == NextOctet(d, input)
           r == ReadLength(d, input)
           o == d.offset
           p == o + 1
           c == [d EXCEPT !.offset = p]
           w == Width(octet)
           l == Len(input)
           T == TypeEnd(e)
           L == LengthEnd(e)
<1>1. l \in Nat /\ o \in Nat /\ o < l /\ i \in Nat /\ d \in Decoders /\ ~d.gotElementEnd
      /\ octet = e[i + o + 1] /\ octet \in Octets /\ IsWithin(d, e, i + o) /\ d.nBytesToRead \in Nat
  BY ReadsNext
<1>2. d.header = <<>> /\ i + o = T
  BY <1>1 DEF IsWithin, InType, InLength, InValue
<1>3. octet = LengthOctet(e)
  BY <1>1, <1>2 DEF LengthOctet
<1>4. T \in Nat /\ L \in Nat /\ L = T + 1 + (IF IsExtended(octet) THEN w ELSE 0)
  BY <1>3, ElementLengths DEF Reads
<1>5. IsExtended(octet) => w \in Nat \ {0}
  BY <1>1, Extensions
<1>6. \/ IsExtended(octet) /\ r = [c EXCEPT !.state = "lengthBytes", !.nBytesToRead = w]
      \/ ~IsExtended(octet) /\ r = BeginValue(c, octet)
  BY DEF ReadLength
<1>7. p = o + 1
  OBVIOUS
<1>8. ~IsExtended(octet) => octet = Len(e) - L
  BY <1>3, ElementLengths DEF Reads
<1> HIDE DEF octet, r, o, p, w, l, T, L
<1>9. p \in Nat /\ i + p = T + 1 /\ p <= l /\ p > o
  BY <1>1, <1>2, <1>4, <1>7
<1>10. IsUpdated(c, d, p, d.state, d.nBytesToRead)
  BY <1>1, <1>9, Updates, States
<1> HIDE DEF c
<1>11. c \in Decoders /\ c.offset = p /\ c.header = <<>> /\ ~c.gotElementEnd
  BY <1>1, <1>2, <1>10 DEF IsUpdated
<1>12. CASE IsExtended(octet)
  <2>1. IsUpdated(r, c, p, "lengthBytes", w)
    <3>1. "lengthBytes" \in DecoderStates /\ w \in Nat
      BY <1>5, <1>12, States
    <3>2. IsUpdated([c EXCEPT !.state = "lengthBytes", !.nBytesToRead = w],
                    c, c.offset, "lengthBytes", w)
      BY <1>9, <1>11, <3>1, Updates
    <3> QED
      BY <1>6, <1>11, <1>12, <3>2
  <2>2. i + p \in T + 1 .. L - 1
    BY <1>4, <1>5, <1>9, <1>12
  <2>3. SubSeq(e, T + 2, i + p) = <<>>
    <3>1. i + p < T + 2 /\ i + p \in Int /\ T + 2 \in Int
      BY <1>1, <1>4, <1>9
    <3> QED
      BY <3>1, SubSeqEmpty
  <2>4. InLength(r, e, i + p)
    BY <1>3, <1>11, <1>12, <2>1, <2>2, <2>3 DEF InLength, IsUpdated, T, L, w
  <2> QED
    BY <1>9, <1>11, <2>1, <2>4 DEF Keeps, HasRead, IsWithin, IsUpdated, r, l, o
<1>13. CASE ~IsExtended(octet)
  <2>1. i + c.offset = L /\ c.offset <= Len(input) /\ c.offset > d.offset
    BY <1>4, <1>9, <1>11, <1>13 DEF l, o
  <2>2. Keeps(d, BeginValue(c, octet), e, i, input)
    BY <1>1, <1>8, <1>11, <1>13, <2>1, BeginValueKeeps DEF Reads, L
  <2> QED
    BY <1>6, <1>13, <2>2 DEF r
<1> QED
  BY <1>12, <1>13

LEMMA PieceProperties ==
  ASSUME NEW S, NEW s \in Seq(S), NEW a \in Nat \ {0}, NEW n \in Nat,
         a <= n + 1, n <= Len(s)
  PROVE  /\ SubSeq(s, a, n) \in Seq(S) /\ Len(SubSeq(s, a, n)) = n + 1 - a
         /\ \A j \in 1 .. n + 1 - a : SubSeq(s, a, n)[j] = s[a + j - 1]
<1>1. Len(s) \in Nat /\ \A j \in 1 .. Len(s) : s[j] \in S
  BY LenProperties, ElementOfSeq
<1>2. \A j \in a .. n : s[j] \in S
  BY <1>1
<1>3. a \in Int /\ n \in Int
  OBVIOUS
<1>4. /\ SubSeq(s, a, n) \in Seq(S)
      /\ Len(SubSeq(s, a, n)) = IF a <= n THEN n - a + 1 ELSE 0
      /\ \A j \in 1 .. n - a + 1 : SubSeq(s, a, n)[j] = s[a + j - 1]
  BY <1>2, <1>3, SubSeqProperties
<1>5. n - a + 1 = n + 1 - a /\ (~(a <= n) => n + 1 - a = 0)
  OBVIOUS
<1> QED
  BY <1>4, <1>5

(* The bytes of the length that were read, and those that are now.         *)
HeaderHasGrown(e, input, i, a, o, k) ==
  /\ SubSeq(e, a, i + o) \o SubSeq(input, o + 1, o + k) = SubSeq(e, a, i + (o + k))
  /\ SubSeq(e, a, i + o) \in Seq(Octets) /\ Len(SubSeq(e, a, i + o)) = i + o + 1 - a
  /\ SubSeq(e, a, i + (o + k)) \in Seq(Octets)

LEMMA HeaderGrows ==
  ASSUME NEW e \in Seq(Octets), NEW input \in Seq(Octets), NEW i \in Nat, GoesOn(input, e, i),
         NEW a \in Nat \ {0}, NEW o \in Nat, NEW k \in Nat, o + k <= Len(input),
         a <= i + o + 1, i + o + k <= Len(e)
  PROVE  HeaderHasGrown(e, input, i, a, o, k)
<1> DEFINE s == SubSeq(e, a, i + o)
           t == SubSeq(input, o + 1, o + k)
           u == SubSeq(e, a, i + (o + k))
           m == Len(e)
           l == Len(input)
<1>1. m \in Nat /\ l \in Nat
  BY LenProperties
<1>2. (\A j \in 1 .. m : e[j] \in Octets) /\ (\A j \in 1 .. l : input[j] \in Octets)
  BY ElementOfSeq
<1>3. \A j \in 1 .. l : i + j <= m => input[j] = e[i + j]
  BY DEF GoesOn
<1>4. i + o + k <= m /\ o + k <= l
  OBVIOUS
<1> HIDE DEF m, l
<1>5. i + o \in Nat /\ i + (o + k) \in Nat /\ o + k \in Nat /\ o + 1 \in Nat \ {0}
       /\ i + o <= m /\ i + (o + k) <= m /\ a <= i + (o + k) + 1 /\ o + 1 <= o + k + 1
  BY <1>1, <1>4
<1>6. /\ s \in Seq(Octets) /\ Len(s) = i + o + 1 - a
      /\ \A j \in 1 .. i + o + 1 - a : s[j] = e[a + j - 1]
  BY <1>5, PieceProperties DEF m
<1>7. /\ t \in Seq(Octets) /\ Len(t) = k /\ \A j \in 1 .. k : t[j] = input[o + j]
  <2>1. /\ t \in Seq(Octets) /\ Len(t) = o + k + 1 - (o + 1)
        /\ \A j \in 1 .. o + k + 1 - (o + 1) : t[j] = input[o + 1 + j - 1]
    BY <1>4, <1>5, PieceProperties DEF l
  <2>2. o + k + 1 - (o + 1) = k /\ \A j \in 1 .. k : o + 1 + j - 1 = o + j
    OBVIOUS
  <2> QED
    BY <2>1, <2>2
<1>8. /\ u \in Seq(Octets) /\ Len(u) = i + (o + k) + 1 - a
      /\ \A j \in 1 .. i + (o + k) + 1 - a : u[j] = e[a + j - 1]
  BY <1>5, PieceProperties DEF m
<1> HIDE DEF s, t, u
<1> DEFINE n == i + o + 1 - a
<1>9. n \in Nat /\ n = i + o + 1 - a
  OBVIOUS
<1> HIDE DEF n
<1>10. /\ s \o t \in Seq(Octets) /\ Len(s \o t) = n + k
       /\ \A j \in 1 .. n + k : (s \o t)[j] = IF j <= n THEN s[j] ELSE t[j - n]
  <2>1. /\ s \o t \in Seq(Octets) /\ Len(s \o t) = Len(s) + Len(t)
        /\ \A j \in 1 .. Len(s) + Len(t) :
             (s \o t)[j] = IF j <= Len(s) THEN s[j] ELSE t[j - Len(s)]
    BY <1>6, <1>7, ConcatProperties
  <2>2. Len(s) = n /\ Len(t) = k
    BY <1>6, <1>7, <1>9
  <2> QED
    BY <2>1, <2>2
<1>11. Len(u) = n + k
  BY <1>8, <1>9
<1>12. ASSUME NEW j \in 1 .. n + k PROVE (s \o t)[j] = u[j]
  <2>1. u[j] = e[a + j - 1]
    BY <1>8, <1>9
  <2>2. CASE j <= n
    BY <1>6, <1>9, <1>10, <2>1, <2>2
  <2>3. CASE ~(j <= n)
    <3>1. j - n \in 1 .. k /\ o + (j - n) \in 1 .. l
          /\ i + (o + (j - n)) = a + j - 1 /\ i + (o + (j - n)) <= m
      BY <1>1, <1>4, <1>9, <2>3
    <3>2. t[j - n] = e[a + j - 1]
      BY <1>3, <1>7, <3>1
    <3> QED
      BY <1>10, <2>1, <2>3, <3>2
  <2> QED
    BY <2>2, <2>3
<1>13. s \o t = u
  BY <1>8, <1>10, <1>11, <1>12, SeqEqual
<1> QED
  BY <1>6, <1>8, <1>13 DEF HeaderHasGrown, s, t, u

(* How many of the bytes of the length, which end at L, there are.         *)
LEMMA LengthBytesNeeded ==
  ASSUME NEW i \in Nat, NEW o \in Nat, NEW l \in Nat, o < l,
         NEW T \in Nat, NEW w \in Nat, NEW L \in Nat, L = T + 1 + w, i + o \in T + 1 .. L - 1,
         NEW needed, needed = w - (i + o + 1 - (T + 2)),
         NEW have, have = IF needed > l - o THEN l - o ELSE needed,
         NEW p, p = o + have
  PROVE  /\ have \in Nat /\ p \in Nat /\ p > o /\ p <= l /\ i + p <= L
         /\ i + o + have <= L /\ o + have <= l
         /\ T + 2 \in Nat \ {0} /\ T + 2 <= i + o + 1 /\ i + p >= T + 1
         /\ have < needed => p = l /\ i + p < L
         /\ ~(have < needed) => i + p = L
<1>1. needed = L - (i + o) /\ needed \in Nat \ {0}
  OBVIOUS
<1>2. have \in Nat \ {0} /\ have <= l - o /\ have <= needed
      /\ (have < needed => have = l - o)
  BY <1>1
<1> QED
  BY <1>1, <1>2

LEMMA ReadLengthBytesKeeps ==
  ASSUME NEW d, NEW e, NEW i, NEW input, Reads(d, e, i, input), d.state = "lengthBytes"
  PROVE  Keeps(d, ReadLengthBytes(d, input), e, i, input)
<1> DEFINE r == ReadLengthBytes(d, input)
           o == d.offset
           l == Len(input)
           T == TypeEnd(e)
           L == LengthEnd(e)
           w == d.nBytesToRead
           h == d.header
           needed == w - Len(h)
           have == IF needed > l - o THEN l - o ELSE needed
           p == o + have
           bytes == h \o SubSeq(input, o + 1, p)
           c == [d EXCEPT !.offset = p]
<1>1. l \in Nat /\ o \in Nat /\ o < l /\ i \in Nat /\ d \in Decoders /\ ~d.gotElementEnd
      /\ IsWithin(d, e, i + o) /\ w \in Nat /\ i + o \in 0 .. Len(e) - 1
  BY ReadsNext
<1>2. IsExtended(LengthOctet(e)) /\ i + o \in T + 1 .. L - 1 /\ w = Width(LengthOctet(e))
      /\ h = SubSeq(e, T + 2, i + o)
  BY <1>1 DEF IsWithin, InType, InLength, InValue
<1>3. T \in Nat /\ L \in Nat /\ L = T + 1 + w /\ L <= Len(e) /\ Len(e) \in Nat
      /\ Len(e) - L = VarNumber(SubSeq(e, T + 2, L))
  BY <1>2, ElementLengths DEF Reads
<1>4. r = IF have < needed THEN [c EXCEPT !.header = bytes] ELSE BeginValue(c, VarNumber(bytes))
  BY DEF ReadLengthBytes, Remaining
<1>5. e \in Seq(Octets) /\ input \in Seq(Octets) /\ GoesOn(input, e, i) /\ IsElement(e)
  BY DEF Reads
<1>6. p = o + have /\ bytes = h \o SubSeq(input, o + 1, p) /\ needed = w - Len(h)
      /\ have = IF needed > l - o THEN l - o ELSE needed
  OBVIOUS
<1> HIDE DEF r, o, l, T, L, w, h, needed, have, p, bytes, c
<1>7. Len(h) = i + o + 1 - (T + 2)
  <2>1. T + 2 \in Nat \ {0} /\ 0 \in Nat /\ o + 0 <= l /\ T + 2 <= i + o + 1
    BY <1>1, <1>2, <1>3
  <2>2. i + o + 0 <= Len(e)
    BY <1>1, <1>3
  <2>3. HeaderHasGrown(e, input, i, T + 2, o, 0)
    BY <1>1, <1>5, <2>1, <2>2, HeaderGrows DEF l
  <2> QED
    BY <1>2, <2>3 DEF HeaderHasGrown
<1>8. needed = w - (i + o + 1 - (T + 2)) /\ have = IF needed > l - o THEN l - o ELSE needed
  BY <1>6, <1>7
<1>9. i + o \in T + 1 .. L - 1 /\ L = T + 1 + w /\ L \in Nat /\ T \in Nat /\ p = o + have
  BY <1>2, <1>3, <1>6
<1>10. /\ have \in Nat /\ p \in Nat /\ p > o /\ p <= l /\ i + p <= L
       /\ i + o + have <= L /\ o + have <= l
       /\ T + 2 \in Nat \ {0} /\ T + 2 <= i + o + 1 /\ i + p >= T + 1
       /\ have < needed => p = l /\ i + p < L
       /\ ~(have < needed) => i + p = L
  BY <1>1, <1>8, <1>9, LengthBytesNeeded
<1>11. bytes = SubSeq(e, T + 2, i + p) /\ bytes \in Seq(Octets)
  <2> DEFINE a == T + 2
  <2>1. /\ i \in Nat /\ o \in Nat /\ have \in Nat /\ a \in Nat \ {0}
        /\ o + have <= Len(input) /\ a <= i + o + 1
    BY <1>1, <1>10 DEF l
  <2>2. i + o + have <= Len(e)
    BY <1>1, <1>3, <1>10
  <2> HIDE DEF a
  <2>3. HeaderHasGrown(e, input, i, a, o, have)
    BY <1>5, <2>1, <2>2, HeaderGrows
  <2> QED
    BY <1>2, <1>6, <2>3 DEF HeaderHasGrown, a
<1>12. IsUpdated(c, d, p, d.state, d.nBytesToRead)
  BY <1>1, <1>10, Updates, States, DecoderFields DEF c
<1>13. c \in Decoders /\ c.offset = p /\ ~c.gotElementEnd /\ c.state = "lengthBytes"
       /\ c.nBytesToRead = w
  BY <1>1, <1>12 DEF IsUpdated, w
<1>14. CASE have < needed
  <2>1. r = [c EXCEPT !.header = bytes]
    BY <1>4, <1>14
  <2>2. r \in Decoders /\ r.offset = p /\ ~r.gotElementEnd /\ r.state = "lengthBytes"
        /\ r.nBytesToRead = w /\ r.header = bytes
    BY <1>11, <1>13, <2>1 DEF Decoders
  <2>3. i + p \in T + 1 .. L - 1
    BY <1>1, <1>3, <1>10, <1>14
  <2>4. InLength(r, e, i + p)
    BY <1>2, <1>11, <2>2, <2>3 DEF InLength, T, L
  <2> QED
    BY <1>10, <2>2, <2>4 DEF Keeps, HasRead, IsWithin, r, l, o
<1>15. CASE ~(have < needed)
  <2>1. i + c.offset = L /\ c.offset <= Len(input) /\ c.offset > d.offset
    BY <1>10, <1>13, <1>15 DEF l, o
  <2>2. VarNumber(bytes) = Len(e) - L
    BY <1>3, <1>10, <1>11, <1>15
  <2>3. Keeps(d, BeginValue(c, VarNumber(bytes)), e, i, input)
    BY <1>1, <1>5, <1>13, <2>1, <2>2, BeginValueKeeps DEF L
  <2> QED
    BY <1>4, <1>15, <2>3 DEF r
<1> QED
  BY <1>14, <1>15

-----------------------------------------------------------------------------
(* findElementEnd.                                                         *)

LEMMA DecoderStepKeeps ==
  ASSUME NEW d, NEW e, NEW i, NEW input, Reads(d, e, i, input)
  PROVE  Keeps(d, DecoderStep(d, input), e, i, input)
<1>1. ~d.gotElementEnd /\ ~(d.offset >= Len(input)) /\ d.state \in DecoderStates
  <2>1. d \in Decoders /\ Len(input) \in Nat /\ d.offset \in Nat /\ d.offset < Len(input)
        /\ ~d.gotElementEnd
    BY ReadsNext
  <2>2. d.state \in DecoderStates
    BY <2>1, DecoderFields
  <2> QED
    BY <2>1, <2>2
<1>2. CASE d.state = "type"
  <2>1. DecoderStep(d, input) = ReadType(d, input)
    BY <1>1, <1>2, Zenon DEF DecoderStep
  <2> QED
    BY <1>2, <2>1, ReadTypeKeeps
<1>3. CASE d.state = "typeBytes"
  <2>1. DecoderStep(d, input) = ReadTypeBytes(d, input)
    BY <1>1, <1>3 DEF DecoderStep
  <2> QED
    BY <1>3, <2>1, ReadTypeBytesKeeps
<1>4. CASE d.state = "length"
  <2>1. DecoderStep(d, input) = ReadLength(d, input)
    BY <1>1, <1>4 DEF DecoderStep
  <2> QED
    BY <1>4, <2>1, ReadLengthKeeps
<1>5. CASE d.state = "lengthBytes"
  <2>1. DecoderStep(d, input) = ReadLengthBytes(d, input)
    BY <1>1, <1>5 DEF DecoderStep
  <2> QED
    BY <1>5, <2>1, ReadLengthBytesKeeps
<1>6. CASE d.state = "value"
  <2>1. DecoderStep(d, input) = ReadValueBytes(d, input)
    BY <1>1, <1>6 DEF DecoderStep
  <2> QED
    BY <1>6, <2>1, ReadValueBytesKeeps
<1> QED
  BY <1>1, <1>2, <1>3, <1>4, <1>5, <1>6 DEF DecoderStates

(* The decoder after each pass of the loop.                                *)
ArePasses(f, d, input) ==
  f = [k \in 0 .. Len(input) |-> IF k = 0 THEN d ELSE DecoderStep(f[k - 1], input)]
Passes(d, input) == CHOOSE f : ArePasses(f, d, input)

(* How far the decoder, which was d, is after k passes.                    *)
IsAfter(r, k, e, i, input) ==
  /\ r \in Decoders /\ r.offset <= Len(input) /\ HasRead(r, e, i + r.offset)
  /\ r.gotElementEnd \/ r.offset >= k \/ r.offset = Len(input)

LEMMA PassKeepsPlace ==
  ASSUME NEW e \in Seq(Octets), IsElement(e), NEW i \in Nat, NEW input \in Seq(Octets),
         GoesOn(input, e, i), NEW k \in 1 .. Len(input), NEW r, IsAfter(r, k - 1, e, i, input)
  PROVE  IsAfter(DecoderStep(r, input), k, e, i, input)
<1>1. Len(input) \in Nat /\ r \in Decoders /\ r.offset \in Nat /\ r.offset <= Len(input) /\ k \in Nat
  BY LenProperties, DecoderFields DEF IsAfter
<1>2. CASE r.gotElementEnd \/ r.offset >= Len(input)
  <2>1. DecoderStep(r, input) = r
    BY <1>2 DEF DecoderStep
  <2>2. r.gotElementEnd \/ r.offset = Len(input)
    BY <1>1, <1>2
  <2> QED
    BY <2>1, <2>2 DEF IsAfter
<1>3. CASE ~(r.gotElementEnd \/ r.offset >= Len(input))
  <2>1. r.offset < Len(input) /\ ~r.gotElementEnd
    BY <1>1, <1>3
  <2>2. Reads(r, e, i, input)
    BY <2>1 DEF Reads, IsAfter
  <2> DEFINE q == DecoderStep(r, input)
  <2>3. Keeps(r, q, e, i, input)
    BY <2>2, DecoderStepKeeps
  <2> HIDE DEF q
  <2>4. q \in Decoders /\ q.offset <= Len(input) /\ HasRead(q, e, i + q.offset)
        /\ (q.gotElementEnd \/ q.offset > r.offset \/ q.offset = Len(input))
    BY <2>3 DEF Keeps
  <2>5. r.offset >= k - 1
    BY <2>1, <1>1 DEF IsAfter
  <2>6. q.offset \in Nat
    BY <2>4, DecoderFields
  <2>7. q.gotElementEnd \/ q.offset >= k \/ q.offset = Len(input)
    <3>1. CASE q.offset > r.offset
      BY <1>1, <2>5, <2>6, <3>1
    <3> QED
      BY <2>4, <3>1
  <2> QED
    BY <2>4, <2>7 DEF IsAfter, q
<1> QED
  BY <1>2, <1>3

LEMMA PassesByElement ==
  ASSUME NEW d, NEW input, NEW f
  PROVE  ArePasses(f, d, input) <=>
           /\ f = [k \in 0 .. Len(input) |-> f[k]]
           /\ \A k \in 0 .. Len(input) :
                f[k] = IF k = 0 THEN d ELSE DecoderStep(f[k - 1], input)
<1> DEFINE value(k) == IF k = 0 THEN d ELSE DecoderStep(f[k - 1], input)
           h == [k \in 0 .. Len(input) |-> value(k)]
<1> HIDE DEF value
<1>1. ASSUME f = h
      PROVE  f = [k \in 0 .. Len(input) |-> f[k]] /\ \A k \in 0 .. Len(input) : f[k] = value(k)
  <2>1. h = [k \in 0 .. Len(input) |-> h[k]] /\ \A k \in 0 .. Len(input) : h[k] = value(k)
    OBVIOUS
  <2> HIDE DEF h
  <2> QED
    BY <1>1, <2>1
<1>2. ASSUME f = [k \in 0 .. Len(input) |-> f[k]], \A k \in 0 .. Len(input) : f[k] = value(k)
      PROVE  f = h
  BY <1>2, Zenon
<1> QED
  BY <1>1, <1>2 DEF ArePasses, value

LEMMA FindElementEndIsPasses ==
  ASSUME NEW d, NEW input
  PROVE  FindElementEnd(d, input) = Passes(d, input)[Len(input)]
BY Zenon DEF FindElementEnd, Passes, ArePasses

(* The passes follow each other, when they keep the decoder in a set.      *)
LEMMA PassesSteps ==
  ASSUME NEW input \in Seq(Octets), NEW S, NEW d \in S,
         \A r \in S : DecoderStep(r, input) \in S
  PROVE  \A k \in 0 .. Len(input) :
           Passes(d, input)[k] = IF k = 0 THEN d ELSE DecoderStep(Passes(d, input)[k - 1], input)
<1> DEFINE n == Len(input)
           G == [p \in S \X (1 .. n) |-> DecoderStep(p[1], input)]
<1>1. n \in Nat
  BY LenProperties
<1> HIDE DEF n
<1>2. \A r \in S, k \in 1 .. n : G[<<r, k>>] = DecoderStep(r, input)
  OBVIOUS
<1>3. \A r \in S, k \in 1 .. n : G[<<r, k>>] \in S
  BY <1>2
<1> HIDE DEF G
<1>4. \E f : IsRecursion(f, n, S, d, G)
  BY <1>1, <1>3, RecursionExists
<1>5. PICK f : IsRecursion(f, n, S, d, G)
  BY <1>4
<1>6. /\ f = [k \in 0 .. n |-> f[k]] /\ \A k \in 0 .. n : f[k] \in S
      /\ f[0] = d /\ \A k \in 1 .. n : f[k] = G[<<f[k - 1], k>>]
  BY <1>5 DEF IsRecursion
<1>7. ASSUME NEW k \in 0 .. n
      PROVE  f[k] = IF k = 0 THEN d ELSE DecoderStep(f[k - 1], input)
  <2>1. CASE k = 0
    BY <1>6, <2>1
  <2>2. CASE k # 0
    <3>1. k \in 1 .. n /\ k - 1 \in 0 .. n
      BY <1>1, <2>2
    <3>2. f[k] = G[<<f[k - 1], k>>] /\ f[k - 1] \in S
      BY <1>6, <3>1
    <3> QED
      BY <1>2, <2>2, <3>1, <3>2
  <2> QED
    BY <2>1, <2>2
<1>8. ArePasses(f, d, input)
  BY <1>6, <1>7, PassesByElement DEF n
<1>9. ArePasses(Passes(d, input), d, input)
  BY <1>8 DEF Passes
<1> QED
  BY <1>9, PassesByElement

(* What each pass keeps holds when the loop ends.                          *)
LEMMA ScanStays ==
  ASSUME NEW input \in Seq(Octets), NEW S, NEW d \in S,
         \A r \in S : DecoderStep(r, input) \in S
  PROVE  FindElementEnd(d, input) \in S
<1> DEFINE n == Len(input)
           g == Passes(d, input)
           K == {k \in 0 .. n : g[k] \in S}
<1>1. n \in Nat
  BY LenProperties
<1>2. \A k \in 0 .. n : g[k] = IF k = 0 THEN d ELSE DecoderStep(g[k - 1], input)
  BY PassesSteps
<1>3. FindElementEnd(d, input) = g[n]
  BY FindElementEndIsPasses
<1> HIDE DEF g, n
<1>4. 0 \in K
  BY <1>1, <1>2
<1>5. ASSUME NEW k \in 1 .. n, k - 1 \in K PROVE k \in K
  <2>1. k \in 0 .. n /\ k # 0 /\ g[k - 1] \in S
    BY <1>1, <1>5
  <2>2. g[k] = DecoderStep(g[k - 1], input)
    BY <1>2, <2>1
  <2> QED
    BY <2>1, <2>2
<1> HIDE DEF K
<1>6. n \in K
  BY <1>1, <1>4, <1>5, PassesKeep
<1> QED
  BY <1>3, <1>6 DEF K

(* The passes keep the decoder's place in the element.                     *)
LEMMA PassesKeepPlace ==
  ASSUME NEW e \in Seq(Octets), IsElement(e), NEW i \in Nat, NEW input \in Seq(Octets),
         GoesOn(input, e, i), NEW d, IsAfter(d, 0, e, i, input)
  PROVE  IsAfter(Passes(d, input)[Len(input)], Len(input), e, i, input)
<1> DEFINE n == Len(input)
           S == {r \in Decoders : r.offset <= n /\ HasRead(r, e, i + r.offset)}
<1>1. n \in Nat
  BY LenProperties
<1>2. \A r, k : IsAfter(r, k, e, i, input) =>
        r \in S /\ (r.gotElementEnd \/ r.offset >= k \/ r.offset = n)
  BY DEF IsAfter
<1>3. \A r \in S : r \in Decoders
  OBVIOUS
<1>4. \A r \in S : IsAfter(r, 0, e, i, input)
  <2> TAKE r \in S
  <2>1. r.offset \in Nat
    BY DecoderFields
  <2>2. r.offset >= 0
    BY <2>1
  <2> QED
    BY <2>2 DEF IsAfter
<1>5. d \in S
  BY <1>2
<1> HIDE DEF S, n
<1>6. ASSUME NEW r \in S, NEW k \in 1 .. n
      PROVE  DecoderStep(r, input) \in S
  <2>1. 1 \in 1 .. n /\ 1 - 1 = 0
    BY <1>1
  <2>2. IsAfter(r, 1 - 1, e, i, input)
    BY <1>4, <2>1
  <2>3. IsAfter(DecoderStep(r, input), 1, e, i, input)
    BY <2>1, <2>2, PassKeepsPlace DEF n
  <2> QED
    BY <1>2, <2>3
<1>7. \A r \in S : DecoderStep(r, input) \in S
  <2> TAKE r \in S
  <2>1. CASE n # 0
    <3>1. 1 \in 1 .. n
      BY <1>1, <2>1
    <3> QED
      BY <1>6, <3>1
  <2>2. CASE n = 0
    <3>1. r \in Decoders /\ r.offset \in Nat
      BY <1>3, DecoderFields
    <3>2. DecoderStep(r, input) = r
      BY <2>2, <3>1 DEF DecoderStep, n
    <3> QED
      BY <3>2
  <2> QED
    BY <2>1, <2>2
<1> DEFINE g == Passes(d, input)
           K == {k \in 0 .. n : IsAfter(g[k], k, e, i, input)}
<1> HIDE DEF g
<1>8. \A k \in 0 .. n : g[k] = IF k = 0 THEN d ELSE DecoderStep(g[k - 1], input)
  BY <1>5, <1>7, PassesSteps DEF g, n
<1>9. 0 \in K
  <2>1. 0 \in 0 .. n
    BY <1>1
  <2>2. g[0] = d
    BY <1>8, <2>1
  <2> QED
    BY <2>1, <2>2
<1>10. ASSUME NEW k \in 1 .. n, k - 1 \in K PROVE k \in K
  <2>1. k \in 0 .. n /\ k # 0
    BY <1>1
  <2>2. g[k] = DecoderStep(g[k - 1], input)
    BY <1>8, <2>1
  <2>3. IsAfter(g[k - 1], k - 1, e, i, input)
    BY <1>10
  <2>4. IsAfter(g[k], k, e, i, input)
    BY <2>2, <2>3, PassKeepsPlace DEF n
  <2> QED
    BY <2>1, <2>4
<1> HIDE DEF K
<1>11. n \in K
  BY <1>1, <1>9, <1>10, PassesKeep
<1> QED
  BY <1>11 DEF K, g, n

(* When the input has the rest of the element, the decoder finds its end,  *)
(* and when it does not, the decoder has read all of the input.            *)
LEMMA ElementEndIsFound ==
  ASSUME NEW e \in Seq(Octets), IsElement(e), NEW i \in Nat, NEW input \in Seq(Octets),
         GoesOn(input, e, i), NEW d \in Decoders, IsWithin(d, e, i), NEW r,
         r = FindElementEnd([d EXCEPT !.offset = 0], input)
  PROVE  /\ r \in Decoders /\ r.offset \in 0 .. Len(input)
         /\ r.gotElementEnd => i + r.offset = Len(e)
         /\ ~r.gotElementEnd => r.offset = Len(input) /\ IsWithin(r, e, i + Len(input))
<1> DEFINE b == [d EXCEPT !.offset = 0]
<1>1. Len(input) \in Nat /\ 0 \in Nat
  BY LenProperties
<1>2. IsUpdated(b, d, 0, d.state, d.nBytesToRead)
  <2>1. d.state \in DecoderStates /\ d.nBytesToRead \in Nat
    BY DecoderFields
  <2> QED
    BY <1>1, <2>1, Updates
<1> HIDE DEF b
<1>3. b \in Decoders /\ b.offset = 0 /\ b.state = d.state /\ b.nBytesToRead = d.nBytesToRead
      /\ b.header = d.header /\ b.gotElementEnd = d.gotElementEnd
  BY <1>2 DEF IsUpdated
<1>4. IsWithin(b, e, i)
  BY <1>3 DEF IsWithin, InType, InLength, InValue
<1>5. i + b.offset = i /\ b.offset <= Len(input) /\ b.offset >= 0
  BY <1>1, <1>3
<1>6. IsAfter(b, 0, e, i, input)
  BY <1>3, <1>4, <1>5 DEF IsAfter, HasRead
<1>7. r = Passes(b, input)[Len(input)]
  BY FindElementEndIsPasses DEF b
<1>8. IsAfter(r, Len(input), e, i, input)
  BY <1>6, <1>7, PassesKeepPlace
<1>9. /\ r \in Decoders /\ r.offset <= Len(input) /\ HasRead(r, e, i + r.offset)
      /\ r.gotElementEnd \/ r.offset >= Len(input) \/ r.offset = Len(input)
  BY <1>8 DEF IsAfter
<1>10. r.offset \in Nat /\ r.offset \in 0 .. Len(input) /\ (r.gotElementEnd \/ r.offset = Len(input))
  <2>1. r.offset \in Nat
    BY <1>9, DecoderFields
  <2> QED
    BY <1>1, <1>9, <2>1
<1>11. r.gotElementEnd => i + r.offset = Len(e)
  BY <1>9 DEF HasRead, IsWithin
<1>12. ~r.gotElementEnd => r.offset = Len(input) /\ IsWithin(r, e, i + Len(input))
  BY <1>9, <1>10 DEF HasRead
<1> QED
  BY <1>9, <1>10, <1>11, <1>12

-----------------------------------------------------------------------------
(* The place of the reader in the stream.                                  *)

IsStream(s) == s \in Seq(Seq(Octets)) /\ \A n \in 1 .. Len(s) : IsElement(s[n])

(* n elements of the stream s, the first rec bytes of which were received, *)
(* are over, and of the next one i bytes; dat is not read.                 *)
PlaceOf(s, rec, dat, n, i) ==
  /\ n \in 0 .. Len(s) /\ i \in Nat /\ dat \in Seq(Octets)
  /\ rec = Len(Joins(s)[n]) + i + Len(dat) /\ rec <= Len(Joined(s))
  /\ \A j \in 1 .. Len(dat) : dat[j] = Joined(s)[Len(Joins(s)[n]) + i + j]

LEMMA JoinsLengths ==
  ASSUME NEW s \in Seq(Seq(Octets)), NEW n \in 0 .. Len(s)
  PROVE  /\ Len(s) \in Nat /\ Joins(s)[n] \in Seq(Octets) /\ Len(Joins(s)[n]) \in Nat
         /\ Joined(s) \in Seq(Octets) /\ Len(Joined(s)) \in Nat
         /\ IsPrefix(Joins(s)[n], Joined(s))
<1>1. Len(s) \in Nat
  BY LenProperties
<1>2. Len(s) \in 0 .. Len(s) /\ Len(s) \in n .. Len(s)
  BY <1>1
<1>3. Joined(s) = Joins(s)[Len(s)]
  BY JoinedIsJoins
<1>4. Joins(s)[n] \in Seq(Octets) /\ Joins(s)[Len(s)] \in Seq(Octets)
  BY <1>2, JoinsSteps
<1>5. IsPrefix(Joins(s)[n], Joins(s)[Len(s)])
  BY <1>2, JoinsGrow
<1> QED
  BY <1>1, <1>3, <1>4, <1>5, LenProperties

LEMMA NextElement ==
  ASSUME NEW s \in Seq(Seq(Octets)), NEW n \in 0 .. Len(s), n # Len(s)
  PROVE  /\ n + 1 \in 0 .. Len(s) /\ n + 1 \in 1 .. Len(s)
         /\ s[n + 1] \in Seq(Octets) /\ Len(s[n + 1]) \in Nat
         /\ Len(Joins(s)[n + 1]) = Len(Joins(s)[n]) + Len(s[n + 1])
         /\ Len(Joins(s)[n]) + Len(s[n + 1]) <= Len(Joined(s))
         /\ \A j \in 1 .. Len(s[n + 1]) : Joined(s)[Len(Joins(s)[n]) + j] = s[n + 1][j]
<1> DEFINE e == s[n + 1]
           a == Joins(s)[n]
           b == Joins(s)[n + 1]
           t == Joined(s)
<1>1. Len(s) \in Nat
  BY LenProperties
<1>2. n + 1 \in 0 .. Len(s) /\ n + 1 \in 1 .. Len(s) /\ (n + 1) - 1 = n
  BY <1>1
<1>3. e \in Seq(Octets)
  BY <1>2, ElementOfSeq
<1>4. Len(e) \in Nat
  BY <1>3, LenProperties
<1>5. b = a \o e
  BY <1>2, JoinsSteps
<1>6. a \in Seq(Octets) /\ Len(a) \in Nat
  BY JoinsLengths
<1>7. IsPrefix(b, t) /\ Len(t) \in Nat
  BY <1>2, JoinsLengths
<1> HIDE DEF e, a, b, t
<1>8. /\ Len(b) = Len(a) + Len(e)
      /\ \A j \in 1 .. Len(a) + Len(e) : b[j] = IF j <= Len(a) THEN a[j] ELSE e[j - Len(a)]
  BY <1>3, <1>5, <1>6, ConcatProperties
<1>9. Len(a) + Len(e) <= Len(t) /\ \A j \in 1 .. Len(a) + Len(e) : t[j] = b[j]
  BY <1>7, <1>8 DEF IsPrefix
<1>10. ASSUME NEW j \in 1 .. Len(e) PROVE t[Len(a) + j] = e[j]
  <2>1. Len(a) + j \in 1 .. Len(a) + Len(e) /\ ~(Len(a) + j <= Len(a)) /\ (Len(a) + j) - Len(a) = j
    BY <1>4, <1>6
  <2> QED
    BY <1>8, <1>9, <2>1
<1> QED
  BY <1>2, <1>3, <1>4, <1>8, <1>9, <1>10 DEF e, a, b, t

LEMMA PlaceGoesOn ==
  ASSUME NEW s \in Seq(Seq(Octets)), NEW rec, NEW dat, NEW n, NEW i, PlaceOf(s, rec, dat, n, i),
         n # Len(s)
  PROVE  GoesOn(dat, s[n + 1], i)
<1> DEFINE e == s[n + 1]
           a == Len(Joins(s)[n])
           t == Joined(s)
<1>1. n \in 0 .. Len(s) /\ i \in Nat /\ dat \in Seq(Octets)
      /\ \A j \in 1 .. Len(dat) : dat[j] = t[a + i + j]
  BY DEF PlaceOf
<1>2. Len(e) \in Nat /\ \A j \in 1 .. Len(e) : t[a + j] = e[j]
  BY <1>1, NextElement
<1>3. a \in Nat
  BY <1>1, JoinsLengths
<1>4. Len(dat) \in Nat
  BY <1>1, LenProperties
<1> HIDE DEF e, a, t
<1>5. ASSUME NEW j \in 1 .. Len(dat), i + j <= Len(e) PROVE dat[j] = e[i + j]
  <2>1. i + j \in 1 .. Len(e) /\ a + (i + j) = a + i + j
    BY <1>1, <1>2, <1>3, <1>4, <1>5
  <2> QED
    BY <1>1, <1>2, <2>1
<1> QED
  BY <1>5 DEF GoesOn, e

LEMMA PlaceIsInside ==
  ASSUME NEW s \in Seq(Seq(Octets)), NEW rec, NEW dat, NEW n, NEW i, PlaceOf(s, rec, dat, n, i),
         dat # <<>>
  PROVE  n # Len(s)
<1>1. n \in 0 .. Len(s) /\ i \in Nat /\ dat \in Seq(Octets)
      /\ rec = Len(Joins(s)[n]) + i + Len(dat) /\ rec <= Len(Joined(s))
  BY DEF PlaceOf
<1>2. Len(dat) \in Nat \ {0}
  BY <1>1, EmptySeq
<1>3. Len(Joins(s)[n]) \in Nat
  BY <1>1, JoinsLengths
<1>4. Joined(s) = Joins(s)[Len(s)]
  BY JoinedIsJoins
<1>5. ASSUME n = Len(s) PROVE FALSE
  <2>1. Len(Joined(s)) = Len(Joins(s)[n])
    BY <1>4, <1>5
  <2> QED
    BY <1>1, <1>2, <1>3, <2>1
<1> QED
  BY <1>5

LEMMA PlaceMoves ==
  ASSUME NEW s \in Seq(Seq(Octets)), NEW rec, NEW dat, NEW n, NEW i, PlaceOf(s, rec, dat, n, i)
  PROVE  PlaceOf(s, rec, <<>>, n, i + Len(dat)) /\ Len(dat) \in Nat /\ i + Len(dat) \in Nat
<1> DEFINE a == Len(Joins(s)[n])
           l == Len(dat)
<1>1. n \in 0 .. Len(s) /\ i \in Nat /\ dat \in Seq(Octets) /\ rec = a + i + l
      /\ rec <= Len(Joined(s))
  BY DEF PlaceOf
<1>2. l \in Nat
  BY <1>1, LenProperties
<1>3. a \in Nat
  BY <1>1, JoinsLengths
<1>4. <<>> \in Seq(Octets) /\ Len(<<>>) = 0
  BY EmptySeq
<1> HIDE DEF a, l
<1>5. i + l \in Nat /\ rec = a + (i + l) + 0
  BY <1>1, <1>2, <1>3
<1>6. \A j \in 1 .. 0 : <<>>[j] = Joined(s)[a + (i + l) + j]
  OBVIOUS
<1>7. PlaceOf(s, rec, <<>>, n, i + l)
  BY <1>1, <1>4, <1>5, <1>6 DEF PlaceOf, a
<1> QED
  BY <1>2, <1>5, <1>7 DEF l

LEMMA PlaceAtNext ==
  ASSUME NEW s \in Seq(Seq(Octets)), NEW rec, NEW dat, NEW n, NEW i, PlaceOf(s, rec, dat, n, i),
         n # Len(s), NEW k \in 0 .. Len(dat), i + k = Len(s[n + 1])
  PROVE  PlaceOf(s, rec, From(dat, k), n + 1, 0)
<1> DEFINE a == Len(Joins(s)[n])
           b == Len(Joins(s)[n + 1])
           l == Len(dat)
           t == Joined(s)
           new == From(dat, k)
<1>1. n \in 0 .. Len(s) /\ i \in Nat /\ dat \in Seq(Octets) /\ rec = a + i + l
      /\ rec <= Len(t) /\ \A j \in 1 .. l : dat[j] = t[a + i + j]
  BY DEF PlaceOf
<1>2. l \in Nat /\ k \in 0 .. l
  BY <1>1, LenProperties
<1>3. a \in Nat
  BY <1>1, JoinsLengths
<1>4. n + 1 \in 0 .. Len(s) /\ b = a + (i + k)
  BY <1>1, NextElement
<1> HIDE DEF a, b, t
<1>5. /\ new \in Seq(Octets) /\ Len(new) = l + 1 - (k + 1)
      /\ \A j \in 1 .. l + 1 - (k + 1) : new[j] = dat[k + 1 + j - 1]
  <2>1. k + 1 \in Nat \ {0} /\ k + 1 <= l + 1 /\ l <= l
    BY <1>2
  <2> QED
    BY <1>1, <1>2, <2>1, PieceProperties DEF From
<1> HIDE DEF new, l
<1>6. Len(new) = l - k /\ rec = b + 0 + Len(new)
  <2>1. Len(new) = l + 1 - (k + 1)
    BY <1>5
  <2>2. l \in Nat /\ k \in Nat /\ i \in Nat /\ rec = a + i + l
    BY <1>1, <1>2
  <2>3. Len(new) = l - k
    BY <2>1, <2>2
  <2> QED
    BY <1>3, <1>4, <2>2, <2>3
<1>7. ASSUME NEW j \in 1 .. Len(new) PROVE new[j] = t[b + 0 + j]
  <2>1. k + 1 + j - 1 = k + j /\ k + j \in 1 .. l /\ a + i + (k + j) = b + 0 + j
        /\ j \in 1 .. l + 1 - (k + 1)
    BY <1>1, <1>2, <1>3, <1>4, <1>6
  <2> QED
    BY <1>1, <1>5, <2>1
<1> QED
  BY <1>1, <1>4, <1>5, <1>6, <1>7 DEF PlaceOf, new, b, t

LEMMA PlaceReceives ==
  ASSUME NEW s \in Seq(Seq(Octets)), NEW rec, NEW n, NEW i, PlaceOf(s, rec, <<>>, n, i),
         NEW p \in Nat \ {0}, rec + p <= Len(Joined(s))
  PROVE  PlaceOf(s, rec + p, SubSeq(Joined(s), rec + 1, rec + p), n, i)
<1> DEFINE a == Len(Joins(s)[n])
           t == Joined(s)
           new == SubSeq(t, rec + 1, rec + p)
<1>1. n \in 0 .. Len(s) /\ i \in Nat /\ rec = a + i + Len(<<>>)
  BY DEF PlaceOf
<1>2. Len(<<>>) = 0
  BY EmptySeq
<1>3. a \in Nat /\ t \in Seq(Octets) /\ Len(t) \in Nat
  BY <1>1, JoinsLengths
<1>4. rec + p <= Len(t)
  OBVIOUS
<1> HIDE DEF a, t
<1>5. rec \in Nat /\ rec = a + i
  BY <1>1, <1>2, <1>3
<1>6. /\ new \in Seq(Octets) /\ Len(new) = rec + p + 1 - (rec + 1)
      /\ \A j \in 1 .. rec + p + 1 - (rec + 1) : new[j] = t[rec + 1 + j - 1]
  <2>1. rec + 1 \in Nat \ {0} /\ rec + p \in Nat /\ rec + 1 <= rec + p + 1
    BY <1>5
  <2> QED
    BY <1>3, <1>4, <2>1, PieceProperties
<1> HIDE DEF new
<1>7. Len(new) = p /\ rec + p = a + i + Len(new)
  BY <1>1, <1>3, <1>5, <1>6
<1>8. ASSUME NEW j \in 1 .. Len(new) PROVE new[j] = t[a + i + j]
  <2>1. rec + 1 + j - 1 = a + i + j /\ j \in 1 .. rec + p + 1 - (rec + 1)
    BY <1>1, <1>3, <1>5, <1>7
  <2> QED
    BY <1>6, <2>1
<1> QED
  BY <1>1, <1>4, <1>6, <1>7, <1>8 DEF PlaceOf, new, a, t

-----------------------------------------------------------------------------
(* What is reported.                                                       *)

(* f says which of the first n elements of s are reported in rep; the      *)
(* others do not fit.                                                      *)
ReportsOf(s, rep, n, f) ==
  /\ f \in [DOMAIN rep -> 1 .. n]
  /\ \A j, k \in DOMAIN rep : j < k => f[j] < f[k]
  /\ \A k \in DOMAIN rep : rep[k] = s[f[k]]
  /\ \A m \in 1 .. n : Len(s[m]) > Capacity \/ \E j \in DOMAIN rep : f[j] = m

LEMMA ReportsNothing ==
  ASSUME NEW s
  PROVE  \E f : ReportsOf(s, <<>>, 0, f)
<1> DEFINE f == [k \in {} |-> 0]
<1>1. DOMAIN <<>> = {}
  OBVIOUS
<1>2. 1 .. 0 = {}
  OBVIOUS
<1>3. f \in [{} -> 1 .. 0]
  OBVIOUS
<1> HIDE DEF f
<1>4. ReportsOf(s, <<>>, 0, f)
  BY <1>1, <1>2, <1>3 DEF ReportsOf
<1> QED
  BY <1>4

LEMMA ReportsSkip ==
  ASSUME NEW s, NEW rep, NEW n \in Nat, NEW f, ReportsOf(s, rep, n, f), Len(s[n + 1]) > Capacity
  PROVE  ReportsOf(s, rep, n + 1, f)
<1>1. f \in [DOMAIN rep -> 1 .. n + 1]
  <2>1. f \in [DOMAIN rep -> 1 .. n] /\ 1 .. n \subseteq 1 .. n + 1
    BY DEF ReportsOf
  <2> QED
    BY <2>1
<1>2. ASSUME NEW m \in 1 .. n + 1
      PROVE  Len(s[m]) > Capacity \/ \E j \in DOMAIN rep : f[j] = m
  <2>1. m = n + 1 \/ m \in 1 .. n
    OBVIOUS
  <2> QED
    BY <2>1 DEF ReportsOf
<1> QED
  BY <1>1, <1>2 DEF ReportsOf

LEMMA ReportsNext ==
  ASSUME NEW s, NEW S, NEW rep \in Seq(S), NEW n \in Nat, NEW f, ReportsOf(s, rep, n, f),
         s[n + 1] \in S
  PROVE  \E g : ReportsOf(s, Append(rep, s[n + 1]), n + 1, g)
<1> DEFINE new == Append(rep, s[n + 1])
           l == Len(rep)
           g == [k \in 1 .. l + 1 |-> IF k = l + 1 THEN n + 1 ELSE f[k]]
<1>1. /\ new \in Seq(S) /\ Len(new) = l + 1 /\ \A k \in 1 .. l : new[k] = rep[k]
      /\ new[l + 1] = s[n + 1] /\ l \in Nat /\ DOMAIN rep = 1 .. l
  BY AppendProperties, LenProperties
<1>2. DOMAIN new = 1 .. l + 1
  BY <1>1, LenProperties
<1>3. /\ f \in [1 .. l -> 1 .. n]
      /\ \A j, k \in 1 .. l : j < k => f[j] < f[k]
      /\ \A k \in 1 .. l : rep[k] = s[f[k]]
      /\ \A m \in 1 .. n : Len(s[m]) > Capacity \/ \E j \in 1 .. l : f[j] = m
  BY <1>1 DEF ReportsOf
<1> HIDE DEF new, l
<1>4. \A k \in 1 .. l : k \in 1 .. l + 1 /\ k # l + 1 /\ g[k] = f[k] /\ f[k] \in 1 .. n
  BY <1>1, <1>3
<1>5. l + 1 \in 1 .. l + 1 /\ g[l + 1] = n + 1
  BY <1>1
<1>6. \A k \in 1 .. l + 1 : k = l + 1 \/ k \in 1 .. l
  BY <1>1
<1>7. g \in [1 .. l + 1 -> 1 .. n + 1]
  <2>1. g = [k \in 1 .. l + 1 |-> g[k]]
    OBVIOUS
  <2> HIDE DEF g
  <2>2. n + 1 \in 1 .. n + 1 /\ \A x \in 1 .. n : x \in 1 .. n + 1
    OBVIOUS
  <2>3. \A k \in 1 .. l + 1 : g[k] \in 1 .. n + 1
    BY <1>4, <1>5, <1>6, <2>2
  <2> QED
    BY <2>1, <2>3
<1> HIDE DEF g
<1>8. ASSUME NEW j \in 1 .. l + 1, NEW k \in 1 .. l + 1, j < k PROVE g[j] < g[k]
  <2>1. j \in 1 .. l
    BY <1>1, <1>8
  <2>2. CASE k = l + 1
    <3>1. g[j] \in 1 .. n
      BY <1>4, <2>1
    <3> QED
      BY <1>5, <2>2, <3>1
  <2>3. CASE k \in 1 .. l
    BY <1>3, <1>4, <1>8, <2>1, <2>3
  <2> QED
    BY <1>6, <2>2, <2>3
<1>9. ASSUME NEW k \in 1 .. l + 1 PROVE new[k] = s[g[k]]
  <2>1. CASE k = l + 1
    BY <1>1, <1>5, <2>1
  <2>2. CASE k \in 1 .. l
    BY <1>1, <1>3, <1>4, <2>2
  <2> QED
    BY <1>6, <2>1, <2>2
<1>10. ASSUME NEW m \in 1 .. n + 1
       PROVE  Len(s[m]) > Capacity \/ \E j \in 1 .. l + 1 : g[j] = m
  <2>1. CASE m = n + 1
    BY <1>5, <2>1
  <2>2. CASE m \in 1 .. n
    <3>1. CASE Len(s[m]) > Capacity
      BY <3>1
    <3>2. CASE ~(Len(s[m]) > Capacity)
      <4>1. PICK j \in 1 .. l : f[j] = m
        BY <1>3, <2>2, <3>2
      <4> QED
        BY <1>4, <4>1
    <3> QED
      BY <3>1, <3>2
  <2> QED
    BY <2>1, <2>2
<1>11. ReportsOf(s, new, n + 1, g)
  BY <1>2, <1>7, <1>8, <1>9, <1>10 DEF ReportsOf
<1> QED
  BY <1>11 DEF new

LEMMA FirstOfNext ==
  ASSUME NEW S, NEW s \in Seq(S), NEW n \in 0 .. Len(s), n # Len(s)
  PROVE  First(s, n + 1) = Append(First(s, n), s[n + 1])
<1>1. Len(s) \in Nat
  BY LenProperties
<1>2. n + 1 \in 1 .. Len(s) /\ 1 \in 1 .. Len(s) /\ n + 1 \in 1 .. Len(s) /\ (n + 1) - 1 = n
  BY <1>1
<1>3. SubSeq(s, 1, n + 1) = SubSeq(s, 1, n) \o <<s[n + 1]>>
  BY <1>2, SubSeqRecursiveSecond
<1>4. First(s, n) \in Seq(S) /\ s[n + 1] \in S
  BY <1>2, FirstProperties, ElementOfSeq
<1>5. Append(First(s, n), s[n + 1]) = First(s, n) \o <<s[n + 1]>>
  BY <1>4, AppendIsConcat
<1> QED
  BY <1>3, <1>5 DEF First

(* The partial data and the input together are the bytes of the element.   *)
PartialJoins(e, input, i, k) ==
  /\ First(e, i) \o First(input, k) = First(e, i + k)
  /\ Len(First(e, i)) = i
  /\ First(e, Len(e)) = e /\ First(input, Len(input)) = input

LEMMA PartialAndInput ==
  ASSUME NEW e \in Seq(Octets), NEW input \in Seq(Octets), NEW i \in Nat, GoesOn(input, e, i),
         NEW k \in 0 .. Len(input), i + k <= Len(e)
  PROVE  PartialJoins(e, input, i, k)
<1>1. 1 \in Nat \ {0} /\ 0 \in Nat /\ k \in Nat /\ 0 + k <= Len(input) /\ 1 <= i + 0 + 1
      /\ i + 0 + k <= Len(e)
  BY LenProperties
<1>2. HeaderHasGrown(e, input, i, 1, 0, k)
  BY <1>1, HeaderGrows
<1>3. i + 0 = i /\ 0 + 1 = 1 /\ 0 + k = k /\ i + 0 + 1 - 1 = i
  OBVIOUS
<1>4. SubSeq(e, 1, i) \o SubSeq(input, 1, k) = SubSeq(e, 1, i + k) /\ Len(SubSeq(e, 1, i)) = i
  BY <1>2, <1>3 DEF HeaderHasGrown
<1> QED
  BY <1>4, SubSeqFull DEF First, PartialJoins

-----------------------------------------------------------------------------
(* The invariant of the reader.                                            *)

DecoderOf(s, d, n, i) ==
  IF n = Len(s) THEN i = 0 /\ d = InitDecoder
  ELSE d \in Decoders /\ IsWithin(d, s[n + 1], i)

(* The partial data are the first i bytes of the element, or they are not  *)
(* valid and the element does not fit.                                     *)
PartialOf(s, use, err, part, n, i) ==
  /\ use \in BOOLEAN /\ err \in BOOLEAN
  /\ use <=> i > 0
  /\ use /\ ~err => part = First(s[n + 1], i)
  /\ use /\ err => Len(s[n + 1]) > Capacity

ReportedOf(s, rep, n) ==
  /\ rep \in Seq(Seq(Octets))
  /\ \E f : ReportsOf(s, rep, n, f)
  /\ (\A m \in 1 .. Len(s) : Len(s[m]) <= Capacity) => rep = First(s, n)

(* The reader has read n elements and i bytes of the next one.             *)
InPlace(n, i) ==
  /\ PlaceOf(elements, received, data, n, i)
  /\ DecoderOf(elements, decoder, n, i)
  /\ PartialOf(elements, usePartialData, gotPartialDataError, partialData, n, i)
  /\ ReportedOf(elements, reported, n)

ReaderInv ==
  /\ elements \in Streams
  /\ ~isLost => \E n, i : InPlace(n, i)

LEMMA StreamsAreStreams ==
  ASSUME NEW s \in Streams
  PROVE  IsStream(s) /\ s \in Seq(Seq(Octets)) /\ Len(s) \in Nat /\ DOMAIN s = 1 .. Len(s)
         /\ Stream = Joined(elements)
<1>1. s \in Seq(Seq(Octets))
  BY ReaderAssumption DEF Octets
<1>2. Len(s) \in Nat /\ DOMAIN s = 1 .. Len(s)
  BY <1>1, LenProperties
<1>3. \A n \in 1 .. Len(s) : IsElement(s[n])
  BY <1>2, StreamsAssumption
<1> QED
  BY <1>1, <1>2, <1>3 DEF IsStream, Stream

LEMMA WithinIsBefore ==
  ASSUME NEW e \in Seq(Octets), IsElement(e), NEW d, NEW i \in Nat, IsWithin(d, e, i)
  PROVE  i < Len(e) /\ Len(e) \in Nat
<1> DEFINE m == Len(e)
           T == TypeEnd(e)
           L == LengthEnd(e)
<1>1. m \in Nat /\ 1 <= T /\ T < L /\ L <= m /\ T \in Nat /\ L \in Nat
  BY ElementLengths
<1>2. i = 0 \/ i \in 1 .. T - 1 \/ i = T \/ i \in T + 1 .. L - 1 \/ i \in L .. m - 1
  BY DEF IsWithin, InType, InLength, InValue
<1> HIDE DEF m, T, L
<1> QED
  BY <1>1, <1>2 DEF m

(* Where an element begins, the decoder is as it was in the beginning.     *)
LEMMA DecoderBegins ==
  ASSUME NEW s, NEW n
  PROVE  DecoderOf(s, InitDecoder, n, 0)
<1>1. InitDecoder \in Decoders
  <2>1. "type" \in DecoderStates
    BY States
  <2>2. <<>> \in Seq(Octets)
    BY EmptySeq
  <2> QED
    BY <2>1, <2>2 DEF InitDecoder, Decoders
<1>2. InitDecoder.gotElementEnd = FALSE /\ InitDecoder.state = "type" /\ InitDecoder.header = <<>>
  BY DEF InitDecoder
<1>3. IsWithin(InitDecoder, s[n + 1], 0)
  BY <1>2 DEF IsWithin, InType
<1> QED
  BY <1>1, <1>3 DEF DecoderOf

(* What onReceivedData finds with some data where the reader is in place.  *)
HasScanned(n, i) ==
  LET e == elements[n + 1] IN
  /\ n \in Nat /\ i \in Nat /\ data \in Seq(Octets) /\ Len(data) \in Nat \ {0}
  /\ n \in 0 .. Len(elements) /\ n # Len(elements)
  /\ e \in Seq(Octets) /\ IsElement(e) /\ GoesOn(data, e, i)
  /\ Scanned \in Decoders /\ Scanned.offset \in 0 .. Len(data)
  /\ Scanned.gotElementEnd => i + Scanned.offset = Len(e)
  /\ ~Scanned.gotElementEnd => IsWithin(Scanned, e, i + Len(data)) /\ i + Len(data) < Len(e)
  /\ i <= Len(e) /\ Len(e) \in Nat
  /\ ~HasPartialError => Partial = First(e, i) /\ Len(Partial) = i
  /\ HasPartialError => Len(e) > Capacity

LEMMA ScannedInPlace ==
  ASSUME elements \in Streams, NEW n, NEW i, InPlace(n, i), data # <<>>
  PROVE  HasScanned(n, i)
<1> DEFINE e == elements[n + 1]
<1>1. elements \in Seq(Seq(Octets)) /\ IsStream(elements) /\ Len(elements) \in Nat
  BY StreamsAreStreams
<1>2. n \in 0 .. Len(elements) /\ i \in Nat /\ data \in Seq(Octets)
  BY DEF InPlace, PlaceOf
<1>3. n # Len(elements)
  BY <1>1, PlaceIsInside DEF InPlace
<1>4. e \in Seq(Octets) /\ n + 1 \in 1 .. Len(elements)
  BY <1>1, <1>2, <1>3, NextElement
<1>5. IsElement(e)
  BY <1>1, <1>4 DEF IsStream
<1>6. GoesOn(data, e, i)
  BY <1>1, <1>3, PlaceGoesOn DEF InPlace
<1>7. decoder \in Decoders /\ IsWithin(decoder, e, i)
  BY <1>3 DEF InPlace, DecoderOf
<1>8. i < Len(e) /\ Len(e) \in Nat
  BY <1>2, <1>4, <1>5, <1>7, WithinIsBefore
<1>9. Len(data) \in Nat \ {0}
  BY <1>2, EmptySeq
<1>10. PartialOf(elements, usePartialData, gotPartialDataError, partialData, n, i)
  BY DEF InPlace
<1> HIDE DEF e
<1> DEFINE r == Scanned
<1>11. r = FindElementEnd([decoder EXCEPT !.offset = 0], data)
  BY DEF Scanned
<1> HIDE DEF r
<1>12. /\ r \in Decoders /\ r.offset \in 0 .. Len(data)
       /\ r.gotElementEnd => i + r.offset = Len(e)
       /\ ~r.gotElementEnd => r.offset = Len(data) /\ IsWithin(r, e, i + Len(data))
  BY <1>2, <1>4, <1>5, <1>6, <1>7, <1>11, ElementEndIsFound
<1>13. ~r.gotElementEnd => i + Len(data) < Len(e)
  <2>1. i + Len(data) \in Nat
    BY <1>2, <1>9
  <2> QED
    BY <1>4, <1>5, <1>12, <2>1, WithinIsBefore
<1>14. 0 \in 0 .. Len(data) /\ i + 0 <= Len(e)
  BY <1>2, <1>8, <1>9
<1>15. Len(First(e, i)) = i
  <2>1. PartialJoins(e, data, i, 0)
    BY <1>2, <1>4, <1>6, <1>14, PartialAndInput
  <2> QED
    BY <2>1 DEF PartialJoins
<1>16. i = 0 => First(e, i) = <<>>
  <2>1. SubSeq(e, 1, 0) = <<>>
    BY SubSeqEmpty
  <2> QED
    BY <2>1 DEF First
<1>17. ~HasPartialError => Partial = First(e, i)
  <2>1. CASE usePartialData
    BY <1>10, <2>1 DEF PartialOf, Partial, HasPartialError, e
  <2>2. CASE ~usePartialData
    <3>1. i = 0
      BY <1>2, <1>10, <2>2 DEF PartialOf
    <3> QED
      BY <1>16, <2>2, <3>1 DEF Partial
  <2> QED
    BY <2>1, <2>2
<1>18. HasPartialError => Len(e) > Capacity
  BY <1>10 DEF PartialOf, HasPartialError, e
<1>19. n \in Nat
  BY <1>1, <1>2
<1> QED
  BY <1>2, <1>3, <1>4, <1>5, <1>6, <1>8, <1>9, <1>12, <1>13, <1>15, <1>17, <1>18, <1>19
     DEF HasScanned, e, r

LEMMA ReceivesInPlace ==
  ASSUME elements \in Streams, NEW n, NEW i, InPlace(n, i), NEW p \in 1 .. MaxPiece,
         OnReceivedData(p)
  PROVE  InPlace(n, i)'
<1>1. elements \in Seq(Seq(Octets)) /\ Stream = Joined(elements)
  BY StreamsAreStreams
<1>2. /\ elements' = elements /\ decoder' = decoder /\ usePartialData' = usePartialData
      /\ gotPartialDataError' = gotPartialDataError /\ partialData' = partialData
      /\ reported' = reported
  BY DEF OnReceivedData
<1>3. /\ data = <<>> /\ received + p <= Len(Joined(elements)) /\ received' = received + p
      /\ data' = SubSeq(Joined(elements), received + 1, received + p)
  BY <1>1 DEF OnReceivedData
<1>4. p \in Nat \ {0}
  BY ReaderAssumption
<1>5. PlaceOf(elements, received, <<>>, n, i)
  BY <1>3 DEF InPlace
<1>6. PlaceOf(elements, received', data', n, i)
  BY <1>1, <1>3, <1>4, <1>5, PlaceReceives
<1> QED
  BY <1>2, <1>6 DEF InPlace

(* In the middle of the element, the reader goes on from there.            *)
LEMMA MiddleInPlace ==
  ASSUME elements \in Streams, NEW n, NEW i, InPlace(n, i),
         SavePartial \/ SkipPartial \/ PartialDoesNotFit, NEW k, k = i + Len(data)
  PROVE  InPlace(n, k)'
<1> DEFINE e == elements[n + 1]
<1>1. /\ data # <<>> /\ ~Scanned.gotElementEnd
      /\ elements' = elements /\ received' = received /\ reported' = reported
      /\ data' = <<>> /\ decoder' = Scanned
  BY DEF SavePartial, SkipPartial, PartialDoesNotFit, IsInMiddle, ReturnError
<1>2. HasScanned(n, i)
  BY <1>1, ScannedInPlace
<1>3. /\ n \in Nat /\ i \in Nat /\ Len(data) \in Nat \ {0} /\ data \in Seq(Octets)
      /\ e \in Seq(Octets) /\ GoesOn(data, e, i) /\ n # Len(elements)
      /\ Scanned \in Decoders /\ IsWithin(Scanned, e, k) /\ k < Len(e) /\ Len(e) \in Nat
  BY <1>1, <1>2 DEF HasScanned
<1>4. /\ ~HasPartialError => Partial = First(e, i) /\ Len(Partial) = i
      /\ HasPartialError => Len(e) > Capacity
  BY <1>2 DEF HasScanned
<1>5. elements \in Seq(Seq(Octets))
  BY StreamsAreStreams
<1>6. PlaceOf(elements, received, <<>>, n, k)
  BY <1>5, PlaceMoves DEF InPlace
<1>7. DecoderOf(elements, Scanned, n, k)
  BY <1>3 DEF DecoderOf
<1>8. Len(data) \in 0 .. Len(data) /\ i + Len(data) <= Len(e) /\ k \in Nat /\ k > 0
  BY <1>3
<1>9. First(e, i) \o data = First(e, k)
  <2>1. PartialJoins(e, data, i, Len(data))
    <3> HIDE DEF e
    <3> QED
      BY <1>3, <1>8, PartialAndInput
  <2> QED
    BY <2>1 DEF PartialJoins
<1> HIDE DEF e
<1>10. PartialOf(elements, usePartialData', gotPartialDataError', partialData', n, k)
  <2>1. CASE SavePartial
    <3>1. usePartialData' = TRUE /\ gotPartialDataError' = FALSE /\ partialData' = First(e, k)
      BY <1>4, <1>9, <2>1 DEF SavePartial
    <3> QED
      BY <1>8, <3>1 DEF PartialOf, e
  <2>2. CASE SkipPartial
    <3>1. usePartialData' = TRUE /\ gotPartialDataError' = TRUE /\ Len(e) > Capacity
      BY <1>4, <2>2 DEF SkipPartial, HasPartialError, InPlace, PartialOf
    <3> QED
      BY <1>8, <3>1 DEF PartialOf, e
  <2>3. CASE PartialDoesNotFit
    <3>1. usePartialData' = TRUE /\ gotPartialDataError' = TRUE
          /\ Len(Partial) + Len(data) > Capacity /\ ~HasPartialError
      BY <2>3 DEF PartialDoesNotFit, CopyErrorFlag
    <3>2. k > Capacity
      BY <1>4, <3>1
    <3>3. Len(e) > Capacity
      BY <1>3, <1>8, <3>2, ReaderAssumption
    <3> QED
      BY <1>8, <3>1, <3>3 DEF PartialOf, e
  <2> QED
    BY <2>1, <2>2, <2>3
<1>11. ReportedOf(elements, reported, n)
  BY DEF InPlace
<1>12. /\ PlaceOf(elements', received', data', n, k)
       /\ DecoderOf(elements', decoder', n, k)
       /\ PartialOf(elements', usePartialData', gotPartialDataError', partialData', n, k)
       /\ ReportedOf(elements', reported', n)
  BY <1>1, <1>6, <1>7, <1>10, <1>11
<1> QED
  BY <1>12 DEF InPlace

(* At the end of an element, the reader is where the next one begins.      *)
LEMMA EndInPlace ==
  ASSUME elements \in Streams, NEW n, NEW i, InPlace(n, i), ElementEnds, ~isLost'
  PROVE  InPlace(n + 1, 0)'
<1> DEFINE e == elements[n + 1]
           o == Scanned.offset
<1>1. /\ data # <<>> /\ Scanned.gotElementEnd
      /\ elements' = elements /\ received' = received /\ decoder' = InitDecoder
      /\ usePartialData' = FALSE /\ gotPartialDataError' = gotPartialDataError
      /\ reported' = IF HasPartialError THEN reported
                     ELSE Append(reported, Partial \o First(data, o))
      /\ data' = From(data, o) \/ (data' = <<>> /\ isLost' = (isLost \/ o < Len(data)))
  BY DEF ElementEnds
<1>2. HasScanned(n, i)
  BY <1>1, ScannedInPlace
<1>3. /\ n \in Nat /\ i \in Nat /\ Len(data) \in Nat \ {0} /\ data \in Seq(Octets)
      /\ e \in Seq(Octets) /\ GoesOn(data, e, i)
      /\ n # Len(elements) /\ n \in 0 .. Len(elements)
      /\ o \in 0 .. Len(data) /\ i + o = Len(e) /\ Len(e) \in Nat
  BY <1>1, <1>2 DEF HasScanned
<1>4. /\ ~HasPartialError => Partial = First(e, i)
      /\ HasPartialError => Len(e) > Capacity
  BY <1>2 DEF HasScanned
<1>5. elements \in Seq(Seq(Octets))
  BY StreamsAreStreams
<1>6. PlaceOf(elements, received, From(data, o), n + 1, 0)
  BY <1>3, <1>5, PlaceAtNext DEF InPlace
<1>7. DecoderOf(elements, InitDecoder, n + 1, 0)
  BY DecoderBegins
<1>8. First(e, i) \o First(data, o) = e
  <2>1. /\ e \in Seq(Octets) /\ data \in Seq(Octets) /\ i \in Nat /\ GoesOn(data, e, i)
        /\ o \in 0 .. Len(data) /\ i + o <= Len(e)
    BY <1>3
  <2>2. PartialJoins(e, data, i, o)
    <3> HIDE DEF e, o
    <3> QED
      BY <2>1, PartialAndInput
  <2> QED
    BY <1>3, <2>2 DEF PartialJoins
<1>9. e \in Seq(Octets) /\ n + 1 \in 1 .. Len(elements) /\ Len(elements) \in Nat
  BY <1>3, <1>5, NextElement, LenProperties
<1>10. gotPartialDataError \in BOOLEAN
  BY DEF InPlace, PartialOf
<1> HIDE DEF e, o
<1>11. data' = From(data, o)
  <2>1. CASE data' = <<>> /\ isLost' = (isLost \/ o < Len(data))
    <3>1. ~(o < Len(data))
      BY <2>1
    <3>2. o = Len(data)
      BY <1>3, <3>1
    <3>3. SubSeq(data, Len(data) + 1, Len(data)) = <<>>
      <4>1. Len(data) + 1 \in Int /\ Len(data) \in Int /\ Len(data) < Len(data) + 1
        BY <1>3
      <4> QED
        BY <4>1, SubSeqEmpty
    <3> QED
      BY <2>1, <3>2, <3>3 DEF From
  <2> QED
    BY <1>1, <2>1
<1>12. PartialOf(elements, FALSE, gotPartialDataError, partialData', n + 1, 0)
  BY <1>10 DEF PartialOf
<1>13. ReportedOf(elements, reported', n + 1)
  <2>1. /\ reported \in Seq(Seq(Octets))
        /\ (\A m \in 1 .. Len(elements) : Len(elements[m]) <= Capacity)
             => reported = First(elements, n)
    BY DEF InPlace, ReportedOf
  <2>2. PICK f : ReportsOf(elements, reported, n, f)
    BY DEF InPlace, ReportedOf
  <2>3. CASE HasPartialError
    <3>1. reported' = reported /\ Len(elements[n + 1]) > Capacity
      BY <1>1, <1>4, <2>3 DEF e
    <3>2. ReportsOf(elements, reported, n + 1, f)
      BY <1>3, <2>2, <3>1, ReportsSkip
    <3>3. ~\A m \in 1 .. Len(elements) : Len(elements[m]) <= Capacity
      <4>1. ~(Len(elements[n + 1]) <= Capacity)
        <5>1. Len(e) > Capacity
          BY <1>4, <2>3
        <5>2. ~(Len(e) <= Capacity)
          BY <1>3, <5>1, ReaderAssumption
        <5> QED
          BY <5>2 DEF e
      <4> QED
        BY <1>9, <4>1
    <3> QED
      BY <2>1, <3>1, <3>2, <3>3 DEF ReportedOf
  <2>4. CASE ~HasPartialError
    <3>1. reported' = Append(reported, elements[n + 1])
      BY <1>1, <1>4, <1>8, <2>4 DEF e
    <3>2. elements[n + 1] \in Seq(Octets)
      BY <1>9 DEF e
    <3>3. \E g : ReportsOf(elements, reported', n + 1, g)
      BY <1>3, <2>1, <2>2, <3>1, <3>2, ReportsNext
    <3>4. reported' \in Seq(Seq(Octets))
      BY <2>1, <3>1, <3>2, AppendProperties
    <3>5. First(elements, n + 1) = Append(First(elements, n), elements[n + 1])
      BY <1>3, <1>5, FirstOfNext
    <3> QED
      BY <2>1, <3>1, <3>3, <3>4, <3>5 DEF ReportedOf
  <2> QED
    BY <2>3, <2>4
<1>14. /\ PlaceOf(elements', received', data', n + 1, 0)
       /\ DecoderOf(elements', decoder', n + 1, 0)
       /\ PartialOf(elements', usePartialData', gotPartialDataError', partialData', n + 1, 0)
       /\ ReportedOf(elements', reported', n + 1)
  BY <1>1, <1>6, <1>7, <1>11, <1>12, <1>13
<1> QED
  BY <1>14 DEF InPlace

LEMMA ReaderBegins == ReaderInit => ReaderInv
<1> SUFFICES ASSUME ReaderInit PROVE ReaderInv
  OBVIOUS
<1>1. /\ elements \in Streams /\ received = 0 /\ data = <<>> /\ decoder = InitDecoder
      /\ usePartialData = FALSE /\ gotPartialDataError = FALSE /\ reported = <<>>
  BY DEF ReaderInit
<1>2. elements \in Seq(Seq(Octets)) /\ Len(elements) \in Nat
  BY <1>1, StreamsAreStreams
<1>3. PlaceOf(elements, received, data, 0, 0)
  <2>1. 0 \in 0 .. Len(elements) /\ <<>> \in Seq(Octets) /\ Len(<<>>) = 0
    BY <1>2, EmptySeq
  <2>2. Joins(elements)[0] = <<>> /\ Len(Joined(elements)) \in Nat
    BY <1>2, <2>1, JoinsSteps, JoinsLengths
  <2>3. 0 = Len(Joins(elements)[0]) + 0 + Len(<<>>) /\ 0 <= Len(Joined(elements))
    BY <2>1, <2>2
  <2>4. \A j \in 1 .. 0 : <<>>[j] = Joined(elements)[Len(Joins(elements)[0]) + 0 + j]
    OBVIOUS
  <2> QED
    BY <1>1, <2>1, <2>3, <2>4 DEF PlaceOf
<1>4. DecoderOf(elements, decoder, 0, 0)
  BY <1>1, DecoderBegins
<1>5. PartialOf(elements, usePartialData, gotPartialDataError, partialData, 0, 0)
  <2>1. PartialOf(elements, FALSE, FALSE, partialData, 0, 0)
    BY DEF PartialOf
  <2> QED
    BY <1>1, <2>1
<1>6. ReportedOf(elements, reported, 0)
  <2>1. <<>> \in Seq(Seq(Octets))
    BY EmptySeq
  <2>2. \E f : ReportsOf(elements, <<>>, 0, f)
    BY ReportsNothing
  <2>3. First(elements, 0) = <<>>
    <3>1. SubSeq(elements, 1, 0) = <<>>
      BY SubSeqEmpty
    <3> QED
      BY <3>1 DEF First
  <2> QED
    BY <1>1, <2>1, <2>2, <2>3 DEF ReportedOf
<1> QED
  BY <1>1, <1>3, <1>4, <1>5, <1>6 DEF ReaderInv, InPlace

LEMMA ReaderKeeps == ReaderInv /\ [ReaderNext]_readerVars => ReaderInv'
<1> SUFFICES ASSUME ReaderInv, [ReaderNext]_readerVars PROVE ReaderInv'
  OBVIOUS
<1>1. elements \in Streams
  BY DEF ReaderInv
<1>2. elements' = elements
  BY DEF ReaderNext, readerVars, OnReceivedData, ElementEnds, ElementEndDoesNotFit, SavePartial,
         SkipPartial, PartialExceedsMaximum, PartialDoesNotFit, ReturnError
<1>3. ASSUME ~isLost' PROVE \E n, i : InPlace(n, i)'
  <2>1. CASE \E p \in 1 .. MaxPiece : OnReceivedData(p)
    <3>1. PICK p \in 1 .. MaxPiece : OnReceivedData(p)
      BY <2>1
    <3>2. ~isLost
      BY <1>3, <3>1 DEF OnReceivedData
    <3>3. PICK n, i : InPlace(n, i)
      BY <3>2 DEF ReaderInv
    <3>4. InPlace(n, i)'
      BY <1>1, <3>1, <3>3, ReceivesInPlace
    <3> QED
      BY <3>4
  <2>2. CASE ElementEnds
    <3>1. ~isLost
      BY <1>3, <2>2 DEF ElementEnds
    <3>2. PICK n, i : InPlace(n, i)
      BY <3>1 DEF ReaderInv
    <3>3. InPlace(n + 1, 0)'
      BY <1>1, <1>3, <2>2, <3>2, EndInPlace
    <3> QED
      BY <3>3
  <2>3. CASE SavePartial \/ SkipPartial \/ PartialDoesNotFit
    <3>1. ~isLost
      BY <1>3, <2>3 DEF SavePartial, SkipPartial, PartialDoesNotFit
    <3>2. PICK n, i : InPlace(n, i)
      BY <3>1 DEF ReaderInv
    <3>3. \E k : k = i + Len(data)
      OBVIOUS
    <3>4. PICK k : k = i + Len(data)
      BY <3>3
    <3>5. InPlace(n, k)'
      BY <1>1, <2>3, <3>2, <3>4, MiddleInPlace
    <3> QED
      BY <3>5
  <2>4. CASE ElementEndDoesNotFit \/ PartialExceedsMaximum
    BY <1>3, <2>4 DEF ElementEndDoesNotFit, PartialExceedsMaximum
  <2>5. CASE UNCHANGED readerVars
    <3>1. ~isLost
      BY <1>3, <2>5 DEF readerVars
    <3>2. PICK n, i : InPlace(n, i)
      BY <3>1 DEF ReaderInv
    <3>3. InPlace(n, i)'
      BY <2>5, <3>2 DEF readerVars, InPlace
    <3> QED
      BY <3>3
  <2> QED
    BY <2>1, <2>2, <2>3, <2>4, <2>5 DEF ReaderNext
<1> QED
  BY <1>1, <1>2, <1>3 DEF ReaderInv

-----------------------------------------------------------------------------
(* The theorems.                                                           *)

(* The reader never loses its place, but where an error return drops bytes *)
(* that the decoder has not seen: it has read some elements and some bytes *)
(* of the next one, the state of the decoder is a place in that element,   *)
(* partialData has the bytes before it or is marked as not valid, and the  *)
(* elements before it were reported or do not fit.                         *)
THEOREM ReaderStaysInPlace == ReaderSpec => []ReaderInv
<1> QED
  BY ReaderBegins, ReaderKeeps, PTL DEF ReaderSpec

LEMMA PlaceSkipsOnlyTooLong == ReaderInv => SkipsOnlyTooLong
<1> SUFFICES ASSUME ReaderInv, ~isLost PROVE SkipsOnlyTooLong
  BY DEF SkipsOnlyTooLong
<1>1. elements \in Streams
  BY DEF ReaderInv
<1>2. Len(elements) \in Nat /\ DOMAIN elements = 1 .. Len(elements)
  BY <1>1, StreamsAreStreams
<1>3. PICK n, i : InPlace(n, i)
  BY DEF ReaderInv
<1>4. n \in 0 .. Len(elements)
  BY <1>3 DEF InPlace, PlaceOf
<1>5. PICK f : ReportsOf(elements, reported, n, f)
  BY <1>3 DEF InPlace, ReportedOf
<1>6. /\ f \in [DOMAIN reported -> 1 .. n]
      /\ \A j, k \in DOMAIN reported : j < k => f[j] < f[k]
      /\ \A k \in DOMAIN reported : reported[k] = elements[f[k]]
      /\ \A m \in 1 .. n : Len(elements[m]) > Capacity \/ \E j \in DOMAIN reported : f[j] = m
  BY <1>5 DEF ReportsOf
<1>7. 1 .. n \subseteq DOMAIN elements
  BY <1>2, <1>4
<1>8. f \in [DOMAIN reported -> DOMAIN elements]
  BY <1>6, <1>7
<1>9. ASSUME NEW k \in DOMAIN reported, NEW m \in DOMAIN elements, m < f[k]
      PROVE  Len(elements[m]) > Capacity \/ \E j \in DOMAIN reported : f[j] = m
  <2>1. f[k] \in 1 .. n
    BY <1>6
  <2>2. m \in 1 .. n
    BY <1>2, <1>4, <1>9, <2>1
  <2> QED
    BY <1>6, <2>2
<1> QED
  BY <1>6, <1>8, <1>9 DEF SkipsOnlyTooLong

(* An element that is too long for partialData is skipped as a whole, and  *)
(* no other: what onReceivedElement gets are the elements of the stream in *)
(* their order without some of those that are too long, however the bytes  *)
(* are cut into pieces, until an error return drops bytes of a piece.      *)
THEOREM ReaderSkipsOnlyTooLong == ReaderSpec => []SkipsOnlyTooLong
<1> QED
  BY ReaderStaysInPlace, PlaceSkipsOnlyTooLong, PTL

(* Where nothing is left to read, no further element has arrived.          *)
LEMMA NextHasNotArrived ==
  ASSUME elements \in Streams, NEW n, NEW i, InPlace(n, i), data = <<>>,
         NEW m \in 1 .. Len(elements), Len(Joined(First(elements, m))) <= received
  PROVE  m <= n
<1>1. elements \in Seq(Seq(Octets)) /\ Len(elements) \in Nat /\ IsStream(elements)
  BY StreamsAreStreams
<1>2. n \in 0 .. Len(elements) /\ i \in Nat /\ received = Len(Joins(elements)[n]) + i + Len(data)
  BY DEF InPlace, PlaceOf
<1>3. Len(data) = 0 /\ m \in 0 .. Len(elements)
  BY <1>1, EmptySeq
<1>4. Joined(First(elements, m)) = Joins(elements)[m]
  BY <1>1, <1>3, JoinedFirst
<1>5. Len(Joins(elements)[n]) \in Nat /\ Len(Joins(elements)[m]) \in Nat
  BY <1>1, <1>2, <1>3, JoinsLengths
<1>6. received = Len(Joins(elements)[n]) + i
  BY <1>2, <1>3, <1>5
<1>7. ASSUME n < m PROVE FALSE
  <2> DEFINE e == elements[n + 1]
             a == Len(Joins(elements)[n])
             b == Len(Joins(elements)[n + 1])
             c == Len(Joins(elements)[m])
  <2>1. n # Len(elements) /\ m \in n + 1 .. Len(elements) /\ n + 1 \in 0 .. Len(elements)
    BY <1>1, <1>2, <1>3, <1>7
  <2>2. e \in Seq(Octets) /\ n + 1 \in 1 .. Len(elements) /\ Len(e) \in Nat /\ b = a + Len(e)
    BY <1>1, <1>2, <2>1, NextElement
  <2>3. IsElement(e)
    BY <1>1, <2>2 DEF IsStream
  <2>4. IsWithin(decoder, e, i)
    BY <2>1 DEF InPlace, DecoderOf
  <2>5. i < Len(e)
    BY <1>2, <2>2, <2>3, <2>4, WithinIsBefore
  <2>6. IsPrefix(Joins(elements)[n + 1], Joins(elements)[m])
    BY <1>1, <2>1, JoinsGrow
  <2>7. b <= c
    BY <2>6 DEF IsPrefix
  <2>8. c <= a + i
    BY <1>4, <1>6
  <2> DEFINE l == Len(e)
  <2> HIDE DEF a, b, c, e, l
  <2>9. a \in Nat /\ c \in Nat /\ l \in Nat /\ b = a + l /\ i < l
    BY <1>5, <2>2, <2>5 DEF a, c, l
  <2> QED
    BY <1>2, <2>7, <2>8, <2>9
<1> QED
  BY <1>2, <1>3, <1>7

LEMMA PlaceReportedInOrder == ReaderInv => ReportedInOrder
<1> SUFFICES ASSUME ReaderInv, AllFit PROVE ReportedInOrder
  BY DEF ReportedInOrder
<1>1. elements \in Streams /\ ~isLost
  BY DEF ReaderInv, AllFit
<1>2. Len(elements) \in Nat /\ DOMAIN elements = 1 .. Len(elements)
      /\ elements \in Seq(Seq(Octets))
  BY <1>1, StreamsAreStreams
<1>3. PICK n, i : InPlace(n, i)
  BY <1>1 DEF ReaderInv
<1>4. n \in 0 .. Len(elements)
  BY <1>3 DEF InPlace, PlaceOf
<1>5. \A m \in 1 .. Len(elements) : Len(elements[m]) <= Capacity
  BY <1>2 DEF AllFit
<1>6. reported = First(elements, n)
  BY <1>3, <1>5 DEF InPlace, ReportedOf
<1>7. Len(reported) = n
  BY <1>2, <1>4, <1>6, FirstProperties
<1>8. n <= Len(elements)
  BY <1>2, <1>4
<1>9. ASSUME data = <<>>, NEW m \in DOMAIN elements,
             Len(Joined(First(elements, m))) <= received
      PROVE  n >= m
  <2>1. m <= n
    BY <1>1, <1>2, <1>3, <1>9, NextHasNotArrived
  <2> QED
    BY <1>2, <1>4, <2>1
<1> QED
  BY <1>6, <1>7, <1>8, <1>9 DEF ReportedInOrder

(* When every element fits, onReceivedElement gets them whole and in       *)
(* order, and when onReceivedData returns, all those that have arrived:    *)
(* for pieces of any length, cut within a type, a length or a value.       *)
THEOREM ReaderReportsInOrder == ReaderSpec => []ReportedInOrder
<1> QED
  BY ReaderStaysInPlace, PlaceReportedInOrder, PTL

-----------------------------------------------------------------------------
(* The buffers of fixed length, for any bytes.                             *)

AreNumbers(f, bytes) ==
  f = [k \in 0 .. Len(bytes) |-> IF k = 0 THEN 0 ELSE 256 * f[k - 1] + bytes[k]]
Numbers(bytes) == CHOOSE f : AreNumbers(f, bytes)

LEMMA NumbersByElement ==
  ASSUME NEW bytes, NEW f
  PROVE  AreNumbers(f, bytes) <=>
           /\ f = [k \in 0 .. Len(bytes) |-> f[k]]
           /\ \A k \in 0 .. Len(bytes) : f[k] = IF k = 0 THEN 0 ELSE 256 * f[k - 1] + bytes[k]
<1> DEFINE value(k) == IF k = 0 THEN 0 ELSE 256 * f[k - 1] + bytes[k]
           n == Len(bytes)
           h == [k \in 0 .. n |-> value(k)]
<1> HIDE DEF value, n
<1>1. ASSUME f = h PROVE f = [k \in 0 .. n |-> f[k]] /\ \A k \in 0 .. n : f[k] = value(k)
  <2>1. h = [k \in 0 .. n |-> h[k]] /\ \A k \in 0 .. n : h[k] = value(k)
    OBVIOUS
  <2> HIDE DEF h
  <2> QED
    BY <1>1, <2>1
<1>2. ASSUME f = [k \in 0 .. n |-> f[k]], \A k \in 0 .. n : f[k] = value(k)
      PROVE  f = h
  BY <1>2, Zenon
<1> QED
  BY <1>1, <1>2 DEF AreNumbers, value, n

LEMMA NumberIsNumbers ==
  ASSUME NEW bytes
  PROVE  VarNumber(bytes) = Numbers(bytes)[Len(bytes)]
BY Zenon DEF VarNumber, Numbers, AreNumbers

LEMMA NumberIsNatural ==
  ASSUME NEW bytes \in Seq(Octets)
  PROVE  VarNumber(bytes) \in Nat
<1> DEFINE n == Len(bytes)
           G == [p \in Nat \X (1 .. n) |-> 256 * p[1] + bytes[p[2]]]
<1>1. n \in Nat
  BY LenProperties
<1>2. \A k \in 1 .. n : bytes[k] \in Nat
  <2>1. \A k \in 1 .. n : bytes[k] \in Octets
    BY ElementOfSeq
  <2>2. \A o \in Octets : o \in Nat
    BY DEF Octets
  <2> QED
    BY <2>1, <2>2
<1> HIDE DEF n
<1>3. \A x \in Nat, k \in 1 .. n : G[<<x, k>>] = 256 * x + bytes[k]
  OBVIOUS
<1> HIDE DEF G
<1>4. ASSUME NEW x \in Nat, NEW k \in 1 .. n PROVE G[<<x, k>>] \in Nat
  <2>1. bytes[k] \in Nat
    BY <1>2
  <2>2. 256 * x + bytes[k] \in Nat
    BY <2>1
  <2> QED
    BY <1>3, <2>2
<1>5. 0 \in Nat
  OBVIOUS
<1>6. \E f : IsRecursion(f, n, Nat, 0, G)
  BY <1>1, <1>4, <1>5, RecursionExists
<1>7. PICK f : IsRecursion(f, n, Nat, 0, G)
  BY <1>6
<1>8. /\ f = [k \in 0 .. n |-> f[k]] /\ \A k \in 0 .. n : f[k] \in Nat
      /\ f[0] = 0 /\ \A k \in 1 .. n : f[k] = G[<<f[k - 1], k>>]
  BY <1>7 DEF IsRecursion
<1>9. ASSUME NEW k \in 0 .. n PROVE f[k] = IF k = 0 THEN 0 ELSE 256 * f[k - 1] + bytes[k]
  <2>1. CASE k = 0
    BY <1>8, <2>1
  <2>2. CASE k # 0
    <3>1. k \in 1 .. n /\ k - 1 \in 0 .. n
      BY <1>1, <2>2
    <3>2. f[k] = G[<<f[k - 1], k>>] /\ f[k - 1] \in Nat
      BY <1>8, <3>1
    <3> QED
      BY <1>3, <2>2, <3>1, <3>2
  <2> QED
    BY <2>1, <2>2
<1>10. AreNumbers(f, bytes)
  BY <1>8, <1>9, NumbersByElement DEF n
<1>11. AreNumbers(Numbers(bytes), bytes)
  BY <1>10 DEF Numbers
<1> DEFINE g == Numbers(bytes)
           K == {k \in 0 .. n : g[k] \in Nat}
<1> HIDE DEF g
<1>12. \A k \in 0 .. n : g[k] = IF k = 0 THEN 0 ELSE 256 * g[k - 1] + bytes[k]
  BY <1>11, NumbersByElement DEF g, n
<1>13. 0 \in K
  BY <1>1, <1>12
<1>14. ASSUME NEW k \in 1 .. n, k - 1 \in K PROVE k \in K
  <2>1. k \in 0 .. n /\ k # 0 /\ g[k - 1] \in Nat /\ bytes[k] \in Nat
    BY <1>1, <1>2, <1>14
  <2>2. g[k] = 256 * g[k - 1] + bytes[k]
    BY <1>12, <2>1
  <2> QED
    BY <2>1, <2>2
<1> HIDE DEF K
<1>15. n \in K
  BY <1>1, <1>13, <1>14, PassesKeep
<1> QED
  BY <1>15, NumberIsNumbers DEF K, g, n

(* The header has less than the bytes of the length that are expected, of  *)
(* which there are at most 8.                                              *)
IsBounded(d, input) ==
  /\ d \in Decoders /\ d.offset <= Len(input) /\ Len(d.header) < 8
  /\ d.state \in {"type", "typeBytes", "length"} => d.header = <<>>
  /\ d.state = "lengthBytes" /\ ~d.gotElementEnd =>
       d.nBytesToRead <= 8 /\ Len(d.header) < d.nBytesToRead

(* A decoder that reads on keeps its header.                               *)
LEMMA UpdateIsBounded ==
  ASSUME NEW input, NEW d, IsBounded(d, input), NEW r, NEW p, NEW t, NEW n,
         IsUpdated(r, d, p, t, n), p <= Len(input),
         t \in {"type", "typeBytes", "length", "lengthBytes"} => d.header = <<>>,
         t = "lengthBytes" => n \in 1 .. 8
  PROVE  IsBounded(r, input)
<1>1. /\ r \in Decoders /\ r.offset = p /\ r.state = t /\ r.nBytesToRead = n
      /\ r.header = d.header
  BY DEF IsUpdated
<1>2. Len(d.header) < 8
  BY DEF IsBounded
<1>3. Len(<<>>) = 0
  BY EmptySeq
<1>4. t = "lengthBytes" => n <= 8 /\ Len(d.header) < n
  BY <1>3
<1> QED
  BY <1>1, <1>2, <1>4 DEF IsBounded

LEMMA BeginValueIsBounded ==
  ASSUME NEW input, NEW d \in Decoders, d.offset <= Len(input), Len(d.header) < 8,
         NEW length \in Nat,
         d.state \in {"type", "typeBytes", "length"} => d.header = <<>>
  PROVE  IsBounded(BeginValue(d, length), input)
<1>1. CASE length = 0
  <2> DEFINE r == [d EXCEPT !.nBytesToRead = 0, !.gotElementEnd = TRUE]
  <2>1. BeginValue(d, length) = r
    BY <1>1 DEF BeginValue
  <2>2. /\ r \in Decoders /\ r.offset = d.offset /\ r.gotElementEnd /\ r.header = d.header
        /\ r.state = d.state
    BY DEF Decoders
  <2> HIDE DEF r
  <2> QED
    BY <2>1, <2>2 DEF IsBounded
<1>2. CASE length # 0
  <2> DEFINE r == [d EXCEPT !.state = "value", !.nBytesToRead = length]
  <2>1. BeginValue(d, length) = r
    BY <1>2 DEF BeginValue
  <2>2. "value" \in DecoderStates
    BY States
  <2>3. r \in Decoders /\ r.offset = d.offset /\ r.header = d.header /\ r.state = "value"
    BY <2>2 DEF Decoders
  <2> HIDE DEF r
  <2> QED
    BY <2>1, <2>3 DEF IsBounded
<1> QED
  BY <1>1, <1>2

(* Where there is a byte to read, it is an octet, and what it says of the  *)
(* length is at most 8.                                                    *)
LEMMA BoundedReadsNext ==
  ASSUME NEW input \in Seq(Octets), NEW d, IsBounded(d, input), d.offset < Len(input)
  PROVE  /\ d \in Decoders /\ d.offset \in Nat /\ d.nBytesToRead \in Nat /\ Len(input) \in Nat
         /\ d.offset + 1 \in Nat /\ d.offset + 1 <= Len(input)
         /\ NextOctet(d, input) \in Octets /\ NextOctet(d, input) \in Nat
         /\ IsExtended(NextOctet(d, input)) => Width(NextOctet(d, input)) \in 1 .. 8
<1>1. d \in Decoders /\ Len(input) \in Nat
  BY LenProperties DEF IsBounded
<1>2. d.offset \in Nat /\ d.nBytesToRead \in Nat
  BY <1>1, DecoderFields
<1>3. d.offset + 1 \in 1 .. Len(input)
  BY <1>1, <1>2
<1>4. NextOctet(d, input) \in Octets
  BY <1>3, ElementOfSeq DEF NextOctet
<1>5. \A o \in Octets : o \in Nat /\ (IsExtended(o) => Width(o) \in 1 .. 8)
  <2> TAKE o \in Octets
  <2>1. o \in Nat /\ (o >= 253 => o = 253 \/ o = 254 \/ o = 255)
    BY DEF Octets
  <2>2. /\ o = 253 => Width(o) = 2
        /\ o = 254 => Width(o) = 4
        /\ o = 255 => Width(o) = 8
    BY DEF Width
  <2> QED
    BY <2>1, <2>2 DEF IsExtended
<1> QED
  BY <1>1, <1>2, <1>3, <1>4, <1>5

LEMMA SkipIsBounded ==
  ASSUME NEW input \in Seq(Octets), NEW d, IsBounded(d, input), d.offset < Len(input),
         d.state # "lengthBytes", NEW done,
         d.offset + d.nBytesToRead <= Len(input) => IsBounded(done, input)
  PROVE  IsBounded(Skip(d, input, done), input)
<1> DEFINE l == Len(input)
           o == d.offset
           n == d.nBytesToRead
           q == n - (l - o)
           r == [d EXCEPT !.offset = l, !.nBytesToRead = q]
<1>1. d \in Decoders /\ l \in Nat /\ o \in Nat /\ n \in Nat /\ o < l
  BY BoundedReadsNext
<1>2. Skip(d, input, done) = IF l - o < n THEN r ELSE done
  BY DEF Skip, Remaining
<1>3. q = n - (l - o)
  OBVIOUS
<1> HIDE DEF l, o, n, q
<1>4. CASE l - o < n
  <2>1. q \in Nat
    BY <1>1, <1>3, <1>4
  <2>2. d.state \in DecoderStates
    BY <1>1, DecoderFields
  <2>3. IsUpdated(r, d, l, d.state, q)
    BY <1>1, <2>1, <2>2, Updates
  <2> HIDE DEF r
  <2>4. l <= Len(input)
    BY <1>1 DEF l
  <2>5. d.state \in {"type", "typeBytes", "length", "lengthBytes"} => d.header = <<>>
    BY DEF IsBounded
  <2>6. IsBounded(r, input)
    BY <2>3, <2>4, <2>5, UpdateIsBounded
  <2> QED
    BY <1>2, <1>4, <2>6
<1>5. CASE ~(l - o < n)
  <2>1. o + n <= l
    BY <1>1, <1>5
  <2>2. IsBounded(done, input)
    BY <2>1 DEF o, n, l
  <2> QED
    BY <1>2, <1>5, <2>2
<1> QED
  BY <1>4, <1>5

LEMMA ReadTypeIsBounded ==
  ASSUME NEW input \in Seq(Octets), NEW d, IsBounded(d, input), d.offset < Len(input),
         d.state = "type"
  PROVE  IsBounded(ReadType(d, input), input)
<1> DEFINE octet == NextOctet(d, input)
           p == d.offset + 1
           w == Width(octet)
           r == ReadType(d, input)
<1>1. d \in Decoders /\ p \in Nat /\ p <= Len(input) /\ (IsExtended(octet) => w \in Nat)
      /\ d.nBytesToRead \in Nat
  BY BoundedReadsNext
<1>2. \/ IsExtended(octet) /\ r = [d EXCEPT !.offset = p, !.state = "typeBytes", !.nBytesToRead = w]
      \/ ~IsExtended(octet) /\ r = [d EXCEPT !.offset = p, !.state = "length"]
  BY DEF ReadType
<1>3. d.header = <<>> /\ "typeBytes" \in DecoderStates /\ "length" \in DecoderStates
  BY States DEF IsBounded
<1> HIDE DEF octet, p, w, r
<1>4. CASE IsExtended(octet)
  <2>1. IsUpdated([d EXCEPT !.offset = p, !.state = "typeBytes", !.nBytesToRead = w],
                  d, p, "typeBytes", w)
    BY <1>1, <1>3, <1>4, Updates
  <2>2. IsUpdated(r, d, p, "typeBytes", w)
    BY <1>2, <1>4, <2>1
  <2>3. IsBounded(r, input)
    BY <1>1, <1>3, <2>2, UpdateIsBounded
  <2> QED
    BY <2>3 DEF r
<1>5. CASE ~IsExtended(octet)
  <2>1. IsUpdated([d EXCEPT !.offset = p, !.state = "length"], d, p, "length", d.nBytesToRead)
    BY <1>1, <1>3, Updates
  <2>2. IsUpdated(r, d, p, "length", d.nBytesToRead)
    BY <1>2, <1>5, <2>1
  <2>3. IsBounded(r, input)
    BY <1>1, <1>3, <2>2, UpdateIsBounded
  <2> QED
    BY <2>3 DEF r
<1> QED
  BY <1>4, <1>5

LEMMA SkipsAreBounded ==
  ASSUME NEW input \in Seq(Octets), NEW d, IsBounded(d, input), d.offset < Len(input)
  PROVE  /\ d.state = "typeBytes" => IsBounded(ReadTypeBytes(d, input), input)
         /\ d.state = "value" => IsBounded(ReadValueBytes(d, input), input)
<1> DEFINE p == d.offset + d.nBytesToRead
           s == [d EXCEPT !.offset = p, !.state = "length"]
           t == [d EXCEPT !.offset = p, !.gotElementEnd = TRUE]
<1>1. d \in Decoders /\ p \in Nat
  BY BoundedReadsNext
<1>2. ReadTypeBytes(d, input) = Skip(d, input, s) /\ ReadValueBytes(d, input) = Skip(d, input, t)
  BY DEF ReadTypeBytes, ReadValueBytes
<1>3. p = d.offset + d.nBytesToRead
  OBVIOUS
<1> HIDE DEF p
<1>4. ASSUME d.state = "typeBytes", p <= Len(input) PROVE IsBounded(s, input)
  <2>1. "length" \in DecoderStates /\ d.header = <<>> /\ d.nBytesToRead \in Nat
    BY <1>1, <1>4, States, DecoderFields DEF IsBounded
  <2>2. IsUpdated(s, d, p, "length", d.nBytesToRead)
    BY <1>1, <2>1, Updates
  <2> HIDE DEF s
  <2> QED
    BY <1>4, <2>1, <2>2, UpdateIsBounded
<1>5. ASSUME p <= Len(input) PROVE IsBounded(t, input)
  <2>1. t \in Decoders /\ t.offset = p /\ t.gotElementEnd /\ t.header = d.header
        /\ t.state = d.state
    BY <1>1 DEF Decoders
  <2> HIDE DEF t
  <2> QED
    BY <1>5, <2>1 DEF IsBounded
<1> HIDE DEF s, t
<1>6. ASSUME d.state = "typeBytes" PROVE IsBounded(Skip(d, input, s), input)
  BY <1>3, <1>4, <1>6, SkipIsBounded
<1>7. ASSUME d.state = "value" PROVE IsBounded(Skip(d, input, t), input)
  BY <1>3, <1>5, <1>7, SkipIsBounded
<1> QED
  BY <1>2, <1>6, <1>7

LEMMA ReadLengthIsBounded ==
  ASSUME NEW input \in Seq(Octets), NEW d, IsBounded(d, input), d.offset < Len(input),
         d.state = "length"
  PROVE  IsBounded(ReadLength(d, input), input)
<1> DEFINE octet == NextOctet(d, input)
           p == d.offset + 1
           w == Width(octet)
           c == [d EXCEPT !.offset = p]
           s == [c EXCEPT !.state = "lengthBytes", !.nBytesToRead = w]
           r == ReadLength(d, input)
<1>1. d \in Decoders /\ p \in Nat /\ p <= Len(input) /\ (IsExtended(octet) => w \in 1 .. 8)
      /\ octet \in Nat
  BY BoundedReadsNext
<1>2. r = IF IsExtended(octet) THEN s ELSE BeginValue(c, octet)
  BY DEF ReadLength
<1>3. d.header = <<>> /\ "lengthBytes" \in DecoderStates
  BY States DEF IsBounded
<1> HIDE DEF octet, p, w, r
<1>4. IsUpdated(c, d, p, d.state, d.nBytesToRead)
  <2>1. d.state \in DecoderStates /\ d.nBytesToRead \in Nat
    BY <1>1, DecoderFields
  <2> QED
    BY <1>1, <2>1, Updates
<1> HIDE DEF c
<1>5. IsBounded(c, input)
  BY <1>1, <1>3, <1>4, UpdateIsBounded
<1>6. c \in Decoders /\ c.header = <<>> /\ c.offset = p /\ Len(<<>>) < 8
  BY <1>3, <1>4, EmptySeq DEF IsUpdated
<1>7. CASE IsExtended(octet)
  <2>1. w \in Nat
    BY <1>1, <1>7
  <2>2. IsUpdated(s, c, c.offset, "lengthBytes", w)
    BY <1>1, <1>3, <1>6, <2>1, Updates
  <2> HIDE DEF s
  <2>3. IsBounded(s, input)
    BY <1>1, <1>5, <1>6, <1>7, <2>2, UpdateIsBounded
  <2> QED
    BY <1>2, <1>7, <2>3 DEF r
<1>8. CASE ~IsExtended(octet)
  <2>1. IsBounded(BeginValue(c, octet), input)
    BY <1>1, <1>6, BeginValueIsBounded
  <2> QED
    BY <1>2, <1>8, <2>1 DEF r
<1> QED
  BY <1>7, <1>8

(* No more octets are copied to the header than the length has.            *)
LEMMA ReadLengthBytesIsBounded ==
  ASSUME NEW input \in Seq(Octets), NEW d, IsBounded(d, input), d.offset < Len(input),
         d.state = "lengthBytes", ~d.gotElementEnd
  PROVE  IsBounded(ReadLengthBytes(d, input), input)
<1> DEFINE o == d.offset
           l == Len(input)
           w == d.nBytesToRead
           h == d.header
           k == Len(h)
           needed == w - k
           have == IF needed > l - o THEN l - o ELSE needed
           p == o + have
           piece == SubSeq(input, o + 1, p)
           bytes == h \o piece
           c == [d EXCEPT !.offset = p]
           r == ReadLengthBytes(d, input)
<1>1. d \in Decoders /\ o \in Nat /\ w \in Nat /\ l \in Nat /\ o < l
  BY BoundedReadsNext
<1>2. w <= 8 /\ k < w /\ k < 8
  BY DEF IsBounded
<1>3. h \in Seq(Octets) /\ k \in Nat
  BY <1>1, DecoderFields, LenProperties
<1>4. r = IF have < needed THEN [c EXCEPT !.header = bytes] ELSE BeginValue(c, VarNumber(bytes))
  BY DEF ReadLengthBytes, Remaining
<1>5. needed = w - k /\ p = o + have /\ have = IF needed > l - o THEN l - o ELSE needed
  OBVIOUS
<1> HIDE DEF o, w, k, needed, have, p, r, l, h, piece, bytes, c
<1>6. have \in Nat /\ p \in Nat /\ p <= l /\ k + have <= w /\ (have < needed => k + have < w)
      /\ o + 1 \in Nat \ {0} /\ o + 1 <= p + 1 /\ p + 1 - (o + 1) = have
  BY <1>1, <1>2, <1>3, <1>5
<1>7. piece \in Seq(Octets) /\ Len(piece) = have
  <2>1. /\ SubSeq(input, o + 1, p) \in Seq(Octets)
        /\ Len(SubSeq(input, o + 1, p)) = p + 1 - (o + 1)
    BY <1>6, PieceProperties DEF l
  <2> QED
    BY <1>6, <2>1 DEF piece
<1>8. bytes \in Seq(Octets) /\ Len(bytes) = k + have
  BY <1>3, <1>7, ConcatProperties DEF k, bytes
<1>9. VarNumber(bytes) \in Nat
  BY <1>8, NumberIsNatural
<1>10. /\ c \in Decoders /\ c.offset = p /\ c.header = h /\ c.state = "lengthBytes"
       /\ c.nBytesToRead = w /\ ~c.gotElementEnd
  BY <1>1, <1>6 DEF Decoders, h, w, c
<1>11. CASE have < needed
  <2> DEFINE s == [c EXCEPT !.header = bytes]
  <2>1. /\ s \in Decoders /\ s.offset = p /\ s.header = bytes /\ s.state = "lengthBytes"
        /\ s.nBytesToRead = w
    BY <1>8, <1>10 DEF Decoders
  <2> HIDE DEF s
  <2>2. Len(bytes) < w /\ Len(bytes) < 8
    BY <1>2, <1>1, <1>3, <1>6, <1>8, <1>11
  <2>3. IsBounded(s, input)
    BY <1>2, <1>6, <2>1, <2>2 DEF IsBounded, l
  <2> QED
    BY <1>4, <1>11, <2>3 DEF r, s
<1>12. CASE ~(have < needed)
  <2>1. c.offset <= Len(input) /\ Len(c.header) < 8
    BY <1>2, <1>6, <1>10 DEF l, k
  <2>2. IsBounded(BeginValue(c, VarNumber(bytes)), input)
    BY <1>9, <1>10, <2>1, BeginValueIsBounded
  <2> QED
    BY <1>4, <1>12, <2>2 DEF r
<1> QED
  BY <1>11, <1>12

LEMMA DecoderStepIsBounded ==
  ASSUME NEW input \in Seq(Octets), NEW d, IsBounded(d, input)
  PROVE  IsBounded(DecoderStep(d, input), input)
<1>1. d \in Decoders /\ Len(input) \in Nat /\ d.offset \in Nat /\ d.offset <= Len(input)
      /\ d.state \in DecoderStates
  BY LenProperties, DecoderFields DEF IsBounded
<1>2. CASE d.gotElementEnd \/ d.offset >= Len(input)
  <2>1. DecoderStep(d, input) = d
    BY <1>2 DEF DecoderStep
  <2> QED
    BY <2>1
<1>3. CASE ~(d.gotElementEnd \/ d.offset >= Len(input))
  <2>1. d.offset < Len(input) /\ ~d.gotElementEnd
    BY <1>1, <1>3
  <2>2. CASE d.state = "type"
    <3>1. DecoderStep(d, input) = ReadType(d, input)
      BY <1>3, <2>2, Zenon DEF DecoderStep
    <3> QED
      BY <2>1, <2>2, <3>1, ReadTypeIsBounded
  <2>3. CASE d.state = "typeBytes"
    <3>1. DecoderStep(d, input) = ReadTypeBytes(d, input)
      BY <1>3, <2>3 DEF DecoderStep
    <3> QED
      BY <2>1, <2>3, <3>1, SkipsAreBounded
  <2>4. CASE d.state = "length"
    <3>1. DecoderStep(d, input) = ReadLength(d, input)
      BY <1>3, <2>4 DEF DecoderStep
    <3> QED
      BY <2>1, <2>4, <3>1, ReadLengthIsBounded
  <2>5. CASE d.state = "lengthBytes"
    <3>1. DecoderStep(d, input) = ReadLengthBytes(d, input)
      BY <1>3, <2>5 DEF DecoderStep
    <3> QED
      BY <2>1, <2>5, <3>1, ReadLengthBytesIsBounded
  <2>6. CASE d.state = "value"
    <3>1. DecoderStep(d, input) = ReadValueBytes(d, input)
      BY <1>3, <2>6 DEF DecoderStep
    <3> QED
      BY <2>1, <2>6, <3>1, SkipsAreBounded
  <2> QED
    BY <1>1, <2>2, <2>3, <2>4, <2>5, <2>6 DEF DecoderStates
<1> QED
  BY <1>2, <1>3

LEMMA ScanIsBounded ==
  ASSUME NEW input \in Seq(Octets), NEW d, IsBounded(d, input)
  PROVE  IsBounded(FindElementEnd(d, input), input)
<1> DEFINE S == {r \in Decoders : IsBounded(r, input)}
<1>1. d \in S
  BY DEF IsBounded
<1>2. \A r \in S : DecoderStep(r, input) \in S
  <2> TAKE r \in S
  <2>1. IsBounded(DecoderStep(r, input), input)
    BY DecoderStepIsBounded
  <2> QED
    BY <2>1 DEF IsBounded
<1> HIDE DEF S
<1>3. FindElementEnd(d, input) \in S
  BY <1>1, <1>2, ScanStays
<1> QED
  BY <1>3 DEF S

(* The decoder was bounded over some piece.                                *)
ReaderBounds ==
  /\ elements \in Streams /\ received \in Nat
  /\ data \in Seq(Octets) /\ Len(data) <= MaxPiece
  /\ \E input \in Seq(Octets) : Len(input) <= MaxPiece /\ IsBounded(decoder, input)
  /\ usePartialData \in BOOLEAN /\ gotPartialDataError \in BOOLEAN
  /\ partialData \in Seq(Octets) /\ Len(partialData) <= Capacity
  /\ reported \in Seq(Seq(Octets)) /\ isLost \in BOOLEAN

LEMMA BoundsAreTypes == ReaderBounds => ReaderTypeOK
<1> SUFFICES ASSUME ReaderBounds PROVE ReaderTypeOK
  OBVIOUS
<1>1. PICK input \in Seq(Octets) : Len(input) <= MaxPiece /\ IsBounded(decoder, input)
  BY DEF ReaderBounds
<1>2. decoder \in Decoders /\ decoder.offset <= Len(input) /\ Len(decoder.header) < 8
  BY <1>1 DEF IsBounded
<1>3. decoder.state \in DecoderStates /\ decoder.nBytesToRead \in Nat /\ decoder.offset \in Nat
  BY <1>2, DecoderFields
<1>4. Len(input) \in Nat
  BY LenProperties
<1>5. decoder.offset \in 0 .. MaxPiece
  <2> DEFINE o == decoder.offset
             l == Len(input)
  <2>1. o <= l /\ l <= MaxPiece /\ o \in Nat /\ l \in Nat
    BY <1>1, <1>2, <1>3, <1>4
  <2> HIDE DEF o, l
  <2>2. o \in 0 .. MaxPiece
    BY <2>1, ReaderAssumption
  <2> QED
    BY <2>2 DEF o
<1>6. data \in Seq(0 .. 255) /\ partialData \in Seq(0 .. 255) /\ reported \in Seq(Seq(0 .. 255))
  BY DEF ReaderBounds, Octets
<1> QED
  BY <1>2, <1>3, <1>5, <1>6 DEF ReaderBounds, ReaderTypeOK

LEMMA InitIsBounded ==
  /\ <<>> \in Seq(Octets) /\ Len(<<>>) <= MaxPiece /\ Len(<<>>) <= Capacity
  /\ IsBounded(InitDecoder, <<>>)
<1>1. <<>> \in Seq(Octets) /\ Len(<<>>) = 0 /\ 0 <= MaxPiece /\ 0 <= Capacity
  BY EmptySeq, ReaderAssumption
<1>2. InitDecoder \in Decoders
  <2>1. "type" \in DecoderStates
    BY States
  <2> QED
    BY <1>1, <2>1 DEF InitDecoder, Decoders
<1>3. InitDecoder.offset = 0 /\ InitDecoder.header = <<>> /\ InitDecoder.state = "type"
  BY DEF InitDecoder
<1> QED
  BY <1>1, <1>2, <1>3 DEF IsBounded

LEMMA BoundsBegin == ReaderInit => ReaderBounds
<1> SUFFICES ASSUME ReaderInit PROVE ReaderBounds
  OBVIOUS
<1>1. <<>> \in Seq(Seq(Octets)) /\ 0 \in Nat
  BY EmptySeq
<1> QED
  BY <1>1, InitIsBounded DEF ReaderInit, ReaderBounds

(* What is scanned has the bounds of the piece.                            *)
LEMMA ScannedIsBounded ==
  ASSUME ReaderBounds
  PROVE  /\ IsBounded(Scanned, data) /\ data \in Seq(Octets) /\ Len(data) <= MaxPiece
         /\ Len(data) \in Nat /\ Scanned.offset \in 0 .. Len(data)
         /\ Partial \in Seq(Octets) /\ Len(Partial) <= Capacity
<1> DEFINE d == [decoder EXCEPT !.offset = 0]
<1>1. data \in Seq(Octets) /\ Len(data) <= MaxPiece /\ Len(data) \in Nat
  BY LenProperties DEF ReaderBounds
<1>2. PICK input \in Seq(Octets) : IsBounded(decoder, input)
  BY DEF ReaderBounds
<1>3. decoder \in Decoders
  BY <1>2 DEF IsBounded
<1>4. /\ d \in Decoders /\ d.offset = 0 /\ d.header = decoder.header /\ d.state = decoder.state
      /\ d.gotElementEnd = decoder.gotElementEnd /\ d.nBytesToRead = decoder.nBytesToRead
  BY <1>3 DEF Decoders
<1>5. Scanned = FindElementEnd(d, data)
  BY DEF Scanned
<1> HIDE DEF d
<1>6. IsBounded(d, data)
  BY <1>1, <1>2, <1>4 DEF IsBounded
<1>7. IsBounded(Scanned, data)
  BY <1>1, <1>5, <1>6, ScanIsBounded
<1>8. Scanned \in Decoders /\ Scanned.offset <= Len(data)
  BY <1>7 DEF IsBounded
<1>9. Scanned.offset \in Nat
  BY <1>8, DecoderFields
<1>10. Partial \in Seq(Octets) /\ Len(Partial) <= Capacity
  <2>1. <<>> \in Seq(Octets) /\ Len(<<>>) = 0 /\ 0 <= Capacity
    BY EmptySeq, ReaderAssumption
  <2> QED
    BY <2>1 DEF Partial, ReaderBounds
<1> QED
  BY <1>1, <1>7, <1>8, <1>9, <1>10

LEMMA BoundsAreKept == ReaderBounds /\ [ReaderNext]_readerVars => ReaderBounds'
<1> SUFFICES ASSUME ReaderBounds, [ReaderNext]_readerVars PROVE ReaderBounds'
  OBVIOUS
<1>1. /\ IsBounded(Scanned, data) /\ data \in Seq(Octets) /\ Len(data) <= MaxPiece
      /\ Len(data) \in Nat /\ Scanned.offset \in 0 .. Len(data)
      /\ Partial \in Seq(Octets) /\ Len(Partial) <= Capacity
  BY ScannedIsBounded
<1>2. /\ <<>> \in Seq(Octets) /\ Len(<<>>) <= MaxPiece /\ Len(<<>>) <= Capacity
      /\ IsBounded(InitDecoder, <<>>)
  BY InitIsBounded
<1>3. CASE \E p \in 1 .. MaxPiece : OnReceivedData(p)
  <2>1. PICK p \in 1 .. MaxPiece : OnReceivedData(p)
    BY <1>3
  <2>2. elements \in Seq(Seq(Octets)) /\ Stream = Joined(elements)
    <3>1. elements \in Seq(Seq(Octets))
      BY ReaderAssumption DEF Octets, ReaderBounds
    <3> QED
      BY <3>1 DEF Stream
  <2>3. Len(elements) \in 0 .. Len(elements)
    BY <2>2, LenProperties
  <2>4. Stream \in Seq(Octets) /\ Len(Stream) \in Nat
    BY <2>2, <2>3, JoinsLengths
  <2>5. received + p <= Len(Stream) /\ received' = received + p
        /\ data' = SubSeq(Stream, received + 1, received + p)
    BY <2>1 DEF OnReceivedData
  <2>6. received \in Nat /\ p \in Nat /\ p <= MaxPiece
    BY ReaderAssumption DEF ReaderBounds
  <2>7. data' \in Seq(Octets) /\ Len(data') = p
    <3>1. received + 1 \in Nat \ {0} /\ received + p \in Nat /\ received + 1 <= received + p + 1
          /\ received + p + 1 - (received + 1) = p
      BY <2>6
    <3>2. /\ SubSeq(Stream, received + 1, received + p) \in Seq(Octets)
          /\ Len(SubSeq(Stream, received + 1, received + p)) = received + p + 1 - (received + 1)
      BY <2>4, <2>5, <3>1, PieceProperties
    <3> QED
      BY <2>5, <3>1, <3>2
  <2>8. received' \in Nat /\ Len(data') <= MaxPiece
    BY <2>5, <2>6, <2>7
  <2> QED
    BY <2>1, <2>7, <2>8 DEF ReaderBounds, OnReceivedData
<1>4. CASE ElementEnds
  <2> DEFINE o == Scanned.offset
             element == Partial \o First(data, o)
  <2>1. First(data, o) \in Seq(Octets)
    BY <1>1, FirstProperties
  <2>2. element \in Seq(Octets)
    BY <1>1, <2>1, ConcatProperties
  <2>3. /\ elements' = elements /\ received' = received /\ decoder' = InitDecoder
        /\ usePartialData' = FALSE /\ gotPartialDataError' = gotPartialDataError
        /\ partialData' = <<>>
        /\ reported' = reported \/ reported' = Append(reported, element)
        /\ data' = From(data, o) \/ data' = <<>>
        /\ isLost' = isLost \/ isLost' = (isLost \/ o < Len(data))
    BY <1>4 DEF ElementEnds
  <2> HIDE DEF element, o
  <2>4. reported' \in Seq(Seq(Octets))
    <3>1. reported \in Seq(Seq(Octets))
      BY DEF ReaderBounds
    <3>2. Append(reported, element) \in Seq(Seq(Octets))
      BY <2>2, <3>1, AppendProperties
    <3> QED
      BY <2>3, <3>1, <3>2
  <2>5. From(data, o) \in Seq(Octets) /\ Len(From(data, o)) <= MaxPiece
    <3> DEFINE l == Len(data)
    <3>1. o \in 0 .. l /\ l \in Nat /\ l <= MaxPiece
      BY <1>1 DEF o
    <3>2. l <= Len(data)
      BY <3>1
    <3> HIDE DEF l
    <3>3. o + 1 \in Nat \ {0} /\ o + 1 <= l + 1 /\ l + 1 - (o + 1) <= MaxPiece
      BY <3>1, ReaderAssumption
    <3>4. SubSeq(data, o + 1, l) \in Seq(Octets) /\ Len(SubSeq(data, o + 1, l)) = l + 1 - (o + 1)
      BY <1>1, <3>1, <3>2, <3>3, PieceProperties
    <3> QED
      BY <3>3, <3>4 DEF From, l
  <2>6. data' \in Seq(Octets) /\ Len(data') <= MaxPiece
    BY <1>2, <2>3, <2>5
  <2>7. isLost' \in BOOLEAN
    BY <2>3 DEF ReaderBounds
  <2>8. \E input \in Seq(Octets) : Len(input) <= MaxPiece /\ IsBounded(decoder', input)
    BY <1>2, <2>3
  <2>9. partialData' \in Seq(Octets) /\ Len(partialData') <= Capacity
    BY <1>2, <2>3
  <2> QED
    BY <2>3, <2>4, <2>6, <2>7, <2>8, <2>9 DEF ReaderBounds
<1>5. CASE SavePartial \/ SkipPartial \/ PartialDoesNotFit \/ ElementEndDoesNotFit
           \/ PartialExceedsMaximum
  <2>1. /\ elements' = elements /\ received' = received /\ reported' = reported /\ data' = <<>>
        /\ decoder' = Scanned \/ decoder' = InitDecoder
        /\ usePartialData' \in {usePartialData, TRUE, FALSE}
        /\ gotPartialDataError' \in {gotPartialDataError, TRUE, FALSE}
        /\ isLost' \in {isLost, TRUE}
    BY <1>5 DEF SavePartial, SkipPartial, PartialDoesNotFit, ElementEndDoesNotFit,
                PartialExceedsMaximum, ReturnError, CopyErrorFlag
  <2>2. \/ partialData' \in {partialData, Partial, <<>>}
        \/ partialData' = Partial \o data /\ Len(Partial) + Len(data) <= Capacity
    BY <1>5 DEF SavePartial, SkipPartial, PartialDoesNotFit, ElementEndDoesNotFit,
                PartialExceedsMaximum
  <2>3. partialData' \in Seq(Octets) /\ Len(partialData') <= Capacity
    <3>1. Partial \o data \in Seq(Octets) /\ Len(Partial \o data) = Len(Partial) + Len(data)
      BY <1>1, ConcatProperties
    <3>2. partialData \in Seq(Octets) /\ Len(partialData) <= Capacity
      BY DEF ReaderBounds
    <3> QED
      BY <1>1, <1>2, <2>2, <3>1, <3>2
  <2>4. \E input \in Seq(Octets) : Len(input) <= MaxPiece /\ IsBounded(decoder', input)
    BY <1>1, <1>2, <2>1
  <2>5. usePartialData' \in BOOLEAN /\ gotPartialDataError' \in BOOLEAN /\ isLost' \in BOOLEAN
    BY <2>1 DEF ReaderBounds
  <2> QED
    BY <1>2, <2>1, <2>3, <2>4, <2>5 DEF ReaderBounds
<1>6. CASE UNCHANGED readerVars
  BY <1>6 DEF readerVars, ReaderBounds
<1> QED
  BY <1>3, <1>4, <1>5, <1>6 DEF ReaderNext

(* Whatever bytes arrive, also after an error return that dropped some of  *)
(* them, findElementEnd never has 8 bytes in the header buffer, and        *)
(* onReceivedData never more in partialData than fit.                      *)
THEOREM ReaderTypes == ReaderSpec => []ReaderTypeOK
<1> QED
  BY BoundsBegin, BoundsAreKept, BoundsAreTypes, PTL DEF ReaderSpec
=============================================================================
