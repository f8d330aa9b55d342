----------------------------- MODULE SyncProofs -----------------------------
(***************************************************************************)
(* What an instance of ChronoSync2013 keeps, for any instances, prefixes,  *)
(* sessions and network: it waits for the change of its present root, and  *)
(* its sequence number is the one its tree has.                            *)
(***************************************************************************)
EXTENDS ChronoSync, FiniteSetTheorems, SequenceTheorems, WellFoundedInduction, TLAPS

(* A set of numbers has a least one.                                       *)
LEMMA LeastNumber ==
  ASSUME NEW T, T \subseteq Nat, T # {}
  PROVE  \E x \in T : \A y \in T : x <= y
<1> DEFINE R == OpToRel(<, Nat)
<1>1. PICK x \in T : \A y \in T : <<y, x>> \notin R
  BY NatLessThanWellFounded, WFMin
<1>2. \A y \in T : ~(y < x)
  BY <1>1 DEF OpToRel
<1> QED BY <1>2

(* A finite one has a greatest.                                            *)
IsBounded(T) == \E x \in T : \A y \in T : y <= x

LEMMA FiniteIsBounded ==
  ASSUME NEW T, T \subseteq Nat, IsFiniteSet(T), T # {}
  PROVE  IsBounded(T)
<1> DEFINE Others == {U \in SUBSET Nat : IsFiniteSet(U) /\ U # {} /\ ~IsBounded(U)}
           Sizes == {Cardinality(U) : U \in Others}
<1>1. ASSUME T \in Others PROVE FALSE
  <2>1. Sizes \subseteq Nat /\ Sizes # {}
    BY <1>1, FS_CardinalityType
  <2>2. PICK n \in Sizes : \A k \in Sizes : n <= k
    <3> HIDE DEF Sizes
    <3> QED BY <2>1, LeastNumber
  <2>3. PICK U \in Others : Cardinality(U) = n
    BY <2>2
  <2>4. PICK x \in U : TRUE
    BY <2>3
  <2> DEFINE V == U \ {x}
  <2>5. IsFiniteSet(V) /\ Cardinality(V) = Cardinality(U) - 1 /\ Cardinality(U) \in Nat
    BY <2>3, <2>4, FS_RemoveElement, FS_CardinalityType
  <2>6. V \notin Others
    <3>1. V \in Others => n <= Cardinality(V)
      BY <2>2
    <3> HIDE DEF V, Others
    <3> QED BY <2>3, <2>5, <3>1
  <2>7. x \in Nat /\ V \subseteq Nat /\ ~IsBounded(U)
    BY <2>3, <2>4
  <2>8. CASE V = {}
    <3>1. \A y \in U : y <= x
      BY <2>7, <2>8
    <3> QED BY <2>4, <2>7, <3>1 DEF IsBounded
  <2>9. CASE V # {}
    <3>1. PICK z \in V : \A y \in V : y <= z
      BY <2>5, <2>6, <2>7, <2>9 DEF IsBounded
    <3>2. z \in Nat /\ z \in U
      BY <2>7, <3>1
    <3>3. CASE x <= z
      <4>1. \A y \in U : y <= z
        BY <3>1, <3>3
      <4> QED BY <2>7, <3>2, <4>1 DEF IsBounded
    <3>4. CASE z <= x
      <4>1. \A y \in U : y <= x
        BY <2>7, <3>1, <3>2, <3>4
      <4> QED BY <2>4, <2>7, <4>1 DEF IsBounded
    <3> QED BY <2>7, <3>2, <3>3, <3>4
  <2> QED BY <2>8, <2>9
<1> QED BY <1>1

-----------------------------------------------------------------------------
(* Messages, trees and logs.                                               *)

LEMMA SameNodeIsEquivalence ==
  ASSUME NEW s, NEW t, NEW u
  PROVE  /\ SameNode(s, s) /\ (SameNode(s, t) => SameNode(t, s))
         /\ SameNode(s, t) /\ SameNode(t, u) => SameNode(s, u)
BY DEF SameNode

LEMMA StateTypes ==
  ASSUME NEW p \in Instances, NEW n \in Nat
  PROVE  /\ State(p, n) \in States /\ State(p, n).seq = n
         /\ {State(p, n)} \subseteq States /\ IsMessage({State(p, n)})
         /\ Owns(p, State(p, n)) /\ State(p, n).name = PrefixOf[p]
         /\ \A s : Owns(p, s) <=> SameNode(s, State(p, n))
         /\ \A s \in States : Owns(p, s) => s = State(p, s.seq)
<1>1. State(p, n) \in States /\ State(p, n).seq = n /\ State(p, n).name = PrefixOf[p]
  BY SyncAssumption DEF State, States
<1>2. Owns(p, State(p, n)) /\ \A s : Owns(p, s) <=> SameNode(s, State(p, n))
  BY DEF State, Owns, SameNode
<1>3. IsMessage({State(p, n)})
  BY <1>2 DEF IsMessage
<1>4. ASSUME NEW s \in States, Owns(p, s) PROVE s = State(p, s.seq)
  <2>1. s = [name |-> s.name, session |-> s.session, seq |-> s.seq]
    BY DEF States
  <2>2. s.name = PrefixOf[p] /\ s.session = SessionOf[p]
    BY <1>4 DEF Owns, SameNode, State
  <2> QED BY <2>1, <2>2 DEF State
<1> QED BY <1>1, <1>2, <1>3, <1>4

LEMMA NewestIsOne ==
  ASSUME NEW S, S # {}, S \subseteq States, \A s \in S : \E p \in Instances : Owns(p, s)
  PROVE  Newest(S) \in S
<1> DEFINE all == {SessionOf[p] : p \in Instances}
           T == {s.session : s \in S}
<1>1. \A s \in S : s.session \in all /\ s.session \in Nat
  BY DEF Owns, SameNode, State, States
<1>2. IsFiniteSet(all)
  <2>1. SessionOf \in Surjection(Instances, all)
    BY SyncAssumption DEF Surjection
  <2> HIDE DEF all
  <2> QED BY <2>1, FS_Surjection, SyncAssumption
<1>3. T \subseteq all /\ T \subseteq Nat /\ T # {}
  BY <1>1
<1>4. IsFiniteSet(T)
  BY <1>2, <1>3, FS_Subset
<1>5. IsBounded(T)
  <2> HIDE DEF T
  <2> QED BY <1>3, <1>4, FiniteIsBounded
<1>6. \E s \in S : \A t \in S : t.session <= s.session
  BY <1>5 DEF IsBounded
<1> QED BY <1>6 DEF Newest

LEMMA PrecedesIsTransitive ==
  ASSUME NEW t, NEW u, NEW v, t \subseteq States, u \subseteq States, v \subseteq States,
         Precedes(t, u), Precedes(u, v)
  PROVE  Precedes(t, v)
<1> SUFFICES ASSUME NEW s \in t PROVE \E n \in v : SameNode(n, s) /\ s.seq <= n.seq
  BY DEF Precedes
<1>1. PICK m \in u : SameNode(m, s) /\ s.seq <= m.seq
  BY DEF Precedes
<1>2. PICK n \in v : SameNode(n, m) /\ m.seq <= n.seq
  BY DEF Precedes
<1>3. s.seq \in Nat /\ m.seq \in Nat /\ n.seq \in Nat
  BY <1>1, <1>2 DEF States
<1> QED BY <1>1, <1>2, <1>3, SameNodeIsEquivalence

(* A tree with a new state does not precede the one before.                *)
LEMMA NewDoesNotPrecede ==
  ASSUME NEW t, NEW u, t \subseteq States, u \subseteq States, NEW s \in u, IsNewer(t, s)
  PROVE  ~Precedes(u, t)
<1>1. \A n \in t : n.seq \in Nat /\ s.seq \in Nat
  BY DEF States
<1> QED BY <1>1 DEF Precedes, IsNewer

LEMMA MergeKeeps ==
  ASSUME NEW t, NEW m, t \subseteq States, m \subseteq States, IsMessage(t), IsMessage(m)
  PROVE  LET u == Merge(t, m)
         IN  /\ u \subseteq States /\ IsMessage(u) /\ Precedes(t, u)
             /\ NewStates(t, m) \subseteq u /\ NewStates(t, m) \subseteq m
             /\ \A s \in u : s \in t \/ s \in NewStates(t, m)
             /\ \A s \in t : s \in u \/ \E n \in NewStates(t, m) : SameNode(n, s) /\ s.seq < n.seq
             /\ u = t \/ ~Precedes(u, t)
<1> DEFINE u == Merge(t, m)
           new == NewStates(t, m)
<1>1. /\ new \subseteq m /\ new \subseteq u
      /\ \A s \in u : s \in new \/ (s \in t /\ \A n \in new : ~SameNode(s, n))
      /\ \A s \in t : s \in u \/ \E n \in new : SameNode(s, n)
  BY DEF Merge, NewStates
<1>2. \A n \in new : IsNewer(t, n)
  BY DEF NewStates
<1>3. u \subseteq States
  BY <1>1
<1>4. \A s \in States : s.seq \in Nat
  BY DEF States
<1> HIDE DEF u, new
<1>5. IsMessage(u)
  <2>1. \A s \in u : \E p \in Instances : Owns(p, s)
    BY <1>1 DEF IsMessage
  <2>2. ASSUME NEW r \in u, NEW s \in u, SameNode(r, s) PROVE r = s
    <3>1. CASE r \in new /\ s \in new
      BY <1>1, <2>2, <3>1 DEF IsMessage
    <3>2. CASE r \notin new /\ s \notin new
      BY <1>1, <2>2, <3>2 DEF IsMessage
    <3>3. CASE r \in new /\ s \notin new
      BY <1>1, <2>2, <3>3, SameNodeIsEquivalence
    <3>4. CASE r \notin new /\ s \in new
      BY <1>1, <2>2, <3>4
    <3> QED BY <3>1, <3>2, <3>3, <3>4
  <2> QED BY <2>1, <2>2 DEF IsMessage
<1>6. \A s \in t : s \in u \/ \E n \in new : SameNode(n, s) /\ s.seq < n.seq
  <2> SUFFICES ASSUME NEW s \in t, s \notin u
               PROVE  \E n \in new : SameNode(n, s) /\ s.seq < n.seq
    OBVIOUS
  <2>1. PICK n \in new : SameNode(s, n)
    BY <1>1
  <2> QED BY <1>2, <2>1, SameNodeIsEquivalence DEF IsNewer
<1>7. Precedes(t, u)
  <2> SUFFICES ASSUME NEW s \in t PROVE \E n \in u : SameNode(n, s) /\ s.seq <= n.seq
    BY DEF Precedes
  <2>1. CASE s \in u
    BY <1>4, <2>1, SameNodeIsEquivalence
  <2>2. CASE s \notin u
    <3>1. PICK n \in new : SameNode(n, s) /\ s.seq < n.seq
      BY <1>6, <2>2
    <3> QED BY <1>1, <1>3, <1>4, <3>1
  <2> QED BY <2>1, <2>2
<1>8. u = t \/ ~Precedes(u, t)
  <2>1. CASE new = {}
    BY <1>1, <2>1
  <2>2. CASE new # {}
    BY <1>1, <1>2, <1>3, <2>2, NewDoesNotPrecede
  <2> QED BY <2>1, <2>2
<1> QED BY <1>1, <1>3, <1>5, <1>6, <1>7, <1>8 DEF u, new

-----------------------------------------------------------------------------
(* ChronoSync2013::Impl::update, on what an instance knows.                *)

Locals ==
  [tree : SUBSET States, log : Seq([digest : SUBSET States, data : SUBSET States]),
   sequenceNo : {-1} \cup Nat]

IsGood(s) ==
  /\ s \in Locals /\ IsMessage(s.tree)
  /\ \A k \in DOMAIN s.log : IsMessage(s.log[k].data) /\ Precedes(s.log[k].digest, s.tree)

OwnOf(p, s, m) == OfOwnName(p, NewStates(s.tree, m))

LEMMA UpdateTree ==
  ASSUME NEW p, NEW s, NEW m
  PROVE  /\ Update(p, s, m).tree = Merge(s.tree, m)
         /\ Update(p, s, m) = [tree |-> Update(p, s, m).tree, log |-> Update(p, s, m).log,
                               sequenceNo |-> Update(p, s, m).sequenceNo]
BY DEF Update

LEMMA UpdateLog ==
  ASSUME NEW p, NEW s, NEW m
  PROVE  Update(p, s, m).log =
           IF IsLogged(s.log, Update(p, s, m).tree) THEN s.log
           ELSE Append(s.log, [digest |-> Update(p, s, m).tree, data |-> m])
BY DEF Update

LEMMA UpdateNumber ==
  ASSUME NEW p, NEW s, NEW m
  PROVE  Update(p, s, m).sequenceNo =
           IF OwnOf(p, s, m) = {} THEN s.sequenceNo ELSE Newest(OwnOf(p, s, m)).seq
BY DEF Update, OwnOf

LEMMA UpdateKeeps ==
  ASSUME NEW p \in Instances, NEW s, IsGood(s), NEW m, m \subseteq States, IsMessage(m)
  PROVE  LET u == Update(p, s, m)
         IN  /\ IsGood(u) /\ Precedes(s.tree, u.tree)
             /\ u.log = s.log <=> u.tree \in {s.log[k].digest : k \in DOMAIN s.log}
             /\ u.log = s.log => u.tree = s.tree
<1> DEFINE u == Update(p, s, m)
           Entries == [digest : SUBSET States, data : SUBSET States]
           e == [digest |-> u.tree, data |-> m]
<1>1. /\ s.tree \subseteq States /\ s.log \in Seq(Entries) /\ s.sequenceNo \in {-1} \cup Nat
      /\ IsMessage(s.tree)
      /\ \A k \in DOMAIN s.log : /\ s.log[k].digest \subseteq States
                                 /\ IsMessage(s.log[k].data) /\ Precedes(s.log[k].digest, s.tree)
  <2>1. s.tree \subseteq States /\ s.log \in Seq(Entries) /\ s.sequenceNo \in {-1} \cup Nat
    BY DEF IsGood, Locals
  <2>2. \A k \in DOMAIN s.log : s.log[k] \in Entries
    <3> HIDE DEF Entries
    <3> QED BY <2>1
  <2> QED BY <2>1, <2>2 DEF IsGood
<1>2. /\ u.tree \subseteq States /\ IsMessage(u.tree) /\ Precedes(s.tree, u.tree)
      /\ u.tree = s.tree \/ ~Precedes(u.tree, s.tree)
      /\ NewStates(s.tree, m) \subseteq m
  <2>1. u.tree = Merge(s.tree, m)
    BY UpdateTree
  <2> HIDE DEF u
  <2> QED BY <1>1, <2>1, MergeKeeps
<1>3. u.sequenceNo \in {-1} \cup Nat
  <2>1. OwnOf(p, s, m) \subseteq m
    BY <1>2 DEF OwnOf, OfOwnName
  <2>2. OwnOf(p, s, m) # {} => Newest(OwnOf(p, s, m)) \in States
    BY <2>1, NewestIsOne DEF IsMessage
  <2>3. \A t \in States : t.seq \in Nat
    BY DEF States
  <2> QED BY <1>1, <2>2, <2>3, UpdateNumber
<1>4. /\ u.log = IF IsLogged(s.log, u.tree) THEN s.log ELSE Append(s.log, e)
      /\ u = [tree |-> u.tree, log |-> u.log, sequenceNo |-> u.sequenceNo]
  BY UpdateTree, UpdateLog
<1>5. e \in Entries /\ e.digest = u.tree /\ e.data = m
  BY <1>2
<1> HIDE DEF u, e, Entries
<1>6. \A k \in DOMAIN s.log : Precedes(s.log[k].digest, u.tree)
  BY <1>1, <1>2, PrecedesIsTransitive
<1>7. CASE IsLogged(s.log, u.tree)
  <2>1. PICK k \in DOMAIN s.log : s.log[k].digest = u.tree
    BY <1>7 DEF IsLogged
  <2>2. u.tree = s.tree
    BY <1>1, <1>2, <2>1
  <2>3. u \in Locals /\ u.log = s.log
    BY <1>1, <1>2, <1>3, <1>4, <1>7 DEF Locals, Entries
  <2>4. IsGood(u)
    BY <1>1, <1>2, <1>6, <2>3 DEF IsGood
  <2> QED BY <1>2, <2>1, <2>2, <2>3, <2>4 DEF u
<1>8. CASE ~IsLogged(s.log, u.tree)
  <2>1. /\ u.log \in Seq(Entries) /\ Len(u.log) = Len(s.log) + 1
        /\ \A k \in 1 .. Len(s.log) : u.log[k] = s.log[k]
        /\ u.log[Len(s.log) + 1] = e
    BY <1>1, <1>4, <1>5, <1>8, AppendProperties
  <2>2. Len(s.log) \in Nat /\ DOMAIN s.log = 1 .. Len(s.log)
        /\ DOMAIN u.log = 1 .. Len(s.log) + 1
    BY <1>1, <2>1
  <2>3. u.log # s.log
    BY <2>1, <2>2
  <2>4. u \in Locals
    BY <1>2, <1>3, <1>4, <2>1 DEF Locals, Entries
  <2>5. ASSUME NEW k \in DOMAIN u.log
        PROVE  IsMessage(u.log[k].data) /\ Precedes(u.log[k].digest, u.tree)
    <3>1. CASE k = Len(s.log) + 1
      <4>1. \A t \in States : t.seq \in Nat
        BY DEF States
      <4>2. Precedes(u.tree, u.tree)
        BY <1>2, <4>1, SameNodeIsEquivalence DEF Precedes
      <4> QED BY <1>5, <2>1, <3>1, <4>2
    <3>2. CASE k # Len(s.log) + 1
      <4>1. k \in 1 .. Len(s.log)
        BY <2>2, <3>2
      <4> QED BY <1>1, <1>6, <2>1, <2>2, <4>1
    <3> QED BY <3>1, <3>2
  <2>6. u.tree \notin {s.log[k].digest : k \in DOMAIN s.log}
    BY <1>8 DEF IsLogged
  <2> QED BY <1>2, <2>3, <2>4, <2>5, <2>6 DEF IsGood, u
<1> QED BY <1>7, <1>8

(* An instance updates with a new number of its own.                       *)
IsNext(p, s, n) == \A t \in s.tree : Owns(p, t) => t.seq < n

HasAdded(p, s, n, u) ==
  /\ IsGood(u) /\ State(p, n) \in u.tree /\ u.sequenceNo = n /\ u.log # s.log
  /\ \A t \in u.tree : Owns(p, t) => t = State(p, n)

LEMMA UpdateWithOwn ==
  ASSUME NEW p \in Instances, NEW s, IsGood(s), NEW n \in Nat, IsNext(p, s, n)
  PROVE  HasAdded(p, s, n, Update(p, s, {State(p, n)}))
<1> DEFINE m == {State(p, n)}
           u == Update(p, s, m)
<1>1. /\ m \subseteq States /\ IsMessage(m) /\ Owns(p, State(p, n)) /\ State(p, n).seq = n
      /\ State(p, n).name = PrefixOf[p]
      /\ \A t : Owns(p, t) <=> SameNode(t, State(p, n))
  BY StateTypes
<1>2. s.tree \subseteq States /\ IsMessage(s.tree)
  BY DEF IsGood, Locals
<1>3. NewStates(s.tree, m) = m
  BY <1>1 DEF NewStates, IsNewer, IsNext
<1>4. /\ m \subseteq Merge(s.tree, m) /\ IsMessage(Merge(s.tree, m))
      /\ \A t \in Merge(s.tree, m) : t \in s.tree \/ t \in m
  BY <1>1, <1>2, <1>3, MergeKeeps
<1>5. OwnOf(p, s, m) = m /\ Newest(m) = State(p, n)
  <2>1. OwnOf(p, s, m) = m
    BY <1>1, <1>3 DEF OwnOf, OfOwnName
  <2>2. Newest(m) \in m
    BY <1>1, NewestIsOne DEF IsMessage
  <2> QED BY <2>1, <2>2
<1>6. u.sequenceNo = n /\ u.tree = Merge(s.tree, m)
  <2>1. u.tree = Merge(s.tree, m)
    BY UpdateTree
  <2>2. u.sequenceNo = IF OwnOf(p, s, m) = {} THEN s.sequenceNo ELSE Newest(OwnOf(p, s, m)).seq
    BY UpdateNumber
  <2> HIDE DEF u, m
  <2>3. OwnOf(p, s, m) # {}
    BY <1>5 DEF m
  <2> QED BY <1>1, <1>5, <2>1, <2>2, <2>3
<1>7. IsGood(u) /\ (u.log = s.log => u.tree = s.tree)
  BY <1>1, UpdateKeeps
<1>8. u.log # s.log
  <2>1. n \in Nat /\ ~(n < n)
    OBVIOUS
  <2>2. State(p, n) \notin s.tree
    BY <1>1, <2>1 DEF IsNext
  <2> QED BY <1>4, <1>6, <1>7, <2>2
<1>9. ASSUME NEW t \in u.tree, Owns(p, t) PROVE t = State(p, n)
  <2>1. SameNode(t, State(p, n)) /\ State(p, n) \in u.tree
    BY <1>1, <1>4, <1>6, <1>9
  <2> QED BY <1>4, <1>6, <2>1 DEF IsMessage
<1> QED BY <1>4, <1>6, <1>7, <1>8, <1>9 DEF HasAdded

LEMMA IncrementIsGood ==
  ASSUME NEW s, IsGood(s)
  PROVE  LET t == Increment(s)
         IN  /\ IsGood(t) /\ t.tree = s.tree /\ t.log = s.log
             /\ t.sequenceNo = s.sequenceNo + 1 /\ t.sequenceNo \in Nat
<1> DEFINE t == Increment(s)
<1>1. s.sequenceNo \in {-1} \cup Nat /\ s \in Locals
  BY DEF IsGood, Locals
<1>2. t.tree = s.tree /\ t.log = s.log /\ t.sequenceNo = s.sequenceNo + 1
  BY <1>1 DEF Increment, Locals
<1>3. t.sequenceNo \in Nat
  BY <1>1, <1>2
<1>4. t \in Locals
  BY <1>1, <1>3 DEF Increment, Locals
<1> QED BY <1>2, <1>3, <1>4 DEF IsGood

(* Where the states of a prefix are of one session, an instance has the    *)
(* number of its newest state.                                             *)
KnowsOwn(p, s) == \A t \in s.tree : Owns(p, t) => t.seq <= s.sequenceNo
HasOwn(p, s) == State(p, s.sequenceNo) \in s.tree

LEMMA UpdateKeepsOwn ==
  ASSUME SingleSession, NEW p \in Instances, NEW s, IsGood(s), KnowsOwn(p, s),
         NEW m, m \subseteq States, IsMessage(m)
  PROVE  LET u == Update(p, s, m)
         IN  KnowsOwn(p, u) /\ (HasOwn(p, s) => HasOwn(p, u))
<1> DEFINE u == Update(p, s, m)
           own == OwnOf(p, s, m)
<1>1. s.tree \subseteq States /\ IsMessage(s.tree)
  BY DEF IsGood, Locals
<1>2. /\ u.tree \subseteq States /\ IsMessage(u.tree)
      /\ own \subseteq u.tree /\ own \subseteq m
      /\ \A t \in u.tree : t \in s.tree \/ t \in NewStates(s.tree, m)
      /\ \A t \in s.tree : t \in u.tree \/ \E n \in NewStates(s.tree, m) : SameNode(n, t)
  <2>1. u.tree = Merge(s.tree, m)
    BY UpdateTree
  <2>2. own \subseteq NewStates(s.tree, m)
    BY DEF OwnOf, OfOwnName
  <2> HIDE DEF u, own
  <2> QED BY <1>1, <2>1, <2>2, MergeKeeps
<1>3. ASSUME NEW t \in NewStates(s.tree, m)
      PROVE  t \in own <=> Owns(p, t)
  <2>1. PICK q \in Instances : Owns(q, t)
    BY <1>3 DEF NewStates, IsMessage
  <2>2. t.name = PrefixOf[q] /\ t.session = SessionOf[q]
    BY <2>1 DEF Owns, SameNode, State
  <2>3. t \in own <=> t.name = PrefixOf[p]
    BY <1>3 DEF OwnOf, OfOwnName
  <2>4. Owns(p, t) <=> t.name = PrefixOf[p] /\ t.session = SessionOf[p]
    BY DEF Owns, SameNode, State
  <2> QED BY <2>2, <2>3, <2>4 DEF SingleSession
<1>4. u.sequenceNo = IF own = {} THEN s.sequenceNo ELSE Newest(own).seq
  BY UpdateNumber
<1> HIDE DEF u, own
<1>5. CASE own = {}
  <2>1. u.sequenceNo = s.sequenceNo
    BY <1>4, <1>5
  <2>2. KnowsOwn(p, u)
    BY <1>2, <1>3, <1>5, <2>1 DEF KnowsOwn
  <2>3. ASSUME HasOwn(p, s) PROVE HasOwn(p, u)
    <3> DEFINE t == State(p, s.sequenceNo)
    <3>1. t \in s.tree /\ t.name = PrefixOf[p] /\ t.session = SessionOf[p]
      BY <2>3 DEF HasOwn, State
    <3>2. ASSUME NEW n \in NewStates(s.tree, m), SameNode(n, t) PROVE FALSE
      <4>1. Owns(p, n)
        BY <3>1, <3>2 DEF Owns, SameNode, State
      <4> QED BY <1>3, <1>5, <4>1
    <3> QED BY <1>2, <2>1, <3>1, <3>2 DEF HasOwn
  <2> QED BY <2>2, <2>3 DEF u
<1>6. CASE own # {}
  <2>1. Newest(own) \in own
    BY <1>2, <1>6, NewestIsOne DEF IsMessage
  <2>2. PICK t \in own : t = Newest(own)
    BY <2>1
  <2>3. t \in States /\ t \in u.tree /\ u.sequenceNo = t.seq /\ t \in NewStates(s.tree, m)
    BY <1>2, <1>4, <1>6, <2>2 DEF own, OwnOf, OfOwnName
  <2>4. Owns(p, t)
    BY <1>3, <2>3
  <2>5. t = State(p, t.seq) /\ t.seq \in Nat
    BY <2>3, <2>4, StateTypes DEF States
  <2>6. HasOwn(p, u)
    BY <2>3, <2>5 DEF HasOwn
  <2>7. ASSUME NEW r \in u.tree, Owns(p, r) PROVE r.seq <= u.sequenceNo
    <3>1. SameNode(r, t)
      BY <2>4, <2>7 DEF Owns, SameNode
    <3>2. r = t
      BY <1>2, <2>3, <3>1 DEF IsMessage
    <3> QED BY <2>3, <2>5, <3>2
  <2> QED BY <2>6, <2>7 DEF KnowsOwn, u
<1> QED BY <1>5, <1>6

-----------------------------------------------------------------------------
(* The first Data: the instance takes the tree, follows its earlier run,   *)
(* and adds itself.                                                        *)
LEMMA JoinsOnce ==
  ASSUME NEW p \in Instances, NEW s, IsGood(s), s.tree = {},
         NEW content, content \subseteq States, IsMessage(content)
  PROVE  LET received == Update(p, s, content)
             followed == FollowEarlier(p, received, content)
             joined == JoinTree(p, followed)
         IN  /\ IsGood(received) /\ IsGood(followed) /\ IsGood(joined)
             /\ KnowsOwn(p, joined) /\ HasOwn(p, joined)
             /\ followed.log # received.log <=> joined.log = followed.log
<1> DEFINE received == Update(p, s, content)
           own == {t \in content : Owns(p, t)}
           followed == FollowEarlier(p, received, content)
           joined == JoinTree(p, followed)
           next == Increment(followed)
<1>1. IsGood(received)
  BY UpdateKeeps
<1>2. \A t \in received.tree : t \in content
  <2>1. received.tree = Merge({}, content)
    BY UpdateTree
  <2> QED BY <2>1 DEF Merge, NewStates
<1>3. followed = IF own = {} THEN received
                 ELSE Update(p, received, {State(p, (CHOOSE t \in own : TRUE).seq + 1)})
  BY DEF FollowEarlier
<1>4. joined = IF \E n \in followed.tree : Owns(p, n) THEN followed
               ELSE Update(p, next, {State(p, next.sequenceNo)})
  BY DEF JoinTree
<1> HIDE DEF received, followed, joined
<1>5. CASE own = {}
  <2>1. followed = received /\ \A t \in followed.tree : ~Owns(p, t)
    BY <1>2, <1>3, <1>5
  <2>2. /\ IsGood(next) /\ next.tree = followed.tree /\ next.log = followed.log
        /\ next.sequenceNo \in Nat
    BY <1>1, <2>1, IncrementIsGood
  <2>3. joined = Update(p, next, {State(p, next.sequenceNo)})
    BY <1>4, <2>1
  <2> HIDE DEF next
  <2>4. /\ IsGood(joined) /\ State(p, next.sequenceNo) \in joined.tree
        /\ joined.sequenceNo = next.sequenceNo /\ joined.log # next.log
        /\ \A t \in joined.tree : Owns(p, t) => t = State(p, next.sequenceNo)
    <3>1. IsNext(p, next, next.sequenceNo)
      BY <2>1, <2>2 DEF IsNext
    <3>2. HasAdded(p, next, next.sequenceNo, joined)
      BY <2>2, <2>3, <3>1, UpdateWithOwn
    <3> QED BY <3>2 DEF HasAdded
  <2>5. State(p, next.sequenceNo).seq = next.sequenceNo
    BY <2>2, StateTypes
  <2>6. KnowsOwn(p, joined) /\ HasOwn(p, joined)
    BY <2>2, <2>4, <2>5 DEF KnowsOwn, HasOwn
  <2> QED BY <1>1, <2>1, <2>2, <2>4, <2>6 DEF received, followed, joined
<1>6. CASE own # {}
  <2>1. PICK t \in own : t = CHOOSE r \in own : TRUE
    BY <1>6
  <2> DEFINE n == t.seq + 1
  <2>2. n \in Nat /\ t.seq \in Nat /\ t.seq < n
    BY <2>1 DEF States
  <2>3. followed = Update(p, received, {State(p, n)})
    BY <1>3, <1>6, <2>1
  <2>4. ASSUME NEW r \in received.tree, Owns(p, r) PROVE r.seq < n
    <3>1. SameNode(r, t) /\ r \in content /\ t \in content
      BY <1>2, <2>1, <2>4 DEF Owns, SameNode
    <3> QED BY <2>2, <3>1 DEF IsMessage
  <2> HIDE DEF n
  <2>5. /\ IsGood(followed) /\ State(p, n) \in followed.tree
        /\ followed.sequenceNo = n /\ followed.log # received.log
        /\ \A r \in followed.tree : Owns(p, r) => r = State(p, n)
    <3>1. IsNext(p, received, n)
      BY <2>4 DEF IsNext
    <3>2. HasAdded(p, received, n, followed)
      BY <1>1, <2>2, <2>3, <3>1, UpdateWithOwn
    <3> QED BY <3>2 DEF HasAdded
  <2>6. State(p, n).seq = n /\ Owns(p, State(p, n))
    BY <2>2, StateTypes
  <2>7. joined = followed
    BY <1>4, <2>5, <2>6
  <2>8. KnowsOwn(p, joined) /\ HasOwn(p, joined)
    BY <2>2, <2>5, <2>6, <2>7 DEF KnowsOwn, HasOwn
  <2> QED BY <1>1, <2>5, <2>7, <2>8 DEF received, followed, joined
<1> QED BY <1>5, <1>6

-----------------------------------------------------------------------------
(* What a step leaves of SyncInv.                                          *)

Messages == [to : Instances, name : Names, content : SUBSET States]
Contents == [name : Names, content : SUBSET States]

IsSent(m) == m \in Messages /\ IsMessage(m.content) /\ m.name \in pending[m.to]

LEMMA NamesAreTyped ==
  ASSUME NEW d, d \subseteq States
  PROVE  /\ SyncName(d) \in Names /\ RecoveryName(d) \in Names
         /\ \A e : SyncName(d) # RecoveryName(e) /\ (SyncName(d) = SyncName(e) => d = e)
         /\ \A name \in Names : name.digest \subseteq States
BY DEF SyncName, RecoveryName, Names

LEMMA NetworkIsSent == SyncInv => \A m \in network : IsSent(m)
BY DEF SyncInv, TypeOK, MessagesInv, NetworkInv, IsSent, Messages

LEMMA CurrentIsGood ==
  ASSUME SyncInv, NEW p \in Instances
  PROVE  /\ IsGood(Current(p)) /\ Current(p).tree = tree[p] /\ Current(p).log = log[p]
         /\ Current(p).sequenceNo = sequenceNo[p]
<1>1. /\ tree[p] \subseteq States /\ sequenceNo[p] \in {-1} \cup Nat
      /\ log[p] \in Seq([digest : SUBSET States, data : SUBSET States])
  BY DEF SyncInv, TypeOK
<1>2. /\ IsMessage(tree[p])
      /\ \A k \in DOMAIN log[p] : /\ IsMessage(log[p][k].data)
                                  /\ Precedes(log[p][k].digest, tree[p])
  BY DEF SyncInv, MessagesInv, LogInv
<1> QED BY <1>1, <1>2 DEF Current, IsGood, Locals

(* An instance changes its tree, and asks for the next change.             *)
ChangesTree(p, s, P, i, C) ==
  /\ status[p] = "running" /\ IsGood(s) /\ s.tree # {} /\ Become(p, s)
  /\ UNCHANGED <<status, timers>> /\ threw' \in [Instances -> BOOLEAN]
  /\ P \subseteq Names /\ SyncName(s.tree) \in P
  /\ pending' = [pending EXCEPT ![p] = P]
  /\ i \in Nat /\ (SyncName({}) \in P => i = 0)
  /\ initialized' = [initialized EXCEPT ![p] = i]
  /\ C \subseteq Contents /\ \A d \in C : IsMessage(d.content)
  /\ cache' = [cache EXCEPT ![p] = C]
  /\ \A m \in network' : IsSent(m) /\ (m.to = p => m.name \in P)

LEMMA TreeStep ==
  ASSUME SyncInv, NEW p \in Instances, NEW s, NEW P, NEW i, NEW C, ChangesTree(p, s, P, i, C)
  PROVE  SyncInv'
<1> USE DEF SyncInv, ChangesTree
<1>1. /\ s.tree \subseteq States /\ s.sequenceNo \in {-1} \cup Nat
      /\ s.log \in Seq([digest : SUBSET States, data : SUBSET States])
      /\ IsMessage(s.tree)
      /\ \A k \in DOMAIN s.log : IsMessage(s.log[k].data) /\ Precedes(s.log[k].digest, s.tree)
  BY DEF IsGood, Locals
<1>2. TypeOK'
  <2>1. tree' \in [Instances -> SUBSET States]
        /\ log' \in [Instances -> Seq([digest : SUBSET States, data : SUBSET States])]
        /\ sequenceNo' \in [Instances -> {-1} \cup Nat]
    BY <1>1 DEF TypeOK, Become
  <2>2. /\ cache' \in [Instances -> SUBSET [name : Names, content : SUBSET States]]
        /\ pending' \in [Instances -> SUBSET Names] /\ initialized' \in [Instances -> Nat]
    BY DEF TypeOK, Contents
  <2>3. network' \subseteq [to : Instances, name : Names, content : SUBSET States]
    BY DEF IsSent, Messages
  <2> QED BY <2>1, <2>2, <2>3 DEF TypeOK
<1>3. /\ tree'[p] = s.tree /\ log'[p] = s.log /\ sequenceNo'[p] = s.sequenceNo
      /\ pending'[p] = P /\ initialized'[p] = i /\ cache'[p] = C
      /\ \A q \in Instances \ {p} :
           /\ tree'[q] = tree[q] /\ log'[q] = log[q] /\ sequenceNo'[q] = sequenceNo[q]
           /\ pending'[q] = pending[q] /\ initialized'[q] = initialized[q] /\ cache'[q] = cache[q]
  BY DEF TypeOK, Become
<1>4. MessagesInv'
  <2>1. \A m \in network' : IsMessage(m.content)
    BY DEF IsSent
  <2>2. ASSUME NEW q \in Instances
        PROVE  (/\ IsMessage(tree[q])
                /\ \A k \in DOMAIN log[q] : IsMessage(log[q][k].data)
                /\ \A d \in cache[q] : IsMessage(d.content))'
    <3>1. CASE q = p
      BY <1>1, <1>3, <3>1
    <3>2. CASE q # p
      BY <1>3, <3>2 DEF MessagesInv
    <3> QED BY <3>1, <3>2
  <2> QED BY <2>1, <2>2 DEF MessagesInv
<1>5. LogInv'
  <2>1. ASSUME NEW q \in Instances, NEW k \in DOMAIN log'[q]
        PROVE  Precedes(log[q][k].digest, tree[q])'
    <3>1. CASE q = p
      BY <1>1, <1>3, <3>1
    <3>2. CASE q # p
      BY <1>3, <3>2 DEF LogInv
    <3> QED BY <3>1, <3>2
  <2> QED BY <2>1 DEF LogInv
<1>6. StartInv'
  <2>1. ASSUME NEW q \in Instances
        PROVE  (/\ status[q] = "new" => tree[q] = {} /\ pending[q] = {} /\ timers[q] = {}
                /\ tree[q] = {} =>
                     /\ Len(log[q]) = 1 /\ log[q][1].digest = {}
                     /\ sequenceNo[q] = PreviousOf[q] /\ initialized[q] = 0
                     /\ status[q] = "running" => pending[q] = {SyncName({})}
                /\ SyncName({}) \in pending[q] => initialized[q] = 0)'
    <3>1. CASE q = p
      BY <1>3, <3>1
    <3>2. CASE q # p
      BY <1>3, <3>2 DEF StartInv
    <3> QED BY <3>1, <3>2
  <2> QED BY <2>1 DEF StartInv
<1>7. NetworkInv'
  BY <1>3 DEF NetworkInv, IsSent, Messages
<1>8. RootIsAsked'
  BY <1>3 DEF RootIsAsked
<1> QED BY <1>2, <1>4, <1>5, <1>6, <1>7, <1>8

(* An instance keeps its tree.                                             *)
KeepsTree(p, st, T, P) ==
  /\ UNCHANGED <<tree, log, sequenceNo, cache, initialized, threw>>
  /\ st \in {"running", "shut"} /\ status' = [status EXCEPT ![p] = st]
  /\ T \subseteq SUBSET States /\ timers' = [timers EXCEPT ![p] = T]
  /\ P \subseteq Names /\ pending' = [pending EXCEPT ![p] = P]
  /\ st = "running" /\ tree[p] = {} => P = {SyncName({})}
  /\ st = "running" /\ tree[p] # {} => SyncName(tree[p]) \in P
  /\ SyncName({}) \in P => SyncName({}) \in pending[p] \/ tree[p] = {}
  /\ \A m \in network' : IsSent(m) /\ (m.to = p => m.name \in P)

LEMMA PendingStep ==
  ASSUME SyncInv, NEW p \in Instances, NEW st, NEW T, NEW P, KeepsTree(p, st, T, P)
  PROVE  SyncInv'
<1> USE DEF SyncInv, KeepsTree
<1>1. TypeOK'
  <2>1. network' \subseteq [to : Instances, name : Names, content : SUBSET States]
    BY DEF IsSent, Messages
  <2> QED BY <2>1 DEF TypeOK
<1>2. /\ status'[p] = st /\ timers'[p] = T /\ pending'[p] = P
      /\ \A q \in Instances \ {p} :
           status'[q] = status[q] /\ timers'[q] = timers[q] /\ pending'[q] = pending[q]
  BY DEF TypeOK
<1>3. MessagesInv' /\ LogInv'
  BY DEF MessagesInv, LogInv, IsSent
<1>4. StartInv'
  <2>1. ASSUME NEW q \in Instances
        PROVE  (/\ status[q] = "new" => tree[q] = {} /\ pending[q] = {} /\ timers[q] = {}
                /\ tree[q] = {} =>
                     /\ Len(log[q]) = 1 /\ log[q][1].digest = {}
                     /\ sequenceNo[q] = PreviousOf[q] /\ initialized[q] = 0
                     /\ status[q] = "running" => pending[q] = {SyncName({})}
                /\ SyncName({}) \in pending[q] => initialized[q] = 0)'
    <3>1. CASE q = p
      BY <1>2, <3>1 DEF StartInv
    <3>2. CASE q # p
      BY <1>2, <3>2 DEF StartInv
    <3> QED BY <3>1, <3>2
  <2> QED BY <2>1 DEF StartInv
<1>5. NetworkInv'
  BY <1>2 DEF NetworkInv, IsSent, Messages
<1>6. RootIsAsked'
  <2>1. ASSUME NEW q \in Instances, (status[q] = "running" /\ tree[q] # {})'
        PROVE  (SyncName(tree[q]) \in pending[q])'
    <3>1. CASE q = p
      BY <1>2, <2>1, <3>1
    <3>2. CASE q # p
      BY <1>2, <2>1, <3>2 DEF RootIsAsked
    <3> QED BY <3>1, <3>2
  <2> QED BY <2>1 DEF RootIsAsked
<1> QED BY <1>1, <1>3, <1>4, <1>5, <1>6

-----------------------------------------------------------------------------
(* What an instance answers.                                               *)

LEMMA SentIsSent ==
  ASSUME SyncInv, NEW p \in Instances, NEW name \in Names,
         NEW content, content \subseteq States, IsMessage(content)
  PROVE  \A m \in Sent(p, name, content) : IsSent(m) /\ m.to # p
BY DEF Sent, IsSent, Messages

LEMMA ReplyIsSent ==
  ASSUME SyncInv, NEW p \in Instances, NEW name \in Names,
         NEW content, content \subseteq States, IsMessage(content), Reply(p, name, content)
  PROVE  \A m \in network' : IsSent(m) /\ (m.to = p => m \in network)
BY SentIsSent, NetworkIsSent DEF Reply

(* The states after a digest: for each name those of the last message.     *)
LEMMA DifferenceIsMessage ==
  ASSUME SyncInv, NEW q \in Instances, NEW index \in DOMAIN log[q]
  PROVE  /\ Difference(log[q], index) \subseteq States
         /\ IsMessage(Difference(log[q], index))
<1> DEFINE l == log[q]
           With(name) == {k \in index + 1 .. Len(l) : StatesOf(l[k].data, name) # {}}
           Latest(name) == CHOOSE k \in With(name) : \A j \in With(name) : j <= k
           names == {PrefixOf[p] : p \in Instances}
           of(name) == StatesOf(l[Latest(name)].data, name)
<1>1. /\ l \in Seq([digest : SUBSET States, data : SUBSET States])
      /\ \A k \in DOMAIN l : IsMessage(l[k].data)
  BY DEF SyncInv, TypeOK, MessagesInv
<1>2. /\ Len(l) \in Nat /\ index \in Nat /\ index + 1 \in Int
      /\ \A k \in index + 1 .. Len(l) : k \in DOMAIN l /\ k \in Nat
  BY <1>1
<1>3. \A k \in DOMAIN l : l[k].data \subseteq States
  <2>1. \A k \in DOMAIN l : l[k] \in [digest : SUBSET States, data : SUBSET States]
    <3> DEFINE Entries == [digest : SUBSET States, data : SUBSET States]
    <3>1. l \in Seq(Entries)
      BY <1>1
    <3> HIDE DEF Entries, l
    <3>2. \A k \in DOMAIN l : l[k] \in Entries
      BY <3>1
    <3> QED BY <3>2 DEF Entries
  <2> QED BY <2>1
<1> HIDE DEF l
<1>4. ASSUME NEW name, With(name) # {}
      PROVE  /\ of(name) \subseteq States /\ Newest(of(name)) \in of(name)
             /\ \A s \in of(name) : s.name = name /\ \E p \in Instances : Owns(p, s)
  <2>1. With(name) \subseteq Nat /\ With(name) \subseteq index + 1 .. Len(l)
    BY <1>2
  <2>2. IsFiniteSet(With(name))
    <3>1. IsFiniteSet(index + 1 .. Len(l))
      BY <1>2, FS_Interval
    <3> HIDE DEF With
    <3> QED BY <2>1, <3>1, FS_Subset
  <2>3. IsBounded(With(name))
    <3> HIDE DEF With
    <3> QED BY <1>4, <2>1, <2>2, FiniteIsBounded
  <2>4. Latest(name) \in With(name)
    <3> HIDE DEF With
    <3> QED BY <2>3 DEF IsBounded
  <2> HIDE DEF Latest
  <2>5. of(name) # {} /\ Latest(name) \in DOMAIN l
    BY <1>2, <2>4
  <2>6. of(name) \subseteq l[Latest(name)].data /\ \A s \in of(name) : s.name = name
    BY DEF StatesOf
  <2> HIDE DEF of, With
  <2>7. of(name) \subseteq States /\ \A s \in of(name) : \E p \in Instances : Owns(p, s)
    BY <1>1, <1>3, <2>5, <2>6 DEF IsMessage
  <2> QED BY <2>5, <2>6, <2>7, NewestIsOne
<1>5. Difference(l, index) = {Newest(of(name)) : name \in {n \in names : With(n) # {}}}
  BY DEF Difference
<1> HIDE DEF of, With, names
<1>6. \A s \in Difference(l, index) : \E name :
        With(name) # {} /\ s = Newest(of(name)) /\ s \in of(name)
  BY <1>4, <1>5
<1>7. ASSUME NEW s \in Difference(l, index), NEW t \in Difference(l, index), SameNode(s, t)
      PROVE  s = t
  BY <1>4, <1>6, <1>7 DEF SameNode
<1>8. \A s \in Difference(l, index) : s \in States /\ \E p \in Instances : Owns(p, s)
  BY <1>4, <1>6
<1> QED BY <1>7, <1>8 DEF IsMessage, l

LEMMA ProcessIsSent ==
  ASSUME SyncInv, NEW q \in Instances, NEW digest, Knows(q, digest), SyncName(digest) \in Names,
         ProcessSyncInterest(q, digest)
  PROVE  \A m \in network' : IsSent(m) /\ (m.to = q => m \in network)
<1> DEFINE index == IndexOf(log[q], digest)
           content == Difference(log[q], index)
<1>1. index \in DOMAIN log[q]
  BY DEF Knows, IsLogged, IndexOf
<1>2. content \subseteq States /\ IsMessage(content)
  BY <1>1, DifferenceIsMessage
<1>3. network' = network \/ Reply(q, SyncName(digest), content)
  BY DEF ProcessSyncInterest
<1> HIDE DEF content
<1> QED BY <1>2, <1>3, NetworkIsSent, ReplyIsSent

LEMMA BroadcastIsSent ==
  ASSUME SyncInv, NEW p \in Instances, NEW digest, digest \subseteq States,
         NEW content, content \subseteq States, IsMessage(content),
         NEW before, before \subseteq network, Broadcast(p, digest, content, before)
  PROVE  /\ \E C \in SUBSET Contents :
              cache' = [cache EXCEPT ![p] = C] /\ \A d \in C : IsMessage(d.content)
         /\ \A m \in network' : IsSent(m) /\ (m.to = p => m \in before)
<1> DEFINE data == [name |-> SyncName(digest), content |-> content]
           C == IF \E d \in cache[p] : d.name = data.name THEN cache[p] ELSE cache[p] \cup {data}
<1>1. cache[p] \subseteq Contents /\ \A d \in cache[p] : IsMessage(d.content)
  BY DEF SyncInv, TypeOK, MessagesInv, Contents
<1>2. data \in Contents /\ data.content = content /\ data.name \in Names
  BY NamesAreTyped DEF Contents
<1>3. cache' = [cache EXCEPT ![p] = C]
      /\ \E answered \in {{}, Sent(p, data.name, content)} : network' = before \cup answered
  BY DEF Broadcast
<1> HIDE DEF data
<1>4. C \in SUBSET Contents /\ \A d \in C : IsMessage(d.content)
  BY <1>1, <1>2
<1>5. \A m \in network' : IsSent(m) /\ (m.to = p => m \in before)
  BY <1>2, <1>3, SentIsSent, NetworkIsSent
<1> HIDE DEF C
<1> QED BY <1>3, <1>4, <1>5

-----------------------------------------------------------------------------
(* The steps.                                                              *)

LEMMA InitialIsSync == Init => SyncInv
<1> SUFFICES ASSUME Init PROVE SyncInv
  OBVIOUS
<1> USE DEF Init
<1>1. TypeOK
  <2> DEFINE Entries == [digest : SUBSET States, data : SUBSET States]
             first == [digest |-> {}, data |-> {}]
  <2>1. first \in Entries
    OBVIOUS
  <2> HIDE DEF first, Entries
  <2>2. <<first>> \in Seq(Entries)
    BY <2>1
  <2>3. log = [p \in Instances |-> <<first>>]
    BY DEF first
  <2>4. log \in [Instances -> Seq(Entries)]
    BY <2>2, <2>3
  <2>5. log \in [Instances -> Seq([digest : SUBSET States, data : SUBSET States])]
    BY <2>4 DEF Entries
  <2> QED BY <2>5, SyncAssumption DEF TypeOK
<1>2. \A p \in Instances : tree[p] = {} /\ cache[p] = {} /\ Len(log[p]) = 1
        /\ DOMAIN log[p] = 1 .. 1 /\ log[p][1].data = {} /\ log[p][1].digest = {}
  OBVIOUS
<1>3. MessagesInv
  BY <1>2 DEF MessagesInv, IsMessage
<1>4. LogInv
  BY <1>2 DEF LogInv, Precedes
<1>5. StartInv /\ NetworkInv /\ RootIsAsked
  BY <1>2 DEF StartInv, NetworkInv, RootIsAsked
<1> QED BY <1>1, <1>3, <1>4, <1>5 DEF SyncInv

LEMMA InitializeKeeps ==
  ASSUME SyncInv, NEW p \in Instances, Initialize(p)
  PROVE  SyncInv'
<1>1. tree[p] = {} /\ pending[p] = {} /\ timers[p] = {}
  BY DEF Initialize, SyncInv, StartInv
<1>2. timers' = [timers EXCEPT ![p] = timers[p]] /\ timers[p] \subseteq SUBSET States
  BY DEF Initialize, SyncInv, TypeOK
<1>3. {SyncName({})} \subseteq Names
  BY NamesAreTyped
<1>4. \A m \in network' : IsSent(m) /\ m.to # p
  BY <1>1, NetworkIsSent DEF Initialize, IsSent
<1> DEFINE P == {SyncName({})}
<1>5. pending' = [pending EXCEPT ![p] = P]
  BY DEF Initialize
<1>6. P \subseteq Names /\ P # {} /\ P = {SyncName({})}
  BY <1>3
<1> HIDE DEF P
<1>7. status' = [status EXCEPT ![p] = "running"]
      /\ UNCHANGED <<tree, log, sequenceNo, cache, initialized, threw>>
  BY DEF Initialize
<1>8. KeepsTree(p, "running", timers[p], P)
  BY <1>1, <1>2, <1>4, <1>5, <1>6, <1>7 DEF KeepsTree
<1> QED BY <1>8, PendingStep

LEMMA ShutdownKeeps ==
  ASSUME SyncInv, NEW p \in Instances, Shutdown(p)
  PROVE  SyncInv'
<1>1. \A m \in network' : IsSent(m) /\ m.to # p
  BY NetworkIsSent DEF Shutdown
<1>2. /\ status' = [status EXCEPT ![p] = "shut"]
      /\ pending' = [pending EXCEPT ![p] = {}] /\ timers' = [timers EXCEPT ![p] = {}]
      /\ UNCHANGED <<tree, log, sequenceNo, cache, initialized, threw>>
  BY DEF Shutdown
<1>3. KeepsTree(p, "shut", {}, {})
  BY <1>1, <1>2 DEF KeepsTree
<1> QED BY <1>3, PendingStep

LEMMA SyncTimeoutKeeps ==
  ASSUME SyncInv, NEW p \in Instances, NEW name \in pending[p], SyncTimeout(p, name)
  PROVE  SyncInv'
<1> DEFINE P == pending[p] \ {name}
<1>1. /\ name # SyncName({}) /\ name # SyncName(tree[p])
      /\ pending' = [pending EXCEPT ![p] = P] /\ network' = Unanswered(p, name)
      /\ UNCHANGED <<status, tree, log, sequenceNo, cache, timers, initialized, threw>>
  BY DEF SyncTimeout, GivesUp
<1>2. /\ status[p] \in {"new", "running", "shut"} /\ status' = [status EXCEPT ![p] = status[p]]
      /\ timers[p] \subseteq SUBSET States /\ timers' = [timers EXCEPT ![p] = timers[p]]
      /\ P \subseteq Names
  BY <1>1 DEF SyncInv, TypeOK
<1>3. \A m \in network' : IsSent(m) /\ (m.to = p => m.name \in P)
  BY <1>1, NetworkIsSent DEF Unanswered, IsSent
<1>4. status[p] # "new"
  BY DEF SyncInv, StartInv
<1>5. status[p] = "running" => IF tree[p] = {} THEN P = {SyncName({})} ELSE SyncName(tree[p]) \in P
  BY <1>1 DEF SyncInv, StartInv, RootIsAsked
<1>6. SyncName({}) \in P => SyncName({}) \in pending[p]
  OBVIOUS
<1> HIDE DEF P
<1>7. KeepsTree(p, status[p], timers[p], P)
  BY <1>1, <1>2, <1>3, <1>4, <1>5, <1>6 DEF KeepsTree
<1> QED BY <1>7, PendingStep

LEMMA ReceiveInterestKeeps ==
  ASSUME SyncInv, NEW q \in Instances, NEW p \in Instances, NEW name \in pending[p],
         ReceiveInterest(q, p, name)
  PROVE  SyncInv'
<1>1. /\ status[q] = "running" /\ status' = [status EXCEPT ![q] = status[q]]
      /\ pending' = [pending EXCEPT ![q] = pending[q]] /\ pending[q] \subseteq Names
      /\ UNCHANGED <<status, tree, log, sequenceNo, cache, pending, initialized, threw>>
      /\ name \in Names /\ timers[q] \subseteq SUBSET States
  BY DEF ReceiveInterest, SyncInv, TypeOK
<1>2. IF tree[q] = {} THEN pending[q] = {SyncName({})} ELSE SyncName(tree[q]) \in pending[q]
  BY <1>1 DEF SyncInv, StartInv, RootIsAsked
<1>3. /\ \A m \in network' : IsSent(m) /\ (m.to = q => m \in network)
      /\ timers' = timers \/ timers' = [timers EXCEPT ![q] = @ \cup {name.digest}]
  <2>1. CASE \E d \in cache[q] : d.name = name /\ Reply(q, name, d.content) /\ UNCHANGED timers
    <3>1. PICK d \in cache[q] : d.name = name /\ Reply(q, name, d.content) /\ UNCHANGED timers
      BY <2>1
    <3>2. d.content \subseteq States /\ IsMessage(d.content)
      BY DEF SyncInv, TypeOK, MessagesInv
    <3> QED BY <1>1, <3>1, <3>2, ReplyIsSent
  <2>2. CASE OnInterest(q, name)
    <3>1. CASE ProcessRecoveryInterest(q, name) /\ UNCHANGED timers
      <4>1. tree[q] \subseteq States /\ IsMessage(tree[q])
        BY DEF SyncInv, TypeOK, MessagesInv
      <4>2. network' = network \/ Reply(q, name, tree[q])
        BY <3>1 DEF ProcessRecoveryInterest
      <4> QED BY <1>1, <3>1, <4>1, <4>2, ReplyIsSent, NetworkIsSent
    <3>2. CASE UNCHANGED <<timers, network>>
      BY <3>2, NetworkIsSent
    <3>3. CASE Knows(q, name.digest) /\ ProcessSyncInterest(q, name.digest) /\ UNCHANGED timers
      <4>1. SyncName(name.digest) \in Names
        BY <1>1, NamesAreTyped
      <4> QED BY <3>3, <4>1, ProcessIsSent
    <3>4. CASE timers' = [timers EXCEPT ![q] = @ \cup {name.digest}] /\ UNCHANGED network
      BY <3>4, NetworkIsSent
    <3> QED BY <2>2, <3>1, <3>2, <3>3, <3>4 DEF OnInterest
  <2> QED BY <2>1, <2>2 DEF ReceiveInterest
<1>4. PICK T \in SUBSET SUBSET States : timers' = [timers EXCEPT ![q] = T]
  <2>1. name.digest \subseteq States
    BY <1>1, NamesAreTyped
  <2>2. timers = [timers EXCEPT ![q] = timers[q]]
    BY DEF SyncInv, TypeOK
  <2> QED BY <1>1, <1>3, <2>1, <2>2
<1>5. \A m \in network' : IsSent(m) /\ (m.to = q => m.name \in pending[q])
  BY <1>3 DEF IsSent
<1>6. KeepsTree(q, status[q], T, pending[q])
  BY <1>1, <1>2, <1>4, <1>5 DEF KeepsTree
<1> QED BY <1>6, PendingStep

LEMMA JudgeRecoveryKeeps ==
  ASSUME SyncInv, NEW q \in Instances, NEW digest \in timers[q], JudgeRecovery(q, digest)
  PROVE  SyncInv'
<1>1. /\ digest \subseteq States /\ timers[q] \ {digest} \subseteq SUBSET States
      /\ pending[q] \subseteq Names /\ status[q] \in {"new", "running", "shut"}
      /\ status' = [status EXCEPT ![q] = status[q]]
      /\ timers' = [timers EXCEPT ![q] = timers[q] \ {digest}]
      /\ UNCHANGED <<status, tree, log, sequenceNo, cache, initialized, threw>>
      /\ SyncName({}) \notin pending[q]
  BY DEF JudgeRecovery, SyncInv, TypeOK
<1>2. status[q] # "new"
  BY DEF SyncInv, StartInv
<1>3. status[q] = "running" => tree[q] # {} /\ SyncName(tree[q]) \in pending[q]
  BY <1>1 DEF SyncInv, StartInv, RootIsAsked
<1>4. /\ \A m \in network' : IsSent(m) /\ (m.to = q => m \in network)
      /\ pending' = pending \/ pending' = [pending EXCEPT ![q] = @ \cup {RecoveryName(digest)}]
  <2>1. CASE UNCHANGED <<pending, network>>
    BY <2>1, NetworkIsSent
  <2>2. CASE Knows(q, digest) /\ ProcessSyncInterest(q, digest) /\ UNCHANGED pending
    BY <1>1, <2>2, NamesAreTyped, ProcessIsSent
  <2>3. CASE pending' = [pending EXCEPT ![q] = @ \cup {RecoveryName(digest)}]
             /\ UNCHANGED network
    BY <2>3, NetworkIsSent
  <2> QED BY <2>1, <2>2, <2>3 DEF JudgeRecovery
<1>5. PICK P \in SUBSET Names :
        /\ pending' = [pending EXCEPT ![q] = P] /\ pending[q] \subseteq P
        /\ SyncName({}) \notin P
  <2>1. pending = [pending EXCEPT ![q] = pending[q]]
    BY DEF SyncInv, TypeOK
  <2>2. CASE pending' = pending
    BY <1>1, <2>1, <2>2
  <2>3. CASE pending' = [pending EXCEPT ![q] = pending[q] \cup {RecoveryName(digest)}]
    <3>1. RecoveryName(digest) \in Names /\ RecoveryName(digest) # SyncName({})
      BY <1>1, NamesAreTyped
    <3>2. pending[q] \cup {RecoveryName(digest)} \in SUBSET Names
      BY <1>1, <3>1
    <3> QED BY <1>1, <2>3, <3>1, <3>2
  <2> QED BY <1>4, <2>2, <2>3
<1>6. \A m \in network' : IsSent(m) /\ (m.to = q => m.name \in P)
  BY <1>4, <1>5 DEF IsSent
<1>7. KeepsTree(q, status[q], timers[q] \ {digest}, P)
  BY <1>1, <1>2, <1>3, <1>5, <1>6 DEF KeepsTree
<1> QED BY <1>7, PendingStep

(* A tree which has become another one is not empty.                       *)
LEMMA UpdateIsNotEmpty ==
  ASSUME NEW p, NEW s, IsGood(s), NEW m, m \subseteq States, IsMessage(m),
         s.tree # {} \/ m # {}
  PROVE  Update(p, s, m).tree # {}
<1>1. Update(p, s, m).tree = Merge(s.tree, m)
  BY UpdateTree
<1>2. s.tree \subseteq States /\ IsMessage(s.tree)
  BY DEF IsGood, Locals
<1>3. Precedes(s.tree, Merge(s.tree, m)) /\ NewStates(s.tree, m) \subseteq Merge(s.tree, m)
  BY <1>2, MergeKeeps
<1>4. CASE s.tree # {}
  BY <1>1, <1>3, <1>4 DEF Precedes
<1>5. CASE s.tree = {} /\ m # {}
  BY <1>1, <1>3, <1>5 DEF NewStates, IsNewer
<1> QED BY <1>4, <1>5

(* What a step finds of the instance.                                      *)
LEMMA InstanceTypes ==
  ASSUME SyncInv, NEW p \in Instances
  PROVE  /\ pending[p] \subseteq Names /\ initialized[p] \in Nat
         /\ initialized = [initialized EXCEPT ![p] = initialized[p]]
         /\ pending = [pending EXCEPT ![p] = pending[p]]
         /\ cache = [cache EXCEPT ![p] = cache[p]]
         /\ cache[p] \subseteq Contents /\ \A d \in cache[p] : IsMessage(d.content)
         /\ SyncName({}) \in pending[p] => initialized[p] = 0
         /\ tree[p] = {} => initialized[p] = 0 /\ sequenceNo[p] = PreviousOf[p]
         /\ PreviousOf[p] \in Int /\ sequenceNo[p] \in Int
BY SyncAssumption DEF SyncInv, TypeOK, MessagesInv, StartInv, Contents

LEMMA InitialTimeOutKeeps ==
  ASSUME SyncInv, NEW p \in Instances, InitialTimeOut(p)
  PROVE  SyncInv'
<1> DEFINE s == Increment(Current(p))
           content == {State(p, s.sequenceNo)}
           u == Update(p, s, content)
           rest == pending[p] \ {SyncName({})}
<1>1. /\ IsGood(s) /\ s.tree = tree[p] /\ s.sequenceNo = sequenceNo[p] + 1
      /\ s.sequenceNo \in Nat
  BY CurrentIsGood, IncrementIsGood
<1>2. /\ SyncName({}) \in pending[p] /\ status[p] = "running"
      /\ \/ /\ s.sequenceNo # PreviousOf[p] + 1
            /\ Become(p, s) /\ pending' = [pending EXCEPT ![p] = rest]
            /\ UNCHANGED initialized
         \/ /\ Become(p, u) /\ initialized' = [initialized EXCEPT ![p] = @ + 1]
            /\ Asks(p, rest)
      /\ network' = Unanswered(p, SyncName({}))
      /\ UNCHANGED <<status, cache, timers, threw>>
  BY DEF InitialTimeOut
<1>3. \A m \in network' : IsSent(m) /\ (m.to = p => m.name \in rest)
  BY <1>2, NetworkIsSent DEF Unanswered, IsSent
<1>4. rest \subseteq Names /\ SyncName({}) \notin rest
  BY InstanceTypes
<1>5. threw' \in [Instances -> BOOLEAN]
  BY <1>2 DEF SyncInv, TypeOK
<1>6. cache' = [cache EXCEPT ![p] = cache[p]]
  BY <1>2, InstanceTypes
<1> HIDE DEF s, u
<1>7. CASE s.sequenceNo # PreviousOf[p] + 1 /\ Become(p, s)
           /\ pending' = [pending EXCEPT ![p] = rest] /\ UNCHANGED initialized
  <2>1. s.tree # {}
    BY <1>1, <1>7, InstanceTypes
  <2>2. SyncName(s.tree) \in rest
    <3>1. SyncName(tree[p]) # SyncName({})
      BY <1>1, <2>1 DEF SyncName
    <3> QED BY <1>1, <1>2, <2>1, <3>1 DEF SyncInv, RootIsAsked
  <2> HIDE DEF rest
  <2>3. ChangesTree(p, s, rest, initialized[p], cache[p])
    BY <1>1, <1>2, <1>3, <1>4, <1>5, <1>6, <1>7, <2>1, <2>2, InstanceTypes DEF ChangesTree
  <2> QED BY <2>3, TreeStep
<1>8. CASE Become(p, u) /\ initialized' = [initialized EXCEPT ![p] = @ + 1] /\ Asks(p, rest)
  <2> DEFINE P == rest \cup {SyncName(u.tree)}
  <2>1. content \subseteq States /\ IsMessage(content) /\ content # {}
    BY <1>1, StateTypes
  <2> HIDE DEF content
  <2>2. IsGood(u) /\ u.tree # {}
    BY <1>1, <2>1, UpdateKeeps, UpdateIsNotEmpty DEF u
  <2>3. u.tree \subseteq States
    BY <2>2 DEF IsGood, Locals
  <2>4. P \subseteq Names /\ SyncName(u.tree) \in P /\ SyncName({}) \notin P
    BY <1>4, <2>2, <2>3, NamesAreTyped
  <2>5. pending' = [pending EXCEPT ![p] = P]
    <3>1. tree'[p] = u.tree
      BY <1>8 DEF Become, SyncInv, TypeOK
    <3> QED BY <1>8, <3>1 DEF Asks
  <2>6. \A m \in network' : IsSent(m) /\ (m.to = p => m.name \in P)
    BY <1>3
  <2> HIDE DEF P, rest
  <2>7. initialized' = [initialized EXCEPT ![p] = initialized[p] + 1]
        /\ initialized[p] + 1 \in Nat
    BY <1>8, InstanceTypes
  <2>8. ChangesTree(p, u, P, initialized[p] + 1, cache[p])
    BY <1>2, <1>5, <1>6, <1>8, <2>2, <2>4, <2>5, <2>6, <2>7, InstanceTypes DEF ChangesTree
  <2> QED BY <2>8, TreeStep
<1> QED BY <1>2, <1>7, <1>8

LEMMA PublishKeeps ==
  ASSUME SyncInv, NEW p \in Instances, Publish(p)
  PROVE  SyncInv'
<1> DEFINE s == Increment(Current(p))
           content == {State(p, s.sequenceNo)}
           u == Update(p, s, content)
<1>1. /\ IsGood(s) /\ s.tree = tree[p] /\ s.log = log[p] /\ s.sequenceNo = sequenceNo[p] + 1
      /\ s.sequenceNo \in Nat
  BY CurrentIsGood, IncrementIsGood
<1>2. /\ status[p] = "running" /\ Broadcast(p, tree[p], content, network) /\ Become(p, u)
      /\ \/ u.log = s.log /\ threw' = [threw EXCEPT ![p] = TRUE] /\ UNCHANGED pending
         \/ Asks(p, pending[p]) /\ UNCHANGED threw
      /\ UNCHANGED <<status, timers, initialized>>
  BY DEF Publish
<1>3. content \subseteq States /\ IsMessage(content) /\ tree[p] \subseteq States /\ content # {}
  BY <1>1, StateTypes DEF SyncInv, TypeOK
<1> HIDE DEF s, content
<1>4. /\ \E C \in SUBSET Contents :
            cache' = [cache EXCEPT ![p] = C] /\ \A d \in C : IsMessage(d.content)
      /\ \A m \in network' : IsSent(m) /\ (m.to = p => m \in network)
  BY <1>2, <1>3, BroadcastIsSent
<1>5. PICK C \in SUBSET Contents :
        cache' = [cache EXCEPT ![p] = C] /\ \A d \in C : IsMessage(d.content)
  BY <1>4
<1>6. IsGood(u) /\ u.tree # {} /\ (u.log = s.log => u.tree = s.tree)
  BY <1>1, <1>3, UpdateKeeps, UpdateIsNotEmpty
<1> HIDE DEF u
<1>7. threw' \in [Instances -> BOOLEAN]
  BY <1>2 DEF SyncInv, TypeOK
<1>8. PICK P \in SUBSET Names :
        /\ pending' = [pending EXCEPT ![p] = P] /\ SyncName(u.tree) \in P
        /\ pending[p] \subseteq P /\ P \subseteq pending[p] \cup {SyncName(u.tree)}
  <2>1. CASE u.log = s.log /\ UNCHANGED pending
    <3>1. SyncName(u.tree) \in pending[p]
      BY <1>1, <1>2, <1>6, <2>1 DEF SyncInv, RootIsAsked
    <3> QED BY <2>1, <3>1, InstanceTypes
  <2>2. CASE Asks(p, pending[p])
    <3>1. tree'[p] = u.tree
      BY <1>2 DEF Become, SyncInv, TypeOK
    <3>2. SyncName(u.tree) \in Names
      BY <1>6, NamesAreTyped DEF IsGood, Locals
    <3>3. pending' = [pending EXCEPT ![p] = pending[p] \cup {SyncName(u.tree)}]
      BY <2>2, <3>1 DEF Asks
    <3>4. pending[p] \cup {SyncName(u.tree)} \in SUBSET Names
      BY <3>2, InstanceTypes
    <3> QED BY <3>3, <3>4
  <2> QED BY <1>2, <2>1, <2>2
<1>9. SyncName({}) \in P => initialized[p] = 0
  <2>1. SyncName(u.tree) # SyncName({})
    BY <1>6 DEF SyncName
  <2> QED BY <1>8, <2>1, InstanceTypes
<1>10. \A m \in network' : IsSent(m) /\ (m.to = p => m.name \in P)
  BY <1>4, <1>8 DEF IsSent
<1>11. ChangesTree(p, u, P, initialized[p], C)
  BY <1>2, <1>5, <1>6, <1>7, <1>8, <1>9, <1>10, InstanceTypes DEF ChangesTree
<1> QED BY <1>11, TreeStep

LEMMA OnDataKeeps ==
  ASSUME SyncInv, NEW p \in Instances, NEW data \in network, ReceiveData(p, data), tree[p] # {}
  PROVE  SyncInv'
<1> DEFINE s == Current(p)
           content == data.content
           u == Update(p, s, content)
           rest == pending[p] \ {data.name}
           P == rest \cup {SyncName(u.tree)}
<1>1. IsGood(s) /\ s.tree = tree[p]
  BY CurrentIsGood
<1>2. /\ status[p] = "running" /\ Become(p, u) /\ network' = Unanswered(p, data.name)
      /\ Asks(p, rest) /\ UNCHANGED <<status, timers, threw, cache, initialized>>
  BY DEF ReceiveData, OnData
<1>3. content \subseteq States /\ IsMessage(content)
  BY DEF SyncInv, TypeOK, MessagesInv
<1> HIDE DEF s, content
<1>4. IsGood(u) /\ u.tree # {}
  BY <1>1, <1>3, UpdateKeeps, UpdateIsNotEmpty
<1> HIDE DEF u
<1>5. rest \subseteq Names /\ u.tree \subseteq States
  BY <1>4, InstanceTypes DEF IsGood, Locals
<1>6. \A m \in network' : IsSent(m) /\ (m.to = p => m.name \in rest)
  BY <1>2, NetworkIsSent DEF Unanswered, IsSent
<1>7. P \subseteq Names /\ SyncName(u.tree) \in P
  BY <1>5, NamesAreTyped
<1>8. pending' = [pending EXCEPT ![p] = P]
  <2>1. tree'[p] = u.tree
    BY <1>2 DEF Become, SyncInv, TypeOK
  <2> QED BY <1>2, <2>1 DEF Asks
<1>9. SyncName({}) \in P => initialized[p] = 0
  <2>1. SyncName(u.tree) # SyncName({})
    BY <1>4 DEF SyncName
  <2> QED BY <2>1, InstanceTypes
<1>10. \A m \in network' : IsSent(m) /\ (m.to = p => m.name \in P)
  BY <1>6
<1>11. threw' \in [Instances -> BOOLEAN]
  BY <1>2 DEF SyncInv, TypeOK
<1> HIDE DEF P, rest
<1>12. ChangesTree(p, u, P, initialized[p], cache[p])
  BY <1>2, <1>4, <1>7, <1>8, <1>9, <1>10, <1>11, InstanceTypes DEF ChangesTree
<1> QED BY <1>12, TreeStep

(* The first Data leaves no Interest but the one for the new root.         *)
LEMMA InitialOnDataKeeps ==
  ASSUME SyncInv, NEW p \in Instances, NEW data \in network, ReceiveData(p, data), tree[p] = {}
  PROVE  /\ SyncInv' /\ tree'[p] # {} /\ pending'[p] = {SyncName(tree'[p])}
         /\ initialized' = [initialized EXCEPT ![p] = 1] /\ initialized'[p] = 1
         /\ State(p, sequenceNo'[p]) \in tree'[p]
         /\ \A t \in tree'[p] : Owns(p, t) => t.seq <= sequenceNo'[p]
<1> DEFINE s == Current(p)
           content == data.content
           received == Update(p, s, content)
           followed == FollowEarlier(p, received, content)
           joined == JoinTree(p, followed)
           answer == {State(p, Announced(followed))}
           before == Unanswered(p, data.name)
           P == {SyncName(joined.tree)}
<1>1. IsGood(s) /\ s.tree = {}
  BY CurrentIsGood
<1>2. content \subseteq States /\ IsMessage(content) /\ data.name \in pending[p]
  <2>1. data.to = p /\ data.name \in pending[p]
    BY DEF ReceiveData, SyncInv, NetworkInv
  <2> QED BY <2>1 DEF SyncInv, TypeOK, MessagesInv
<1>3. /\ status[p] = "running" /\ Become(p, joined)
      /\ Broadcast(p, received.tree, answer, before)
      /\ Asks(p, pending[p] \ {data.name}) /\ UNCHANGED <<status, timers, threw>>
  BY DEF ReceiveData, InitialOnData
<1>4. initialized' = [initialized EXCEPT ![p] =
        @ + (IF followed.log # received.log THEN 1 ELSE 0)
          + (IF joined.log # followed.log THEN 1 ELSE 0)]
  BY DEF ReceiveData, InitialOnData
<1> HIDE DEF s, content
<1>5. /\ IsGood(received) /\ IsGood(followed) /\ IsGood(joined)
      /\ KnowsOwn(p, joined) /\ HasOwn(p, joined)
      /\ followed.log # received.log <=> joined.log = followed.log
  BY <1>1, <1>2, JoinsOnce
<1> HIDE DEF received, followed, joined
<1>6. pending[p] \ {data.name} = {}
  <2>1. pending[p] = {SyncName({})}
    BY <1>3 DEF SyncInv, StartInv
  <2> QED BY <1>2, <2>1
<1>7. initialized' = [initialized EXCEPT ![p] = 1]
  <2>1. initialized[p] = 0
    BY InstanceTypes
  <2>2. (initialized[p] + (IF followed.log # received.log THEN 1 ELSE 0)
           + (IF joined.log # followed.log THEN 1 ELSE 0)) = 1
    BY <1>5, <2>1
  <2> QED BY <1>4, <2>2
<1>8. answer \subseteq States /\ IsMessage(answer)
  <2>1. Announced(followed) \in Nat
    BY <1>5 DEF Announced, IsGood, Locals
  <2> QED BY <2>1, StateTypes
<1>9. received.tree \subseteq States /\ joined.tree \subseteq States /\ joined.tree # {}
  BY <1>5 DEF IsGood, Locals, HasOwn
<1>10. before \subseteq network /\ \A m \in before : ~(m.to = p /\ m.name = data.name)
  BY DEF Unanswered
<1> HIDE DEF answer, before
<1>11. /\ \E C \in SUBSET Contents :
             cache' = [cache EXCEPT ![p] = C] /\ \A d \in C : IsMessage(d.content)
       /\ \A m \in network' : IsSent(m) /\ (m.to = p => m \in before)
  BY <1>3, <1>8, <1>9, <1>10, BroadcastIsSent
<1>12. PICK C \in SUBSET Contents :
         cache' = [cache EXCEPT ![p] = C] /\ \A d \in C : IsMessage(d.content)
  BY <1>11
<1>13. tree'[p] = joined.tree /\ sequenceNo'[p] = joined.sequenceNo
       /\ initialized'[p] = 1
  BY <1>3, <1>7 DEF Become, SyncInv, TypeOK
<1>14. pending' = [pending EXCEPT ![p] = P] /\ pending'[p] = P
  <2>1. pending' = [pending EXCEPT ![p] = P]
    BY <1>3, <1>6, <1>13 DEF Asks
  <2> HIDE DEF P
  <2> QED BY <2>1 DEF SyncInv, TypeOK
<1>15. P \subseteq Names /\ SyncName(joined.tree) \in P /\ SyncName({}) \notin P
  BY <1>9, NamesAreTyped
<1>16. \A m \in network' : IsSent(m) /\ m.to # p
  BY <1>6, <1>10, <1>11 DEF IsSent
<1>17. threw' \in [Instances -> BOOLEAN]
  BY <1>3 DEF SyncInv, TypeOK
<1>18. P = {SyncName(tree'[p])}
  BY <1>13
<1> HIDE DEF P
<1>19. ChangesTree(p, joined, P, 1, C)
  BY <1>3, <1>5, <1>7, <1>9, <1>12, <1>14, <1>15, <1>16, <1>17 DEF ChangesTree
<1>20. SyncInv'
  BY <1>19, TreeStep
<1> QED BY <1>5, <1>7, <1>9, <1>13, <1>14, <1>18, <1>20 DEF KnowsOwn, HasOwn

LEMMA StutterKeeps == ASSUME SyncInv, UNCHANGED vars PROVE SyncInv'
BY DEF SyncInv, vars, TypeOK, MessagesInv, LogInv, StartInv, NetworkInv, RootIsAsked

LEMMA StepKeeps == ASSUME SyncInv, [Next]_vars PROVE SyncInv'
<1>1. ASSUME NEW p \in Instances, NEW data \in network, ReceiveData(p, data) PROVE SyncInv'
  BY <1>1, OnDataKeeps, InitialOnDataKeeps
<1> QED BY <1>1, StutterKeeps, InitializeKeeps, ShutdownKeeps, InitialTimeOutKeeps,
           PublishKeeps, SyncTimeoutKeeps, ReceiveInterestKeeps, JudgeRecoveryKeeps DEF Next

(* Every step leaves messages and trees which have one sequence number of  *)
(* a name and session, a log whose digests the tree has come after, and    *)
(* Data only for Interests that are pending.                               *)
THEOREM SyncIsKept == Spec => []SyncInv
<1>1. Init => SyncInv
  BY InitialIsSync
<1>2. SyncInv /\ [Next]_vars => SyncInv'
  BY StepKeeps
<1> QED BY <1>1, <1>2, PTL DEF Spec

(* A running instance with a tree has an Interest for the change of its    *)
(* root pending, whatever is lost, shut down or published: syncTimeout     *)
(* expresses it again, and onData, initialTimeOut and publish ask for the  *)
(* next root (chrono-sync2013.cpp).                                        *)
THEOREM RootStaysAsked == Spec => []RootIsAsked
<1>1. SyncInv => RootIsAsked
  BY DEF SyncInv
<1> QED BY <1>1, SyncIsKept, PTL

-----------------------------------------------------------------------------
(* The number of an instance.                                              *)

LEMMA BecomeKeepsNumbers ==
  ASSUME SyncInv, NumbersInv, NEW p \in Instances, NEW s, Become(p, s), KnowsOwn(p, s),
         NEW i \in Nat, initialized' = [initialized EXCEPT ![p] = i],
         i > 0 => HasOwn(p, s), UNCHANGED threw
  PROVE  NumbersInv'
<1>1. /\ tree'[p] = s.tree /\ sequenceNo'[p] = s.sequenceNo /\ initialized'[p] = i
      /\ \A q \in Instances \ {p} :
           /\ tree'[q] = tree[q] /\ sequenceNo'[q] = sequenceNo[q]
           /\ initialized'[q] = initialized[q]
  BY DEF Become, SyncInv, TypeOK
<1>2. OwnNumbersInv'
  BY <1>1 DEF OwnNumbersInv, NumbersInv, KnowsOwn
<1>3. SequenceNoIsOwn'
  BY <1>1 DEF SequenceNoIsOwn, NumbersInv, HasOwn, State
<1>4. PublishSucceeds'
  BY DEF PublishSucceeds, NumbersInv
<1> QED BY <1>2, <1>3, <1>4 DEF NumbersInv

(* A number above that of an instance is above those of its states.        *)
LEMMA NextIsNew ==
  ASSUME SyncInv, NumbersInv, NEW p \in Instances
  PROVE  LET s == Increment(Current(p))
         IN  IsGood(s) /\ s.sequenceNo \in Nat /\ IsNext(p, s, s.sequenceNo) /\ KnowsOwn(p, s)
<1> DEFINE s == Increment(Current(p))
<1>1. /\ IsGood(s) /\ s.tree = tree[p] /\ s.sequenceNo = sequenceNo[p] + 1
      /\ s.sequenceNo \in Nat
  BY CurrentIsGood, IncrementIsGood
<1>2. sequenceNo[p] \in Int /\ \A t \in tree[p] : t.seq \in Nat
  BY InstanceTypes DEF SyncInv, TypeOK, States
<1> HIDE DEF s
<1>3. \A t \in s.tree : Owns(p, t) => t.seq < s.sequenceNo /\ t.seq <= s.sequenceNo
  BY <1>1, <1>2 DEF NumbersInv, OwnNumbersInv
<1> QED BY <1>1, <1>3 DEF IsNext, KnowsOwn, s

LEMMA AddedKnowsOwn ==
  ASSUME NEW p \in Instances, NEW s, NEW n \in Nat, NEW u, HasAdded(p, s, n, u)
  PROVE  KnowsOwn(p, u) /\ HasOwn(p, u) /\ u.log # s.log
<1>1. State(p, n).seq = n
  BY StateTypes
<1> QED BY <1>1 DEF HasAdded, KnowsOwn, HasOwn

LEMMA InitialTimeOutNumbers ==
  ASSUME SyncInv, NumbersInv, NEW p \in Instances, InitialTimeOut(p)
  PROVE  NumbersInv'
<1> DEFINE s == Increment(Current(p))
           n == s.sequenceNo
           u == Update(p, s, {State(p, n)})
<1>1. IsGood(s) /\ n \in Nat /\ IsNext(p, s, n) /\ KnowsOwn(p, s)
  BY NextIsNew
<1>2. /\ \/ Become(p, s) /\ UNCHANGED initialized
         \/ Become(p, u) /\ initialized' = [initialized EXCEPT ![p] = @ + 1]
      /\ UNCHANGED threw /\ SyncName({}) \in pending[p]
  BY DEF InitialTimeOut
<1> HIDE DEF s, n
<1>3. HasAdded(p, s, n, u)
  BY <1>1, UpdateWithOwn
<1> HIDE DEF u
<1>4. KnowsOwn(p, u) /\ HasOwn(p, u)
  BY <1>1, <1>3, AddedKnowsOwn
<1>5. CASE Become(p, s) /\ UNCHANGED initialized
  <2>1. initialized' = [initialized EXCEPT ![p] = 0]
    BY <1>2, <1>5, InstanceTypes
  <2>2. ~(0 > 0)
    OBVIOUS
  <2> QED BY <1>1, <1>2, <1>5, <2>1, <2>2, BecomeKeepsNumbers
<1>6. CASE Become(p, u) /\ initialized' = [initialized EXCEPT ![p] = @ + 1]
  <2>1. initialized[p] + 1 \in Nat
    BY InstanceTypes
  <2> QED BY <1>2, <1>4, <1>6, <2>1, BecomeKeepsNumbers
<1> QED BY <1>2, <1>5, <1>6

LEMMA PublishNumbers ==
  ASSUME SyncInv, NumbersInv, NEW p \in Instances, Publish(p)
  PROVE  NumbersInv'
<1> DEFINE s == Increment(Current(p))
           n == s.sequenceNo
           u == Update(p, s, {State(p, n)})
<1>1. IsGood(s) /\ n \in Nat /\ IsNext(p, s, n)
  BY NextIsNew
<1>2. /\ Become(p, u) /\ UNCHANGED initialized
      /\ u.log = s.log \/ UNCHANGED threw
  BY DEF Publish
<1> HIDE DEF s, n
<1>3. HasAdded(p, s, n, u)
  BY <1>1, UpdateWithOwn
<1> HIDE DEF u
<1>4. KnowsOwn(p, u) /\ HasOwn(p, u) /\ u.log # s.log
  BY <1>1, <1>3, AddedKnowsOwn
<1>5. initialized' = [initialized EXCEPT ![p] = initialized[p]] /\ initialized[p] \in Nat
  BY <1>2, InstanceTypes
<1> QED BY <1>2, <1>4, <1>5, BecomeKeepsNumbers

LEMMA ReceiveDataNumbers ==
  ASSUME SingleSession, SyncInv, NumbersInv, NEW p \in Instances, NEW data \in network,
         ReceiveData(p, data)
  PROVE  NumbersInv'
<1>1. CASE tree[p] = {}
  <2>1. /\ State(p, sequenceNo'[p]) \in tree'[p]
        /\ \A t \in tree'[p] : Owns(p, t) => t.seq <= sequenceNo'[p]
    BY <1>1, InitialOnDataKeeps
  <2>2. UNCHANGED threw /\ \A q \in Instances \ {p} :
          /\ tree'[q] = tree[q] /\ sequenceNo'[q] = sequenceNo[q]
          /\ initialized'[q] = initialized[q]
    BY <1>1 DEF ReceiveData, InitialOnData, Become, SyncInv, TypeOK
  <2>3. OwnNumbersInv'
    BY <2>1, <2>2 DEF OwnNumbersInv, NumbersInv
  <2>4. SequenceNoIsOwn'
    BY <2>1, <2>2 DEF SequenceNoIsOwn, NumbersInv, State
  <2>5. PublishSucceeds'
    BY <2>2 DEF PublishSucceeds, NumbersInv
  <2> QED BY <2>3, <2>4, <2>5 DEF NumbersInv
<1>2. CASE tree[p] # {}
  <2> DEFINE s == Current(p)
             content == data.content
             u == Update(p, s, content)
  <2>1. IsGood(s) /\ s.tree = tree[p] /\ s.sequenceNo = sequenceNo[p]
    BY CurrentIsGood
  <2>2. Become(p, u) /\ UNCHANGED <<threw, initialized>>
    BY <1>2 DEF ReceiveData, OnData
  <2>3. content \subseteq States /\ IsMessage(content)
    BY DEF SyncInv, TypeOK, MessagesInv
  <2> HIDE DEF s, content
  <2>4. KnowsOwn(p, s) /\ (initialized[p] > 0 => HasOwn(p, s))
    BY <2>1 DEF NumbersInv, OwnNumbersInv, SequenceNoIsOwn, KnowsOwn, HasOwn
  <2>5. KnowsOwn(p, u) /\ (HasOwn(p, s) => HasOwn(p, u))
    BY <2>1, <2>3, <2>4, UpdateKeepsOwn
  <2>6. initialized' = [initialized EXCEPT ![p] = initialized[p]] /\ initialized[p] \in Nat
    BY <2>2, InstanceTypes
  <2> HIDE DEF u
  <2> QED BY <2>2, <2>4, <2>5, <2>6, BecomeKeepsNumbers
<1> QED BY <1>1, <1>2

LEMMA StepKeepsNumbers ==
  ASSUME SingleSession, SyncInv, NumbersInv, [Next]_vars PROVE NumbersInv'
<1>1. ASSUME UNCHANGED <<tree, sequenceNo, initialized, threw>> PROVE NumbersInv'
  BY <1>1 DEF NumbersInv, OwnNumbersInv, SequenceNoIsOwn, PublishSucceeds
<1>2. ASSUME NEW p \in Instances,
             \/ Initialize(p) \/ Shutdown(p)
             \/ \E name \in pending[p] : SyncTimeout(p, name)
             \/ \E q \in Instances : \E name \in pending[q] : ReceiveInterest(p, q, name)
             \/ \E digest \in timers[p] : JudgeRecovery(p, digest)
      PROVE  NumbersInv'
  BY <1>1, <1>2 DEF Initialize, Shutdown, SyncTimeout, ReceiveInterest, JudgeRecovery
<1> QED BY <1>1, <1>2, InitialTimeOutNumbers, PublishNumbers, ReceiveDataNumbers DEF Next, vars

LEMMA NumbersAreKept == SingleSession => (Spec => []NumbersInv)
<1> SUFFICES ASSUME SingleSession PROVE Spec => []NumbersInv
  OBVIOUS
<1>1. Init => NumbersInv
  BY DEF Init, NumbersInv, OwnNumbersInv, SequenceNoIsOwn, PublishSucceeds
<1>2. SyncInv /\ NumbersInv /\ [Next]_vars => NumbersInv'
  BY StepKeepsNumbers
<1> QED BY <1>1, <1>2, SyncIsKept, PTL DEF Spec

(* What getSequenceNo gives after onInitialized is the number the tree has *)
(* of the instance, if all instances of its prefix are of one session:     *)
(* initialOndata follows an earlier run and update takes a number that     *)
(* another instance of the prefix has published (chrono-sync2013.cpp).     *)
THEOREM NumberStaysOwn == SingleSession => (Spec => []SequenceNoIsOwn)
<1>1. NumbersInv => SequenceNoIsOwn
  BY DEF NumbersInv
<1> QED BY <1>1, NumbersAreKept, PTL

(* publishNextSequenceNo never throws "update did not create a new digest  *)
(* log entry" (chrono-sync2013.cpp, line 157) then, also not when the      *)
(* application publishes before onInitialized: the number it takes is      *)
(* above all that the tree has of the instance.                            *)
THEOREM PublishesSucceed == SingleSession => (Spec => []PublishSucceeds)
<1>1. NumbersInv => PublishSucceeds
  BY DEF NumbersInv
<1> QED BY <1>1, NumbersAreKept, PTL

-----------------------------------------------------------------------------
(* The beginning of an instance.                                           *)

LEMMA InitialTimeOutBegins ==
  ASSUME SyncInv, BegunInv, NEW p \in Instances, InitialTimeOut(p)
  PROVE  tree'[p] # {} /\ initialized'[p] = 1 /\ SyncName({}) \notin pending'[p]
<1> DEFINE s == Increment(Current(p))
           content == {State(p, s.sequenceNo)}
           u == Update(p, s, content)
           rest == pending[p] \ {SyncName({})}
<1>1. IsGood(s) /\ s.sequenceNo = sequenceNo[p] + 1 /\ s.sequenceNo \in Nat
  BY CurrentIsGood, IncrementIsGood
<1>2. tree[p] = {}
  BY DEF InitialTimeOut, BegunInv
<1>3. s.sequenceNo = PreviousOf[p] + 1 /\ initialized[p] = 0
  BY <1>1, <1>2, InstanceTypes
<1>4. Become(p, u) /\ initialized' = [initialized EXCEPT ![p] = @ + 1] /\ Asks(p, rest)
  BY <1>3 DEF InitialTimeOut
<1>5. content \subseteq States /\ IsMessage(content) /\ content # {}
  BY <1>1, StateTypes
<1> HIDE DEF s, content
<1>6. u.tree # {}
  BY <1>1, <1>5, UpdateIsNotEmpty
<1> HIDE DEF u
<1>7. tree'[p] = u.tree /\ initialized'[p] = 1
  BY <1>3, <1>4 DEF Become, SyncInv, TypeOK
<1>8. pending'[p] = rest \cup {SyncName(tree'[p])}
  BY <1>4 DEF Asks, SyncInv, TypeOK
<1> QED BY <1>6, <1>7, <1>8 DEF SyncName

LEMMA PublishKeepsBegun ==
  ASSUME SyncInv, BegunInv, ~PublishEarly, NEW p \in Instances, Publish(p)
  PROVE  tree'[p] # {} /\ initialized'[p] = 1 /\ SyncName({}) \notin pending'[p]
<1> DEFINE s == Increment(Current(p))
           content == {State(p, s.sequenceNo)}
           u == Update(p, s, content)
<1>1. IsGood(s) /\ s.sequenceNo \in Nat
  BY CurrentIsGood, IncrementIsGood
<1>2. tree[p] # {} /\ initialized[p] = 1 /\ SyncName({}) \notin pending[p]
  BY InstanceTypes DEF Publish, BegunInv
<1>3. /\ Become(p, u) /\ UNCHANGED initialized
      /\ pending' = pending \/ Asks(p, pending[p])
  BY DEF Publish
<1>4. content \subseteq States /\ IsMessage(content) /\ content # {}
  BY <1>1, StateTypes
<1> HIDE DEF s, content
<1>5. u.tree # {}
  BY <1>1, <1>4, UpdateIsNotEmpty
<1> HIDE DEF u
<1>6. tree'[p] # {}
  BY <1>3, <1>5 DEF Become, SyncInv, TypeOK
<1>7. pending'[p] = pending[p] \/ pending'[p] = pending[p] \cup {SyncName(tree'[p])}
  BY <1>3 DEF Asks, SyncInv, TypeOK
<1> QED BY <1>2, <1>3, <1>6, <1>7 DEF SyncName

LEMMA OnDataKeepsBegun ==
  ASSUME SyncInv, BegunInv, NEW p \in Instances, NEW data \in network, ReceiveData(p, data),
         tree[p] # {}
  PROVE  tree'[p] # {} /\ initialized'[p] = 1 /\ SyncName({}) \notin pending'[p]
<1> DEFINE s == Current(p)
           content == data.content
           u == Update(p, s, content)
<1>1. IsGood(s) /\ s.tree = tree[p]
  BY CurrentIsGood
<1>2. initialized[p] = 1 /\ SyncName({}) \notin pending[p]
  BY DEF ReceiveData, BegunInv
<1>3. Become(p, u) /\ UNCHANGED initialized /\ Asks(p, pending[p] \ {data.name})
  BY DEF ReceiveData, OnData
<1>4. content \subseteq States /\ IsMessage(content)
  BY DEF SyncInv, TypeOK, MessagesInv
<1> HIDE DEF s, content
<1>5. u.tree # {}
  BY <1>1, <1>4, UpdateIsNotEmpty
<1> HIDE DEF u
<1>6. tree'[p] # {}
  BY <1>3, <1>5 DEF Become, SyncInv, TypeOK
<1>7. pending'[p] = (pending[p] \ {data.name}) \cup {SyncName(tree'[p])}
  BY <1>3 DEF Asks, SyncInv, TypeOK
<1> QED BY <1>2, <1>3, <1>6, <1>7 DEF SyncName

LEMMA StepKeepsBegun ==
  ASSUME ~PublishEarly, SyncInv, BegunInv, [Next]_vars PROVE BegunInv'
<1>1. ASSUME NEW p \in Instances, InitialTimeOut(p) \/ Publish(p)
                                    \/ \E data \in network : ReceiveData(p, data)
      PROVE  BegunInv'
  <2>1. tree'[p] # {} /\ initialized'[p] = 1 /\ SyncName({}) \notin pending'[p]
    <3>1. ASSUME NEW data \in network, ReceiveData(p, data), tree[p] = {}
          PROVE  tree'[p] # {} /\ initialized'[p] = 1 /\ SyncName({}) \notin pending'[p]
      BY <3>1, InitialOnDataKeeps DEF SyncName
    <3> QED BY <1>1, <3>1, InitialTimeOutBegins, PublishKeepsBegun, OnDataKeepsBegun
  <2>2. \A q \in Instances \ {p} :
          /\ tree'[q] = tree[q] /\ initialized'[q] = initialized[q]
          /\ pending'[q] = pending[q] /\ status'[q] = status[q]
    <3>1. UNCHANGED status
      BY <1>1 DEF InitialTimeOut, Publish, ReceiveData
    <3>2. \E P : pending' = [pending EXCEPT ![p] = P]
      BY <1>1, InstanceTypes DEF InitialTimeOut, Publish, ReceiveData, Asks
    <3>3. \E i : initialized' = [initialized EXCEPT ![p] = i]
      <4>1. CASE InitialTimeOut(p) \/ Publish(p)
        BY <4>1, InstanceTypes DEF InitialTimeOut, Publish
      <4>2. ASSUME NEW data \in network, ReceiveData(p, data), tree[p] # {}
            PROVE  initialized' = [initialized EXCEPT ![p] = initialized[p]]
        BY <4>2, InstanceTypes DEF ReceiveData, OnData
      <4> QED BY <1>1, <4>1, <4>2, InitialOnDataKeeps
    <3>4. \E s : Become(p, s)
      BY <1>1 DEF InitialTimeOut, Publish, ReceiveData, InitialOnData, OnData
    <3> QED BY <3>1, <3>2, <3>3, <3>4 DEF Become, SyncInv, TypeOK
  <2> QED BY <2>1, <2>2 DEF BegunInv
<1>2. ASSUME NEW p \in Instances, Initialize(p) PROVE BegunInv'
  <2>1. tree[p] = {} /\ initialized[p] = 0
    BY <1>2, InstanceTypes DEF Initialize, SyncInv, StartInv
  <2> QED BY <1>2, <2>1 DEF Initialize, BegunInv, SyncInv, TypeOK
<1>3. ASSUME NEW p \in Instances, Shutdown(p) PROVE BegunInv'
  BY <1>3 DEF Shutdown, BegunInv, SyncInv, TypeOK
<1>4. ASSUME NEW p \in Instances, NEW name \in pending[p], SyncTimeout(p, name) PROVE BegunInv'
  BY <1>4 DEF SyncTimeout, BegunInv, SyncInv, TypeOK
<1>5. ASSUME NEW q \in Instances, NEW p \in Instances, NEW name \in pending[p],
             ReceiveInterest(q, p, name)
      PROVE  BegunInv'
  BY <1>5 DEF ReceiveInterest, BegunInv
<1>6. ASSUME NEW q \in Instances, NEW digest \in timers[q], JudgeRecovery(q, digest)
      PROVE  BegunInv'
  <2>1. UNCHANGED <<status, tree, initialized>>
        /\ (pending' = pending \/ pending' = [pending EXCEPT ![q] = @ \cup {RecoveryName(digest)}])
    BY <1>6 DEF JudgeRecovery
  <2>2. \A p \in Instances : SyncName({}) \in pending'[p] => SyncName({}) \in pending[p]
    <3>1. SyncName({}) # RecoveryName(digest)
      BY DEF SyncName, RecoveryName
    <3>2. pending \in [Instances -> SUBSET Names]
      BY DEF SyncInv, TypeOK
    <3> QED BY <2>1, <3>1, <3>2
  <2> QED BY <2>1, <2>2 DEF BegunInv
<1>7. ASSUME UNCHANGED vars PROVE BegunInv'
  BY <1>7 DEF vars, BegunInv
<1> QED BY <1>1, <1>2, <1>3, <1>4, <1>5, <1>6, <1>7 DEF Next

(* onInitialized is called once, by the first Data or by the timeout of    *)
(* the initial Interest, if the application does not publish before:       *)
(* initialOndata calls it for its own number or for the earlier run it     *)
(* follows, never for both (chrono-sync2013.cpp).                          *)
THEOREM InitializesOnce == ~PublishEarly => (Spec => []InitializedOnce)
<1> SUFFICES ASSUME ~PublishEarly PROVE Spec => []InitializedOnce
  OBVIOUS
<1>1. Init => BegunInv
  BY DEF Init, BegunInv
<1>2. SyncInv /\ BegunInv /\ [Next]_vars => BegunInv'
  BY StepKeepsBegun
<1>3. SyncInv /\ BegunInv => InitializedOnce
  BY DEF SyncInv, StartInv, BegunInv, InitializedOnce
<1> QED BY <1>1, <1>2, <1>3, SyncIsKept, PTL DEF Spec
=============================================================================
