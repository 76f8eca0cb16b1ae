------------------------- MODULE FlowRegistryProofs -------------------------
(* Proofs about FlowRegistry for every set of keys and every limit. *)
EXTENDS FlowRegistry, SequenceTheorems, FiniteSetTheorems, WellFoundedInduction, TLAPS

\* A key that was never retired and is not registered has never been seen.
Unseen ==
  \A k \in Key : (k \notin retired /\ k \notin DOMAIN current) =>
    /\ Past(k) = {}
    /\ \A f \in fenced : f[1] # k

\* The snapshot lies above every fence it was taken after.
SavedAboveFences ==
  \A f \in covered.fenced :
    f[1] \notin covered.retired => f[1] \in DOMAIN saved /\ f[2] < saved[f[1]]

\* The inductive invariant.  Unseen is what FencedStaysFenced lacks: without it a
\* generation could be registered below a fence of the same key.  SavedAboveFences
\* is what a restart lacks.
IInv == TypeOK /\ FencedStaysFenced /\ HistoryBelowCurrent /\ Unseen /\ SavedAboveFences

-----------------------------------------------------------------------------
(* The history and "next". *)

\* A non-empty set of naturals with an upper bound has a largest element.
LEMMA LargestExists ==
  ASSUME NEW S, S \subseteq Nat, S # {}, NEW b \in Nat, \A x \in S : x <= b
  PROVE  \E n \in S : \A m \in S : m <= n
<1> DEFINE T == {b - x : x \in S}
<1>1. T \subseteq Nat /\ T # {}
  <2>1. \A x \in S : b - x \in Nat
    OBVIOUS
  <2> QED
    BY <2>1, Zenon
<1>2. PICK y \in T : \A z \in T : ~ (<<z, y>> \in OpToRel(<, Nat))
  BY <1>1, WFMin, NatLessThanWellFounded, Zenon
<1>3. \A z \in T : ~ (z < y)
  BY <1>1, <1>2, Zenon DEF OpToRel
<1>4. PICK n \in S : y = b - n
  OBVIOUS
<1>5. ASSUME NEW m \in S PROVE m <= n
  <2>1. b - m \in T /\ n \in Nat /\ m \in Nat
    OBVIOUS
  <2>2. ~ (b - m < b - n)
    BY <1>3, <1>4, <2>1
  <2> QED
    BY <2>1, <2>2
<1> QED
  BY <1>5

\* highest_known is the largest generation the registry holds for the key.
LEMMA HighestKnownFacts ==
  ASSUME TypeOK, NEW k \in Key
  PROVE  HighestKnown(k) \in Nat /\ \A m \in Known(k) : m <= HighestKnown(k)
<1>1. Past(k) \subseteq Generation
  BY LenProperties, ElementOfSeq DEF TypeOK, IsMap, Past
<1>2. Known(k) \subseteq Nat /\ Known(k) # {} /\ \A x \in Known(k) : x <= MaxGeneration
  BY <1>1, FlowBoundsAssumption DEF Known, TypeOK, IsMap, Generation
<1>3. \E n \in Known(k) : \A m \in Known(k) : m <= n
  BY <1>2, LargestExists, FlowBoundsAssumption
<1> QED
  BY <1>2, <1>3 DEF HighestKnown

\* An accepted request stands for a generation of the registry.
LEMMA ResolvedFacts ==
  ASSUME TypeOK, NEW k \in Key, NEW r \in 0 .. MaxGeneration, Acceptable(k, r)
  PROVE  Resolved(k, r) \in Generation
BY HighestKnownFacts, FlowBoundsAssumption DEF Resolved, Acceptable, Generation

\* Pushing adds one entry at most, for one key, and respects the bound.
LEMMA PushedFacts ==
  ASSUME TypeOK, NEW k \in Key, NEW g \in Generation, history' = Pushed(k, g)
  PROVE  /\ IsMap(history', Key, Seq(Generation))
         /\ \A x \in Key : Past(x)' \subseteq Past(x) \cup (IF x = k THEN {g} ELSE {})
         /\ \A x \in DOMAIN history' :
              IF x = k
              THEN /\ Len(history'[x]) \in Nat \ {0}
                   /\ (k \in DOMAIN history => Len(history[k]) <= MaxHistory)
                        => Len(history'[x]) <= MaxHistory
              ELSE x \in DOMAIN history /\ history'[x] = history[x]
<1> DEFINE h == IF k \in DOMAIN history THEN Append(history[k], g) ELSE <<g>>
           q == IF Len(h) > MaxHistory THEN Tail(h) ELSE h
<1>1. history' = Put(history, k, q)
  BY DEF Pushed
<1>2. k \in DOMAIN history => history[k] \in Seq(Generation)
  BY DEF TypeOK, IsMap
<1>3. /\ h \in Seq(Generation) /\ h # <<>> /\ Len(h) \in Nat /\ Len(h) >= 1
      /\ \A i \in 1 .. Len(h) : h[i] \in Past(k) \cup {g}
  <2>1. CASE k \in DOMAIN history
    BY <1>2, <2>1, AppendProperties, LenProperties DEF Past
  <2>2. CASE k \notin DOMAIN history
    BY <2>2
  <2> QED
    BY <2>1, <2>2
<1>4. (k \in DOMAIN history => Len(history[k]) <= MaxHistory) => Len(h) <= MaxHistory + 1
  <2>1. CASE k \in DOMAIN history
    <3>1. Len(h) = Len(history[k]) + 1 /\ Len(history[k]) \in Nat
      BY <1>2, <2>1, AppendProperties, LenProperties
    <3> QED
      BY <2>1, <3>1, FlowLimitAssumption
  <2>2. CASE k \notin DOMAIN history
    <3>1. Len(h) = 1
      BY <2>2
    <3> QED
      BY <3>1, FlowLimitAssumption
  <2> QED
    BY <2>1, <2>2
<1> HIDE DEF h
<1>5. /\ q \in Seq(Generation) /\ DOMAIN q = 1 .. Len(q) /\ Len(q) \in Nat /\ Len(q) >= 1
      /\ \A i \in 1 .. Len(q) : q[i] \in Past(k) \cup {g}
      /\ (k \in DOMAIN history => Len(history[k]) <= MaxHistory) => Len(q) <= MaxHistory
  <2>1. CASE Len(h) > MaxHistory
    <3>1. /\ q = Tail(h) /\ q \in Seq(Generation) /\ Len(q) = Len(h) - 1
          /\ \A i \in 1 .. Len(q) : q[i] = h[i + 1]
      BY <1>3, <2>1, HeadTailProperties
    <3> HIDE DEF q
    <3>2. DOMAIN q = 1 .. Len(q) /\ Len(q) \in Nat /\ Len(q) >= 1
      <4>1. Len(h) > 1
        BY <1>3, <2>1, FlowLimitAssumption
      <4> QED
        BY <1>3, <3>1, <4>1, LenProperties
    <3>3. ASSUME NEW i \in 1 .. Len(q) PROVE q[i] \in Past(k) \cup {g}
      <4>1. i + 1 \in 1 .. Len(h)
        BY <1>3, <3>1, <3>2
      <4> QED
        BY <1>3, <3>1, <4>1
    <3>4. (k \in DOMAIN history => Len(history[k]) <= MaxHistory) => Len(q) <= MaxHistory
      BY <1>3, <1>4, <3>1, FlowLimitAssumption
    <3> QED
      BY <3>1, <3>2, <3>3, <3>4
  <2>2. CASE ~ (Len(h) > MaxHistory)
    <3>1. q = h
      BY <2>2
    <3> HIDE DEF q
    <3>2. DOMAIN q = 1 .. Len(q)
      BY <1>3, <3>1, LenProperties
    <3>3. Len(q) <= MaxHistory
      BY <1>3, <2>2, <3>1, FlowLimitAssumption
    <3> QED
      BY <1>3, <3>1, <3>2, <3>3
  <2> QED
    BY <2>1, <2>2
<1> HIDE DEF q
<1>6. /\ DOMAIN history' = DOMAIN history \cup {k} /\ history'[k] = q
      /\ \A x \in DOMAIN history : x # k => history'[x] = history[x]
  BY <1>1 DEF Put
<1>7. IsMap(history', Key, Seq(Generation))
  BY <1>1, <1>5 DEF Put, TypeOK, IsMap
<1>8. \A x \in Key : Past(x)' \subseteq Past(x) \cup (IF x = k THEN {g} ELSE {})
  BY <1>5, <1>6 DEF Past
<1> QED
  BY <1>5, <1>6, <1>7, <1>8

-----------------------------------------------------------------------------
(* One lemma per operation: it preserves the invariant. *)

\* The values the tables hold are naturals.
LEMMA TableFacts ==
  ASSUME TypeOK
  PROVE  /\ \A k \in DOMAIN current : current[k] \in Generation /\ current[k] \in Nat /\ k \in Key
         /\ \A k \in Key : Past(k) \subseteq Nat
         /\ \A f \in fenced : f[1] \in Key /\ f[2] \in Nat
         /\ Generation \subseteq Nat
<1>1. Generation \subseteq Nat
  BY FlowBoundsAssumption DEF Generation
<1>2. \A k \in Key : Past(k) \subseteq Generation
  BY LenProperties, ElementOfSeq DEF TypeOK, IsMap, Past
<1> QED
  BY <1>1, <1>2 DEF TypeOK, IsMap

LEMMA RegisterAdvanceIInv ==
  ASSUME IInv, NEW k \in Key, NEW r \in 0 .. MaxGeneration, RegisterAdvance(k, r)
  PROVE  IInv'
<1> DEFINE g == Resolved(k, r)
<1>1. /\ k \in DOMAIN current /\ g > current[k] /\ history' = Pushed(k, current[k])
      /\ current' = [current EXCEPT ![k] = g] /\ fenced' = fenced \cup {<<k, current[k]>>}
      /\ saved' = saved /\ retired' = retired /\ covered' = covered /\ Acceptable(k, r)
  BY DEF RegisterAdvance
<1>2. g \in Generation /\ TypeOK
  BY <1>1, ResolvedFacts DEF IInv
<1> HIDE DEF g
<1>3. current[k] \in Generation
  BY <1>1, <1>2, TableFacts
<1>4. /\ IsMap(history', Key, Seq(Generation))
      /\ \A x \in Key : Past(x)' \subseteq Past(x) \cup (IF x = k THEN {current[k]} ELSE {})
  BY <1>1, <1>2, <1>3, PushedFacts
<1>5. /\ DOMAIN current' = DOMAIN current /\ current'[k] = g
      /\ \A x \in DOMAIN current : x # k => current'[x] = current[x]
  BY <1>1
<1>6. TypeOK'
  BY <1>1, <1>2, <1>3, <1>4 DEF TypeOK, IsMap
<1>7. FencedStaysFenced'
  <2> SUFFICES ASSUME NEW f \in fenced', f[1] \notin retired, f[1] \in DOMAIN current
               PROVE  f[2] < current'[f[1]]
    BY <1>1, <1>5 DEF FencedStaysFenced
  <2>1. f[2] <= current[f[1]] /\ f[2] \in Nat /\ current[f[1]] \in Nat
    BY <1>1, <1>2, TableFacts DEF IInv, FencedStaysFenced
  <2>2. f \in fenced => f[2] < current[f[1]]
    BY DEF IInv, FencedStaysFenced
  <2>3. g \in Nat
    BY <1>2, TableFacts
  <2>4. CASE f[1] = k
    BY <1>1, <1>5, <2>1, <2>3, <2>4
  <2>5. CASE f[1] # k
    BY <1>1, <1>5, <2>2, <2>5
  <2> QED
    BY <2>4, <2>5
<1>8. HistoryBelowCurrent'
  <2> SUFFICES ASSUME NEW x \in DOMAIN current, x \notin retired, NEW h \in Past(x)'
               PROVE  h < current'[x]
    BY <1>1, <1>5 DEF HistoryBelowCurrent
  <2>1. x \in Key /\ current[x] \in Nat /\ g \in Nat /\ Past(x) \subseteq Nat
    BY <1>2, TableFacts
  <2>2. \A m \in Past(x) : m < current[x]
    BY DEF IInv, HistoryBelowCurrent
  <2>3. CASE x = k
    <3>1. h \in Nat /\ h <= current[k]
      BY <1>4, <2>1, <2>2, <2>3
    <3> QED
      BY <1>1, <1>5, <2>1, <2>3, <3>1
  <2>4. CASE x # k
    BY <1>4, <1>5, <2>1, <2>2, <2>4
  <2> QED
    BY <2>3, <2>4
<1>9. Unseen'
  <2> SUFFICES ASSUME NEW x \in Key, x \notin retired, x \notin DOMAIN current
               PROVE  Past(x)' = {} /\ \A f \in fenced' : f[1] # x
    BY <1>1, <1>5 DEF Unseen
  <2> QED
    BY <1>1, <1>4 DEF IInv, Unseen
<1>10. SavedAboveFences'
  BY <1>1 DEF IInv, SavedAboveFences
<1> QED
  BY <1>6, <1>7, <1>8, <1>9, <1>10 DEF IInv

LEMMA RegisterNewIInv ==
  ASSUME IInv, NEW k \in Key, NEW r \in 0 .. MaxGeneration, RegisterNew(k, r)
  PROVE  IInv'
<1> DEFINE g == Resolved(k, r)
<1>1. /\ k \notin DOMAIN current /\ history' = history /\ current' = Put(current, k, g)
      /\ fenced' = fenced /\ saved' = saved /\ retired' = retired /\ covered' = covered
      /\ Acceptable(k, r)
  BY DEF RegisterNew
<1>2. g \in Generation /\ TypeOK
  BY <1>1, ResolvedFacts DEF IInv
<1> HIDE DEF g
<1>3. /\ DOMAIN current' = DOMAIN current \cup {k}
      /\ \A x \in DOMAIN current : current'[x] = current[x]
  BY <1>1 DEF Put
<1>4. TypeOK'
  BY <1>1, <1>2 DEF TypeOK, IsMap, Put
<1>5. \A x \in Key : Past(x)' = Past(x)
  BY <1>1 DEF Past
<1>6. k \notin retired => Past(k) = {} /\ \A f \in fenced : f[1] # k
  BY <1>1 DEF IInv, Unseen
<1>7. FencedStaysFenced'
  BY <1>1, <1>3, <1>6 DEF IInv, FencedStaysFenced
<1>8. HistoryBelowCurrent'
  BY <1>1, <1>2, <1>3, <1>5, <1>6, TableFacts DEF IInv, HistoryBelowCurrent
<1>9. Unseen'
  BY <1>1, <1>3, <1>5 DEF IInv, Unseen
<1>10. SavedAboveFences'
  BY <1>1 DEF IInv, SavedAboveFences
<1> QED
  BY <1>4, <1>7, <1>8, <1>9, <1>10 DEF IInv

LEMMA RetireFlowIInv ==
  ASSUME IInv, NEW k \in Key, RetireFlow(k)
  PROVE  IInv'
<1>1. /\ k \in DOMAIN current /\ history' = Pushed(k, current[k])
      /\ current' = Drop(current, {k}) /\ retired' = retired \cup {k}
      /\ fenced' = fenced /\ saved' = saved /\ covered' = covered
  BY DEF RetireFlow
<1>2. TypeOK /\ current[k] \in Generation
  BY <1>1, TableFacts DEF IInv
<1>3. /\ IsMap(history', Key, Seq(Generation))
      /\ \A x \in Key : Past(x)' \subseteq Past(x) \cup (IF x = k THEN {current[k]} ELSE {})
  BY <1>1, <1>2, PushedFacts
<1>4. /\ DOMAIN current' = DOMAIN current \ {k}
      /\ \A x \in DOMAIN current' : current'[x] = current[x]
  BY <1>1 DEF Drop
<1>5. TypeOK'
  BY <1>1, <1>2, <1>3 DEF TypeOK, IsMap, Drop
<1>6. FencedStaysFenced'
  BY <1>1, <1>4 DEF IInv, FencedStaysFenced
<1>7. HistoryBelowCurrent'
  BY <1>1, <1>2, <1>3, <1>4, TableFacts, Zenon DEF IInv, HistoryBelowCurrent
<1>8. Unseen'
  BY <1>1, <1>3, <1>4 DEF IInv, Unseen
<1>9. SavedAboveFences'
  BY <1>1 DEF IInv, SavedAboveFences
<1> QED
  BY <1>5, <1>6, <1>7, <1>8, <1>9 DEF IInv

\* restore_flow() for a record older than the current incarnation.
LEMMA RestoreOlderIInv ==
  ASSUME IInv, NEW k \in DOMAIN current, NEW g \in Generation, current[k] > g,
         history' = Pushed(k, g), fenced' = fenced \cup {<<k, g>>},
         current' = current, saved' = saved, retired' = retired, covered' = covered
  PROVE  IInv'
<1>1. TypeOK /\ k \in Key /\ g \in Nat
  BY TableFacts DEF IInv
<1>2. /\ IsMap(history', Key, Seq(Generation))
      /\ \A x \in Key : Past(x)' \subseteq Past(x) \cup (IF x = k THEN {g} ELSE {})
  BY <1>1, PushedFacts
<1>3. TypeOK'
  BY <1>1, <1>2 DEF TypeOK
<1>4. g < current[k] /\ \A x \in DOMAIN current : x \in Key
  BY <1>1, TableFacts
<1>5. FencedStaysFenced'
  BY <1>4 DEF IInv, FencedStaysFenced
<1>6. HistoryBelowCurrent'
  BY <1>2, <1>4 DEF IInv, HistoryBelowCurrent
<1>7. Unseen'
  BY <1>2 DEF IInv, Unseen
<1>8. SavedAboveFences'
  BY DEF IInv, SavedAboveFences
<1> QED
  BY <1>3, <1>5, <1>6, <1>7, <1>8 DEF IInv

\* restore_flow() for any other record.
LEMMA RestoreCurrentIInv ==
  ASSUME IInv, NEW k \in Key, NEW g \in Generation, k \in DOMAIN current => current[k] <= g,
         current' = Put(current, k, g), history' = history,
         fenced' = IF k \in DOMAIN current /\ current[k] # g
                   THEN fenced \cup {<<k, current[k]>>} ELSE fenced,
         saved' = saved, retired' = retired, covered' = covered
  PROVE  IInv'
<1>1. TypeOK /\ g \in Nat /\ \A x \in DOMAIN current : current[x] \in Nat /\ x \in Key
  BY TableFacts DEF IInv
<1>2. /\ DOMAIN current' = DOMAIN current \cup {k} /\ current'[k] = g
      /\ \A x \in DOMAIN current : x # k => current'[x] = current[x]
  BY DEF Put
<1>3. k \in DOMAIN current => current[k] \in Generation
  BY <1>1, TableFacts
<1>4. TypeOK'
  <2>1. fenced' \subseteq Key \X Generation
    BY <1>1, <1>3 DEF TypeOK
  <2> QED
    BY <1>1, <2>1 DEF TypeOK, IsMap, Put
<1>5. \A x \in Key : Past(x)' = Past(x) /\ Past(x) \subseteq Nat
  BY <1>1, TableFacts DEF Past
<1>6. k \notin retired /\ k \notin DOMAIN current => Past(k) = {} /\ \A f \in fenced : f[1] # k
  BY DEF IInv, Unseen
<1>7. FencedStaysFenced'
  <2> SUFFICES ASSUME NEW f \in fenced', f[1] \notin retired, f[1] \in DOMAIN current'
               PROVE  f[2] < current'[f[1]]
    BY DEF FencedStaysFenced
  <2>1. CASE f \notin fenced
    <3>1. f[1] = k /\ f[2] = current[k] /\ k \in DOMAIN current /\ current[k] # g
      BY <2>1
    <3> QED
      BY <1>1, <1>2, <3>1
  <2>2. CASE f \in fenced /\ f[1] # k
    BY <1>2, <2>2 DEF IInv, FencedStaysFenced
  <2>3. CASE f \in fenced /\ f[1] = k
    <3>1. k \in DOMAIN current /\ f[2] < current[k] /\ f[2] \in Nat
      BY <1>1, <1>6, <2>3, TableFacts DEF IInv, FencedStaysFenced
    <3> QED
      BY <1>1, <1>2, <2>3, <3>1
  <2> QED
    BY <2>1, <2>2, <2>3
<1>8. HistoryBelowCurrent'
  <2> SUFFICES ASSUME NEW x \in DOMAIN current', x \notin retired, NEW h \in Past(x)'
               PROVE  h < current'[x]
    BY DEF HistoryBelowCurrent
  <2>1. x \in Key /\ h \in Past(x) /\ h \in Nat
    BY <1>1, <1>2, <1>5
  <2>2. x \in DOMAIN current => h < current[x]
    BY <2>1 DEF IInv, HistoryBelowCurrent
  <2> QED
    BY <1>1, <1>2, <1>6, <2>1, <2>2
<1>9. Unseen'
  BY <1>2, <1>5 DEF IInv, Unseen
<1>10. SavedAboveFences'
  BY DEF IInv, SavedAboveFences
<1> QED
  BY <1>4, <1>7, <1>8, <1>9, <1>10 DEF IInv

LEMMA InitIInv == Init => IInv
BY DEF Init, IInv, TypeOK, FencedStaysFenced, HistoryBelowCurrent, Unseen, SavedAboveFences, Past,
       IsMap, EmptyMap

LEMMA NextIInv == IInv /\ [Next]_vars => IInv'
<1> SUFFICES ASSUME IInv, [Next]_vars PROVE IInv'
  OBVIOUS
<1>1. CASE UNCHANGED vars
  BY <1>1 DEF vars, IInv, TypeOK, FencedStaysFenced, HistoryBelowCurrent, Unseen,
              SavedAboveFences, Past
<1>2. ASSUME NEW k \in Key, NEW r \in 0 .. MaxGeneration,
             RegisterAdvance(k, r) \/ RegisterNew(k, r)
      PROVE  IInv'
  BY <1>2, RegisterAdvanceIInv, RegisterNewIInv
<1>3. ASSUME NEW k \in Key, RetireFlow(k) PROVE IInv'
  BY <1>3, RetireFlowIInv
<1>4. ASSUME NEW k \in Key, k \in DOMAIN saved, RestoreFlow(k, saved[k]) PROVE IInv'
  <2> DEFINE g == saved[k]
  <2>1. g \in Generation /\ g \in Nat /\ (k \in DOMAIN current => current[k] \in Nat)
    BY <1>4, TableFacts DEF IInv, TypeOK, IsMap
  <2>2. CASE k \in DOMAIN current /\ current[k] > g
    BY <1>4, <2>1, <2>2, RestoreOlderIInv DEF RestoreFlow
  <2>3. CASE ~ (k \in DOMAIN current /\ current[k] > g)
    BY <1>4, <2>1, <2>3, RestoreCurrentIInv DEF RestoreFlow
  <2> QED
    BY <2>2, <2>3
<1>5. CASE SnapshotFlows
  <2>1. /\ current' = current /\ history' = history /\ fenced' = fenced /\ retired' = retired
        /\ saved' = current /\ covered' = [fenced |-> fenced, retired |-> retired]
    BY <1>5 DEF SnapshotFlows
  <2>2. TypeOK'
    BY <2>1 DEF IInv, TypeOK
  <2>3. SavedAboveFences'
    <3> SUFFICES ASSUME NEW f \in fenced, f[1] \notin retired
                 PROVE  f[1] \in DOMAIN current /\ f[2] < current[f[1]]
      BY <2>1 DEF SavedAboveFences
    <3>1. f[1] \in Key
      BY TableFacts DEF IInv
    <3> QED
      BY <3>1 DEF IInv, FencedStaysFenced, Unseen
  <2> QED
    BY <2>1, <2>2, <2>3 DEF IInv, FencedStaysFenced, HistoryBelowCurrent, Unseen, Past
<1>6. CASE Restart
  <2>1. /\ current' = saved /\ history' = EmptyMap /\ fenced' = covered.fenced
        /\ retired' = covered.retired /\ saved' = saved /\ covered' = covered
    BY <1>6 DEF Restart
  <2>2. TypeOK'
    BY <2>1 DEF IInv, TypeOK, IsMap, EmptyMap
  <2>3. \A k \in Key : Past(k)' = {}
    BY <2>1 DEF Past, EmptyMap
  <2>4. FencedStaysFenced' /\ SavedAboveFences'
    BY <2>1 DEF IInv, FencedStaysFenced, SavedAboveFences
  <2>5. HistoryBelowCurrent'
    BY <2>2, <2>3 DEF HistoryBelowCurrent, TypeOK, IsMap
  <2>6. Unseen'
    BY <2>1, <2>3 DEF IInv, SavedAboveFences, Unseen
  <2> QED
    BY <2>2, <2>4, <2>5, <2>6 DEF IInv
<1> QED
  BY <1>1, <1>2, <1>3, <1>4, <1>5, <1>6 DEF Next, RegisterRepeat

-----------------------------------------------------------------------------
(* The limits. *)

\* What the registry held within its limits, the snapshot does.
LInv == /\ IInv /\ LimitsHold
        /\ IsFiniteSet(DOMAIN current)
        /\ IsFiniteSet(DOMAIN saved) /\ Cardinality(DOMAIN saved) <= MaxFlows

\* The registry grows by one key at most, and only below the limit.
LEMMA NextLInv == LInv /\ [Next]_vars => LInv'
<1> SUFFICES ASSUME LInv, [Next]_vars PROVE LInv'
  OBVIOUS
<1>1. IInv' /\ IInv /\ TypeOK
  BY NextIInv DEF LInv, IInv
<1>2. /\ Cardinality(DOMAIN current) \in Nat /\ Cardinality(DOMAIN current) <= MaxFlows
      /\ IsFiniteSet(DOMAIN current)
  BY FS_CardinalityType DEF LInv, LimitsHold
<1>3. IsFiniteSet(DOMAIN current') /\ Cardinality(DOMAIN current') <= MaxFlows
  <2>1. ASSUME NEW k, DOMAIN current' = DOMAIN current \cup {k},
               k \in DOMAIN current \/ Cardinality(DOMAIN current) < MaxFlows
        PROVE  IsFiniteSet(DOMAIN current') /\ Cardinality(DOMAIN current') <= MaxFlows
    BY <1>2, <2>1, FS_AddElement, FlowLimitAssumption
  <2>2. ASSUME NEW k, DOMAIN current' = DOMAIN current \ {k}
        PROVE  IsFiniteSet(DOMAIN current') /\ Cardinality(DOMAIN current') <= MaxFlows
    BY <1>2, <2>2, FS_RemoveElement, FlowLimitAssumption
  <2>3. ASSUME NEW k \in Key, NEW r \in 0 .. MaxGeneration, RegisterNew(k, r)
        PROVE  IsFiniteSet(DOMAIN current') /\ Cardinality(DOMAIN current') <= MaxFlows
    BY <2>1, <2>3 DEF RegisterNew, Put
  <2>4. ASSUME NEW k \in Key, RetireFlow(k)
        PROVE  IsFiniteSet(DOMAIN current') /\ Cardinality(DOMAIN current') <= MaxFlows
    BY <2>2, <2>4 DEF RetireFlow, Drop
  <2>5. ASSUME NEW k \in Key, RestoreFlow(k, saved[k])
        PROVE  IsFiniteSet(DOMAIN current') /\ Cardinality(DOMAIN current') <= MaxFlows
    BY <1>2, <2>1, <2>5 DEF RestoreFlow, Put
  <2>6. CASE Restart
    BY <2>6 DEF Restart, LInv
  <2>7. CASE DOMAIN current' = DOMAIN current
    BY <1>2, <2>7
  <2> QED
    BY <2>3, <2>4, <2>5, <2>6, <2>7 DEF Next, vars, RegisterRepeat, RegisterAdvance, SnapshotFlows
<1>4. ASSUME NEW x \in DOMAIN history' PROVE Len(history'[x]) \in 1 .. MaxHistory
  <2>1. CASE \E k \in Key, g \in Generation : history' = Pushed(k, g)
    <3>1. PICK k \in Key, g \in Generation : history' = Pushed(k, g)
      BY <2>1
    <3>2. k \in DOMAIN history => Len(history[k]) <= MaxHistory
      BY FlowLimitAssumption DEF LInv, LimitsHold
    <3>3. IF x = k THEN Len(history'[x]) \in Nat \ {0} /\ Len(history'[x]) <= MaxHistory
          ELSE x \in DOMAIN history /\ history'[x] = history[x]
      BY <1>1, <1>4, <3>1, <3>2, PushedFacts
    <3> QED
      BY <3>3, FlowLimitAssumption DEF LInv, LimitsHold
  <2>2. CASE history' = history
    BY <1>4, <2>2 DEF LInv, LimitsHold
  <2>3. CASE Restart
    BY <1>4, <2>3 DEF Restart, EmptyMap
  <2>4. /\ \A k \in DOMAIN current : current[k] \in Generation
        /\ \A k \in DOMAIN saved : saved[k] \in Generation
    BY <1>1, TableFacts DEF TypeOK, IsMap
  <2> QED
    BY <2>1, <2>2, <2>3, <2>4, Zenon
       DEF Next, vars, RegisterRepeat, RegisterAdvance, RegisterNew, RetireFlow, RestoreFlow,
           SnapshotFlows
<1>5. IsFiniteSet(DOMAIN saved') /\ Cardinality(DOMAIN saved') <= MaxFlows
  <2>1. saved' = saved \/ saved' = current
    BY Zenon DEF Next, vars, RegisterRepeat, RegisterAdvance, RegisterNew, RetireFlow, RestoreFlow,
           SnapshotFlows, Restart
  <2> QED
    BY <1>2, <2>1 DEF LInv
<1> QED
  BY <1>1, <1>3, <1>4, <1>5 DEF LInv, LimitsHold

-----------------------------------------------------------------------------
(* The theorems. *)

\* register_flow() and restore_flow() never make a superseded generation of a key
\* current again unless the key was retired, for every history bound: the current
\* generation alone is the fence, the history is not needed for it, which is why a
\* restart, which saves no history, keeps the fences its snapshot was taken after.
THEOREM FencesHold == Spec => [](TypeOK /\ FencedStaysFenced /\ HistoryBelowCurrent)
<1>1. IInv => TypeOK /\ FencedStaysFenced /\ HistoryBelowCurrent
  BY DEF IInv
<1> QED
  BY <1>1, InitIInv, NextIInv, PTL DEF Spec

\* max_flows_ and kMaxHistoryPerKey are never exceeded.
THEOREM LimitsAreKept == Spec => []LimitsHold
<1>1. Init => LInv
  <2> SUFFICES ASSUME Init PROVE LInv
    OBVIOUS
  <2>1. DOMAIN current = {} /\ DOMAIN saved = {} /\ DOMAIN history = {}
    BY DEF Init, EmptyMap
  <2>2. IsFiniteSet({}) /\ Cardinality({}) = 0 /\ 0 <= MaxFlows
    BY FS_EmptySet, FlowLimitAssumption
  <2>3. LimitsHold
    BY <2>1, <2>2 DEF LimitsHold
  <2> QED
    BY <2>1, <2>2, <2>3, InitIInv DEF LInv
<1>2. LInv => LimitsHold
  BY DEF LInv
<1> QED
  BY <1>1, <1>2, NextLInv, PTL DEF Spec

=============================================================================
