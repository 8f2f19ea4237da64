------------------------- MODULE NegationCacheProofs -------------------------
(* Proofs about NegationCache, for any number of threads, classes and levels. *)
EXTENDS NegationCache, TLAPS

\* A call has tried no more splits than it has.
InRange == \A p \in Procs : Len(negations[p]) <= points[p]

\* A class not warmed yet, or being warmed, has no vector.
ColdEmpty == /\ \A k \in cold : cache[k] = << >>
             /\ busy[Main] => /\ cache[key[Main]] = << >>
                              /\ points[Main] = WarmLevel
                              /\ key[Main] \notin cold

\* The threads run only when everything is warm.
ThreadsLast == \A p \in Procs \ {Main} : busy[p] => Warmed

\* Up to the warmed level, every call works with the warmed negations.
WarmPrefix ==
  \A p \in Procs : \A n \in 1..Len(negations[p]) :
    n <= WarmLevel => negations[p][n] = EndIndex(key[p], WarmLevel, n - 1)

\* What a call works with comes from a call that had this split.
Traced ==
  \A p \in Procs : \A n \in 1..Len(negations[p]) :
    \E level \in AllLevels :
      n <= level /\ negations[p][n] = EndIndex(key[p], level, n - 1)

\* The inductive invariant.  Pinned needs to know what calls under way will
\* store (WarmPrefix), and that those that store are long enough (Spared).
IInv == /\ TypeOK
        /\ InRange
        /\ ColdEmpty
        /\ ThreadsLast
        /\ WarmPrefix
        /\ Traced
        /\ Provenance
        /\ Pinned
        /\ Spared

\* A stat stays within its range.
LEMMA EndIndexRange ==
  ASSUME NEW k \in Keys, NEW n \in Int, NEW j \in Int
  PROVE  EndIndex(k, n, j) \in 1..MaxStat
BY KeysAssumption DEF EndIndex

LEMMA ElementType ==
  ASSUME NEW S, NEW s \in Seq(S), NEW n \in 1..Len(s)
  PROVE  s[n] \in S
OBVIOUS

LEMMA LevelsAreNat == \A n \in AllLevels : n \in Nat /\ 1 <= n
BY LevelsAssumption DEF AllLevels

\* The caches start empty and the threads idle.
LEMMA InitHolds == Init => IInv
<1> SUFFICES ASSUME Init PROVE IInv
    OBVIOUS
<1>1. TypeOK
  BY DEF Init, TypeOK, AllLevels
<1>2. InRange /\ ColdEmpty /\ ThreadsLast /\ Spared
  BY MainAssumption, LevelsAssumption DEF Init, InRange, ColdEmpty, ThreadsLast, Spared
<1>3. WarmPrefix /\ Traced /\ Provenance
  BY DEF Init, WarmPrefix, Traced, Provenance
<1>4. Pinned
  BY DEF Init, Pinned, IsWarm
<1> QED BY <1>1, <1>2, <1>3, <1>4 DEF IInv

\* Entering a call forgets the negations of the last one.
LEMMA EnterKeeps ==
  ASSUME IInv, NEW p \in Procs, NEW k \in Keys, NEW n \in AllLevels,
         Enter(p, k, n), cold' \in SUBSET cold,
         \/ p = Main /\ n = WarmLevel /\ k \in cold /\ cold' = cold \ {k}
         \/ p # Main /\ Warmed /\ cold' = cold
  PROVE  IInv'
<1> USE DEF IInv
<1>1. TypeOK'
  BY DEF TypeOK, Enter
<1>2. InRange'
  BY LevelsAreNat DEF TypeOK, InRange, Enter
<1>3. ColdEmpty'
  BY MainAssumption DEF TypeOK, ColdEmpty, Enter
<1>4. ThreadsLast'
  BY MainAssumption DEF TypeOK, ThreadsLast, Warmed, Enter
<1>5. WarmPrefix'
  BY DEF TypeOK, WarmPrefix, Enter
<1>6. Traced' /\ Provenance'
  BY DEF TypeOK, Traced, Provenance, Enter
<1>7. Pinned'
  <2> SUFFICES ASSUME NEW q \in Keys, IsWarm(q)'
               PROVE  IsWarm(q)
      BY DEF Pinned, Enter
  <2> QED BY MainAssumption DEF TypeOK, IsWarm, Warmed, Enter
<1>8. Spared'
  BY DEF TypeOK, Spared, Enter
<1> QED BY <1>1, <1>2, <1>3, <1>4, <1>5, <1>6, <1>7, <1>8

\* A hit copies an entry; for a thread, up to the warmed level a pinned one.
LEMMA HitKeeps == ASSUME IInv, NEW p \in Procs, Hit(p) PROVE IInv'
<1> USE DEF IInv
<1> DEFINE next == Len(negations[p]) + 1
<1>0. /\ key[p] \in Keys /\ points[p] \in Nat /\ busy[p]
      /\ negations[p] \in Seq(1..MaxStat)
      /\ cache[key[p]] \in Seq(1..MaxStat)
      /\ next \in 1..Len(cache[key[p]])
      /\ next <= points[p]
      /\ negations' = [negations EXCEPT ![p] = Append(negations[p], cache[key[p]][next])]
  BY LevelsAreNat DEF Hit, Trying, Cached, TypeOK
<1>1. /\ negations'[p] = Append(negations[p], cache[key[p]][next])
      /\ \A q \in Procs : q # p => negations'[q] = negations[q]
      /\ UNCHANGED <<cache, busy, key, points, larger, cold>>
  BY <1>0 DEF Hit, TypeOK
<1>2. TypeOK'
  <2>1. cache[key[p]][next] \in 1..MaxStat
    BY <1>0, ElementType
  <2>2. Append(negations[p], cache[key[p]][next]) \in Seq(1..MaxStat)
    BY <1>0, <2>1
  <2> QED BY <1>0, <1>1, <2>2 DEF TypeOK
<1>3. InRange'
  BY <1>0, <1>1 DEF InRange
<1>4. ColdEmpty' /\ ThreadsLast' /\ Spared' /\ Provenance' /\ Pinned'
  BY <1>1 DEF ColdEmpty, ThreadsLast, Spared, Provenance, Pinned, Warmed, IsWarm
<1>5. WarmPrefix'
  <2>1. next <= WarmLevel => cache[key[p]][next] = EndIndex(key[p], WarmLevel, next - 1)
    <3>1. p # Main
      BY <1>0 DEF ColdEmpty
    <3>2. IsWarm(key[p])
      BY <1>0, <3>1 DEF ThreadsLast, Warmed, IsWarm
    <3> QED BY <1>0, <3>2, LevelsAssumption DEF Pinned
  <2> QED BY <1>0, <1>1, <2>1 DEF WarmPrefix
<1>6. Traced'
  <2>1. \E level \in AllLevels :
          next <= level /\ cache[key[p]][next] = EndIndex(key[p], level, next - 1)
    BY <1>0 DEF Provenance
  <2> QED BY <1>0, <1>1, <2>1 DEF Traced
<1> QED BY <1>2, <1>3, <1>4, <1>5, <1>6

\* A miss happens to the main thread, or beyond the warmed level.
LEMMA MissKeeps == ASSUME IInv, NEW p \in Procs, Miss(p) PROVE IInv'
<1> USE DEF IInv
<1> DEFINE next == Len(negations[p]) + 1
           new == EndIndex(key[p], points[p], Len(negations[p]))
<1>0. /\ key[p] \in Keys /\ points[p] \in AllLevels /\ points[p] \in Nat /\ busy[p]
      /\ negations[p] \in Seq(1..MaxStat)
      /\ cache[key[p]] \in Seq(1..MaxStat)
      /\ Len(cache[key[p]]) < next
      /\ next <= points[p]
      /\ negations' = [negations EXCEPT ![p] = Append(negations[p], new)]
  BY LevelsAreNat DEF Miss, Trying, Cached, TypeOK
<1>1. /\ negations'[p] = Append(negations[p], new)
      /\ \A q \in Procs : q # p => negations'[q] = negations[q]
      /\ UNCHANGED <<cache, busy, key, points, cold>>
      /\ \A q \in Procs : q # p => larger'[q] = larger[q]
      /\ new = EndIndex(key[p], points[p], next - 1)
  BY <1>0 DEF Miss, TypeOK
<1>a. p # Main => WarmLevel < next
  BY <1>0, LevelsAssumption DEF ThreadsLast, Warmed, IsWarm, Pinned
<1>b. p = Main => points[p] = WarmLevel
  BY <1>0 DEF ColdEmpty
<1>2. TypeOK'
  <2>1. new \in 1..MaxStat
    BY <1>0, EndIndexRange
  <2> HIDE DEF new
  <2>2. Append(negations[p], new) \in Seq(1..MaxStat)
    BY <1>0, <2>1
  <2>3. larger' \in [Procs -> BOOLEAN]
    BY DEF Miss, TypeOK
  <2> QED BY <1>0, <1>1, <2>2, <2>3 DEF TypeOK
<1> HIDE DEF new
<1>3. InRange'
  BY <1>0, <1>1 DEF InRange
<1>4. ColdEmpty' /\ ThreadsLast' /\ Provenance' /\ Pinned'
  BY <1>1 DEF ColdEmpty, ThreadsLast, Provenance, Pinned, Warmed, IsWarm
<1>5. Spared'
  BY <1>0, <1>1, <1>a, LevelsAssumption DEF Spared
<1>6. WarmPrefix'
  <2> SUFFICES ASSUME NEW q \in Procs, NEW n \in 1..Len(negations'[q]), n <= WarmLevel
               PROVE  negations'[q][n] = EndIndex(key[q], WarmLevel, n - 1)
      BY <1>1 DEF WarmPrefix
  <2>1. CASE q = p /\ n = next
    BY <2>1, <1>0, <1>1, <1>a, <1>b, LevelsAssumption
  <2>2. CASE ~(q = p /\ n = next)
    BY <2>2, <1>0, <1>1 DEF WarmPrefix
  <2> QED BY <2>1, <2>2
<1>7. Traced'
  BY <1>0, <1>1 DEF Traced
<1> QED BY <1>2, <1>3, <1>4, <1>5, <1>6, <1>7

\* A store leaves a vector that is as long as the warmed one, or longer, and
\* agrees with it.
LEMMA StoreKeeps == ASSUME IInv, NEW p \in Procs, Store(p) PROVE IInv'
<1> USE DEF IInv
<1>0. /\ key[p] \in Keys /\ points[p] \in AllLevels /\ points[p] \in Nat /\ busy[p]
      /\ negations[p] \in Seq(1..MaxStat)
      /\ Len(negations[p]) = points[p]
      /\ UNCHANGED <<key, points, negations, larger, cold>>
      /\ ~busy'[p]
      /\ \A q \in Procs : q # p => busy'[q] = busy[q]
      /\ cache' \in [Keys -> Seq(1..MaxStat)]
      /\ \A k \in Keys : k # key[p] => cache'[k] = cache[k]
      /\ \/ cache'[key[p]] = cache[key[p]] /\ cache[key[p]] # << >>
         \/ cache'[key[p]] = negations[p] /\ larger[p]
         \/ cache'[key[p]] = negations[p] /\ cache[key[p]] = << >>
  BY LevelsAreNat DEF Store, Tried, TypeOK
<1>1. TypeOK'
  <2>1. \A k \in Keys : Len(cache'[k]) \in AllLevels \cup {0}
    BY <1>0 DEF TypeOK
  <2> QED BY <1>0, <2>1 DEF TypeOK, Store
<1>2. InRange' /\ WarmPrefix' /\ Traced' /\ Spared'
  BY <1>0 DEF InRange, WarmPrefix, Traced, Spared
<1>3. ThreadsLast'
  BY <1>0, MainAssumption DEF ThreadsLast, Warmed
<1>4. ColdEmpty'
  <2>1. key[p] \notin cold
    BY <1>0 DEF ColdEmpty, ThreadsLast, Warmed
  <2>2. p # Main => ~busy[Main]
    BY <1>0 DEF ThreadsLast, Warmed
  <2> QED BY <1>0, <2>1, <2>2, MainAssumption DEF ColdEmpty, TypeOK
<1>5. Provenance'
  <2>1. \A n \in 1..Len(negations[p]) : \E level \in AllLevels :
          n <= level /\ negations[p][n] = EndIndex(key[p], level, n - 1)
    BY <1>0 DEF Traced
  <2> QED BY <1>0, <2>1 DEF Provenance
<1>6. Pinned'
  <2> SUFFICES ASSUME NEW k \in Keys, IsWarm(k)'
               PROVE  /\ WarmLevel <= Len(cache'[k])
                      /\ \A n \in 1..WarmLevel :
                           cache'[k][n] = EndIndex(k, WarmLevel, n - 1)
      BY DEF Pinned
  <2>1. CASE cache'[k] = cache[k] /\ (k # key[p] \/ cache[k] # << >>)
    <3>1. IsWarm(k)
      BY <2>1, <1>0, MainAssumption DEF IsWarm, ColdEmpty
    <3> QED BY <2>1, <3>1 DEF Pinned
  <2>2. CASE k = key[p] /\ cache'[k] = negations[p] /\ (larger[p] \/ cache[k] = << >>)
    <3>1. WarmLevel <= points[p]
      <4>1. CASE p = Main
        BY <4>1, <1>0, LevelsAssumption DEF ColdEmpty
      <4>2. CASE p # Main /\ larger[p]
        BY <4>2, <1>0, LevelsAssumption DEF Spared
      <4>3. CASE p # Main /\ cache[k] = << >>
        <5>1. IsWarm(k)
          BY <4>3, <1>0, <2>2 DEF ThreadsLast, Warmed, IsWarm
        <5> QED BY <5>1, <4>3, LevelsAssumption DEF Pinned
      <4> QED BY <4>1, <4>2, <4>3, <2>2
    <3> QED BY <3>1, <2>2, <1>0, LevelsAssumption DEF WarmPrefix
  <2> QED BY <2>1, <2>2, <1>0
<1> QED BY <1>1, <1>2, <1>3, <1>4, <1>5, <1>6

\* The induction step.
LEMMA NextHolds == IInv /\ [Next]_vars => IInv'
<1> SUFFICES ASSUME IInv, [Next]_vars PROVE IInv'
    OBVIOUS
<1>1. ASSUME NEW k \in Keys, Warm(k) PROVE IInv'
  <2>1. WarmLevel \in AllLevels
    BY DEF AllLevels
  <2> QED BY <1>1, <2>1, EnterKeeps, MainAssumption DEF Warm
<1>2. ASSUME NEW p \in Procs, NEW k \in Keys, NEW n \in Levels, Call(p, k, n)
      PROVE  IInv'
  <2>1. n \in AllLevels
    BY DEF AllLevels
  <2> QED BY <1>2, <2>1, EnterKeeps DEF Call
<1>3. ASSUME NEW p \in Procs, Step(p) PROVE IInv'
  BY <1>3, HitKeeps, MissKeeps, StoreKeeps DEF Step
<1>4. CASE UNCHANGED vars
  BY <1>4 DEF vars, IInv, TypeOK, InRange, ColdEmpty, ThreadsLast, WarmPrefix,
              Traced, Provenance, Pinned, Spared, Warmed, IsWarm
<1> QED BY <1>1, <1>2, <1>3, <1>4 DEF Next

LEMMA Invariance == Spec => []IInv
BY InitHolds, NextHolds, PTL DEF Spec

\* The vectors in the shared maps, and in the hands of threads, have their types
\* whatever the interleaving.
THEOREM TypeCorrect == Spec => []TypeOK
<1>1. IInv => TypeOK
  BY DEF IInv
<1> QED BY <1>1, Invariance, PTL

\* Every entry of a vector was computed for its index, whichever threads
\* overwrote each other.
THEOREM ProvenanceAlways == Spec => []Provenance
<1>1. IInv => Provenance
  BY DEF IInv
<1> QED BY <1>1, Invariance, PTL

\* What writeTrainingData warmed is never changed again.
THEOREM PinnedAlways == Spec => []Pinned
<1>1. IInv => Pinned
  BY DEF IInv
<1> QED BY <1>1, Invariance, PTL

\* Calls up to the warmed level never run the optimizer.
THEOREM SparedAlways == Spec => []Spared
<1>1. IInv => Spared
  BY DEF IInv
<1> QED BY <1>1, Invariance, PTL

\* Calls up to the warmed level compute the same in every interleaving.
THEOREM ReproducibleAlways == Spec => []Reproducible
<1>1. IInv => Reproducible
  <2> SUFFICES ASSUME IInv, NEW p \in Procs \ {Main}, points[p] <= WarmLevel,
                      NEW n \in 1..Len(negations[p])
               PROVE  negations[p][n] = EndIndex(key[p], WarmLevel, n - 1)
      BY DEF Reproducible
  <2> QED BY LevelsAreNat, LevelsAssumption DEF IInv, TypeOK, InRange, WarmPrefix
<1> QED BY <1>1, Invariance, PTL
=============================================================================
