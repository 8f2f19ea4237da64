------------------------ MODULE ScalingStoreProofs -------------------------
(***************************************************************************)
(* Proofs about the store of computed weapons: counting lines tells a      *)
(* finished file, a saving call that returns leaves every table whole, and *)
(* finished files survive, for every set of weapons and calls and every    *)
(* length of table.                                                        *)
(***************************************************************************)
EXTENDS ScalingStore, TLAPS

\* What a run, killed or not, may leave in a file.
Prefix(f) == /\ f \in Seq(Nat)
             /\ Len(f) <= Lines
             /\ \A n \in 1..Len(f) : f[n] = Full[n]

LEMMA FullType == Full \in Seq(Nat) /\ Len(Full) = Lines
<1>1. (MaxStats - Step) \div Step + 1 = Lines
  <2>1. MaxStats - Step = (Lines - 1) * Step
    BY LinesAssumption, SMT
  <2>2. ((Lines - 1) * Step) \div Step = Lines - 1
    BY LinesAssumption, SMT
  <2> QED BY <2>1, <2>2, LinesAssumption, SMT
<1>2. Full = [n \in 1..Lines |-> Step + (n - 1) * Step]
  BY <1>1 DEF Full, Table
<1>3. \A n \in 1..Lines : Step + (n - 1) * Step \in Nat
  BY LinesAssumption, SMT
<1> QED BY <1>2, <1>3, LinesAssumption, SMT

LEMMA PrefixFull ==
  ASSUME NEW f, Prefix(f), Len(f) = Lines
  PROVE  f = Full
BY FullType, SMT DEF Prefix

LEMMA PrefixEmpty == Prefix(<< >>)
BY LinesAssumption, SMT DEF Prefix

LEMMA PrefixGrows ==
  ASSUME NEW f, Prefix(f), Len(f) < Lines
  PROVE  Prefix(Append(f, Full[Len(f) + 1]))
<1>1. Full[Len(f) + 1] \in Nat
  BY FullType, SMT DEF Prefix
<1> QED BY <1>1, FullType, SMT DEF Prefix

\* Every file is a prefix of the full table; a call that saves holds the full
\* table; nothing is ever stored under loadScale's name.
Shape == /\ disk \in [Names -> {Absent} \cup Seq(Nat)]
         /\ \A w \in Weapons : /\ disk[<<w, "">>] = Absent
                               /\ disk[Saved(w)] # Absent => Prefix(disk[Saved(w)])
         /\ call \in Calls
         /\ i \in Nat /\ 1 <= i
         /\ pc \in {"down", "check", "load", "search", "save", "write", "returned"}
         /\ pc \in {"load", "search", "save", "write"} => i <= Len(call.weapons)
         /\ pc \in {"check", "load", "search"} => opt = << >>
         /\ pc = "save" => opt = Table(RoundedStart(call))
         /\ pc = "write" => /\ Saves(call)
                            /\ opt = Full
                            /\ disk[Saved(Weapon)] # Absent

\* The weapons a saving call has finished hold their table, but for one that
\* is in its list twice and being written again.
Progress ==
  Saves(call) /\ pc \notin {"down", "returned"} =>
    \A n \in 1..Len(call.weapons) :
      n < i => \/ disk[Saved(call.weapons[n])] = Full
               \/ pc = "write" /\ call.weapons[n] = Weapon

Inv == Shape /\ Progress /\ AllSaved

LEMMA TheInit == Init => Inv
<1> SUFFICES ASSUME Init PROVE Inv
  OBVIOUS
<1>1. \A f \in Prefixes : Prefix(f)
  <2> SUFFICES ASSUME NEW n \in 0..Len(Full) PROVE Prefix(SubSeq(Full, 1, n))
    BY DEF Prefixes
  <2> QED BY FullType, SMT DEF Prefix
<1>2. \A f \in Prefixes : f \in Seq(Nat)
  BY <1>1 DEF Prefix
<1>3. disk \in [Names -> {Absent} \cup Seq(Nat)]
  BY <1>2 DEF Init
<1>4. \A w \in Weapons : Saved(w) \in Names /\ disk[Saved(w)] \in {Absent} \cup Prefixes
  BY DEF Init, Saved, Names
<1>5. Shape
  <2>1. i = 1 /\ pc = "down" /\ opt = << >> /\ call \in Calls
    BY DEF Init
  <2>3. i \in Nat /\ 1 <= i
    BY <2>1, SMT
  <2>2. \A w \in Weapons : /\ disk[<<w, "">>] = Absent
                           /\ disk[Saved(w)] # Absent => Prefix(disk[Saved(w)])
    BY <1>1, <1>4 DEF Init
  <2> QED BY <1>3, <2>1, <2>2, <2>3 DEF Shape
<1> QED BY <1>5 DEF Init, Inv, Progress, AllSaved

LEMMA CallFacts ==
  ASSUME Shape
  PROVE  /\ call.weapons \in Seq(Weapons) /\ Len(call.weapons) \in Nat
         /\ call.ignore_completed \in BOOLEAN
         /\ i <= Len(call.weapons) => Weapon \in Weapons /\ Saved(Weapon) \in Names
         /\ \A n \in 1..Len(call.weapons) : call.weapons[n] \in Weapons
<1>1. call \in CallType
  BY CallsAssumption DEF Shape
<1>2. call.weapons \in Seq(Weapons)
  BY <1>1 DEF CallType
<1>3. Len(call.weapons) \in Nat
  BY <1>2, SMT
<1>4. \A n \in 1..Len(call.weapons) : call.weapons[n] \in Weapons
  BY <1>2, SMT
<1>5. i <= Len(call.weapons) => i \in 1..Len(call.weapons)
  <2>1. i \in Nat /\ 1 <= i
    BY DEF Shape
  <2> QED BY <1>3, <2>1, SMT
<1>6. call.ignore_completed \in BOOLEAN
  BY <1>1 DEF CallType
<1>7. \A w \in Weapons : Saved(w) \in Names
  BY DEF Saved, Names
<1> QED BY <1>2, <1>3, <1>4, <1>5, <1>6, <1>7 DEF Weapon

\* Writing one saved file leaves the others, and loadScale's, alone.
LEMMA DiskUpdate ==
  ASSUME Shape, i <= Len(call.weapons), NEW f,
         f = Absent \/ Prefix(f),
         disk' = [disk EXCEPT ![Saved(Weapon)] = f]
  PROVE  /\ disk' \in [Names -> {Absent} \cup Seq(Nat)]
         /\ disk'[Saved(Weapon)] = f
         /\ \A w \in Weapons : /\ disk'[<<w, "">>] = Absent
                               /\ disk'[Saved(w)] # Absent => Prefix(disk'[Saved(w)])
                               /\ w # Weapon => disk'[Saved(w)] = disk[Saved(w)]
<1>1. Weapon \in Weapons /\ Saved(Weapon) \in Names
  BY CallFacts
<1>2. \A w \in Weapons : /\ <<w, "">> \in Names /\ Saved(w) \in Names
                         /\ <<w, "">> # Saved(Weapon)
                         /\ w # Weapon => Saved(w) # Saved(Weapon)
  BY DEF Names, Saved
<1>3. f \in {Absent} \cup Seq(Nat)
  BY DEF Prefix
<1> QED BY <1>1, <1>2, <1>3 DEF Shape

\* The end of an iteration in which the weapon's file is whole, or need not be.
LEMMA NextWeaponInv ==
  ASSUME Inv, i <= Len(call.weapons), NextWeapon, UNCHANGED <<disk, call>>,
         pc \notin {"down", "returned"},
         Saves(call) => disk[Saved(Weapon)] = Full
  PROVE  Inv'
<1>1. /\ i' = i + 1 /\ pc' = "check" /\ opt' = << >>
      /\ disk' = disk /\ call' = call /\ i \in Nat /\ 1 <= i
  BY DEF NextWeapon, Inv, Shape
<1>2. Shape'
  <2>1. i' \in Nat /\ 1 <= i'
    BY <1>1, SMT
  <2> QED BY <1>1, <2>1 DEF Inv, Shape
<1>3. Progress'
  <2> SUFFICES ASSUME Saves(call),
                      NEW n \in 1..Len(call.weapons), n < i + 1
               PROVE  disk[Saved(call.weapons[n])] = Full
    BY <1>1 DEF Progress, Saves, RoundedStart
  <2>1. CASE n = i
    BY <2>1 DEF Weapon
  <2>2. CASE n < i
    <3>1. \/ disk[Saved(call.weapons[n])] = Full
          \/ call.weapons[n] = Weapon
      BY <2>2 DEF Inv, Progress
    <3> QED BY <3>1
  <2> QED BY <2>1, <2>2, <1>1, SMT
<1>4. AllSaved'
  BY <1>1 DEF AllSaved
<1> QED BY <1>2, <1>3, <1>4 DEF Inv

LEMMA Inductive == Inv /\ [Next]_vars => Inv'
<1> SUFFICES ASSUME Inv, [Next]_vars PROVE Inv'
  OBVIOUS
<1> USE DEF Inv
<1>1. CASE Launch
  <2>1. Shape'
    <3>1. i' \in Nat /\ 1 <= i'
      BY <1>1, SMT DEF Launch
    <3> QED BY <1>1, <3>1 DEF Launch, Shape
  <2>2. Progress'
    <3>1. i' = 1 /\ \A n \in 1..Len(call'.weapons) : ~(n < i')
      BY <1>1, SMT DEF Launch
    <3> QED BY <3>1 DEF Progress
  <2> QED BY <1>1, <2>1, <2>2 DEF Launch, AllSaved
<1>2. CASE Skip
  <2>1. Prefix(disk[Saved(Weapon)]) /\ Len(disk[Saved(Weapon)]) = Lines
    BY <1>2, CallFacts DEF Skip, LooksComplete, Shape
  <2> QED BY <1>2, <2>1, PrefixFull, NextWeaponInv DEF Skip
<1>3. CASE Reject
  <2>1. /\ disk' \in [Names -> {Absent} \cup Seq(Nat)]
        /\ \A w \in Weapons :
             /\ disk'[<<w, "">>] = Absent
             /\ disk'[Saved(w)] # Absent => Prefix(disk'[Saved(w)])
             /\ w # Weapon => disk'[Saved(w)] = disk[Saved(w)]
    BY <1>3, DiskUpdate DEF Reject
  <2>2. Shape'
    BY <1>3, <2>1 DEF Reject, Shape
  <2>3. disk[Saved(Weapon)] # Full
    BY <1>3, FullType, AbsentAssumption DEF Reject, LooksComplete
  <2>4. Progress'
    <3> SUFFICES ASSUME Saves(call), NEW n \in 1..Len(call.weapons), n < i
                 PROVE  disk'[Saved(call.weapons[n])] = Full
      BY <1>3 DEF Reject, Progress, Saves, RoundedStart
    <3>1. disk[Saved(call.weapons[n])] = Full
      BY <1>3 DEF Reject, Progress
    <3>2. call.weapons[n] # Weapon /\ call.weapons[n] \in Weapons
      BY <3>1, <2>3, CallFacts
    <3> QED BY <2>1, <3>1, <3>2
  <2> QED BY <1>3, <2>2, <2>4 DEF Reject, AllSaved
<1>4. CASE Take
  <2>1. Shape' /\ Progress'
    BY <1>4 DEF Take, Shape, Progress, Saves, RoundedStart, Weapon
  <2> QED BY <1>4, <2>1 DEF Take, AllSaved
<1>5. CASE Load
  <2>1. opt' = << >>
    BY <1>5, CallFacts DEF Load, Shape
  <2>2. Shape' /\ Progress'
    BY <1>5, <2>1 DEF Load, Shape, Progress, Saves, RoundedStart, Weapon
  <2> QED BY <1>5, <2>2 DEF Load, AllSaved
<1>6. CASE Search
  <2>1. opt' = Table(RoundedStart(call))
    BY <1>6 DEF Search, Shape
  <2>2. Shape' /\ Progress'
    BY <1>6, <2>1 DEF Search, Shape, Progress, Saves, RoundedStart, Weapon
  <2> QED BY <1>6, <2>2 DEF Search, AllSaved
<1>7. CASE Open
  <2>1. /\ disk' \in [Names -> {Absent} \cup Seq(Nat)]
        /\ disk'[Saved(Weapon)] = << >>
        /\ \A w \in Weapons :
             /\ disk'[<<w, "">>] = Absent
             /\ disk'[Saved(w)] # Absent => Prefix(disk'[Saved(w)])
             /\ w # Weapon => disk'[Saved(w)] = disk[Saved(w)]
    BY <1>7, DiskUpdate, PrefixEmpty DEF Open, Shape
  <2>2. << >> # Absent
    BY AbsentAssumption, PrefixEmpty DEF Prefix
  <2>3. Saves(call) /\ opt = Full /\ Weapon' = Weapon
    BY <1>7 DEF Open, Shape, Saves, Full, Weapon
  <2>4. Shape'
    BY <1>7, <2>1, <2>2, <2>3 DEF Open, Shape, Saves, RoundedStart
  <2>5. Progress'
    <3> SUFFICES ASSUME NEW n \in 1..Len(call.weapons), n < i
                 PROVE  \/ disk'[Saved(call.weapons[n])] = Full
                        \/ call.weapons[n] = Weapon
      BY <1>7, <2>3 DEF Open, Progress
    <3> QED BY <1>7, <2>1, <2>3, CallFacts DEF Open, Progress
  <2> QED BY <1>7, <2>4, <2>5 DEF Open, AllSaved
<1>8. CASE NoSave
  BY <1>8, NextWeaponInv DEF NoSave, Shape
<1>9. CASE WriteRow
  <2> DEFINE f == disk[Saved(Weapon)]
  <2>1. Prefix(f) /\ Len(f) < Lines
    BY <1>9, FullType, CallFacts DEF WriteRow, Shape
  <2>2. /\ disk' = [disk EXCEPT ![Saved(Weapon)] = Append(f, Full[Len(f) + 1])]
        /\ UNCHANGED <<call, pc, i, opt>> /\ pc = "write"
        /\ i <= Len(call.weapons) /\ Weapon' = Weapon
    BY <1>9 DEF WriteRow, Shape, Weapon
  <2>3. Prefix(Append(f, Full[Len(f) + 1]))
    BY <2>1, PrefixGrows
  <2>4. /\ disk' \in [Names -> {Absent} \cup Seq(Nat)]
        /\ disk'[Saved(Weapon)] = Append(f, Full[Len(f) + 1])
        /\ \A w \in Weapons :
             /\ disk'[<<w, "">>] = Absent
             /\ disk'[Saved(w)] # Absent => Prefix(disk'[Saved(w)])
             /\ w # Weapon => disk'[Saved(w)] = disk[Saved(w)]
    BY <2>2, <2>3, DiskUpdate
  <2>5. disk'[Saved(Weapon)] # Absent
    BY <2>3, <2>4, AbsentAssumption DEF Prefix
  <2>6. Shape'
    BY <2>2, <2>4, <2>5 DEF Shape, Saves, RoundedStart
  <2>7. Progress'
    <3> SUFFICES ASSUME NEW n \in 1..Len(call.weapons), n < i
                 PROVE  \/ disk'[Saved(call.weapons[n])] = Full
                        \/ call.weapons[n] = Weapon
      BY <2>2 DEF Progress
    <3> QED BY <2>2, <2>4, CallFacts DEF Progress, Shape
  <2> QED BY <2>2, <2>6, <2>7 DEF AllSaved
<1>10. CASE Close
  <2>1. Prefix(disk[Saved(Weapon)]) /\ Len(disk[Saved(Weapon)]) = Lines
    BY <1>10, FullType, CallFacts DEF Close, Shape
  <2> QED BY <1>10, <2>1, PrefixFull, NextWeaponInv DEF Close, Shape
<1>11. CASE Return
  <2>1. Shape'
    BY <1>11 DEF Return, Shape
  <2>2. AllSaved'
    <3> SUFFICES ASSUME Saves(call), NEW n \in 1..Len(call.weapons)
                 PROVE  disk[Saved(call.weapons[n])] = Full
      BY <1>11 DEF Return, AllSaved, Saves, RoundedStart
    <3>1. n < i
      <4>1. Len(call.weapons) \in Nat /\ i \in Nat /\ i > Len(call.weapons)
        BY <1>11, CallFacts DEF Return, Shape
      <4> QED BY <4>1, SMT
    <3> QED BY <1>11, <3>1 DEF Return, Progress
  <2> QED BY <1>11, <2>1, <2>2 DEF Return, Progress
<1>12. CASE Kill
  <2>1. Shape'
    <3>1. i' \in Nat /\ 1 <= i'
      BY <1>12, SMT DEF Kill
    <3> QED BY <1>12, <3>1 DEF Kill, Shape
  <2> QED BY <1>12, <2>1 DEF Kill, Progress, AllSaved
<1>13. CASE UNCHANGED vars
  BY <1>13 DEF vars, Shape, Progress, AllSaved, Saves, RoundedStart, Weapon
<1> QED
  BY <1>1, <1>2, <1>3, <1>4, <1>5, <1>6, <1>7, <1>8, <1>9, <1>10, <1>11,
     <1>12, <1>13 DEF Next

\* Every reachable store satisfies the invariant.
THEOREM Invariance == Spec => []Inv
BY TheInit, Inductive, PTL DEF Spec

LEMMA TableTyped ==
  ASSUME NEW s \in Nat
  PROVE  Table(s) \in TableType
<1> DEFINE k == (MaxStats - s) \div Step + 1
<1>1. MaxStats \in Nat /\ k \in Int
  BY LinesAssumption, SMT
<1>2. ASSUME NEW n \in 1..k
      PROVE  s + (n - 1) * Step \in 0..MaxStats
  <2>1. (k - 1) * Step <= MaxStats - s
    BY LinesAssumption, <1>1, SMT
  <2>2. (n - 1) * Step <= (k - 1) * Step
    <3> HIDE DEF k
    <3> QED BY <1>1, <1>2, LinesAssumption, SMT
  <2>3. (n - 1) * Step \in Nat /\ (k - 1) * Step \in Int
    <3> HIDE DEF k
    <3> QED BY <1>1, <1>2, LinesAssumption, SMT
  <2> DEFINE x == (n - 1) * Step
             y == (k - 1) * Step
  <2> HIDE DEF x, y, k
  <2> QED BY <1>1, <2>1, <2>2, <2>3, SMT DEF x, y
<1> HIDE DEF k
<1>3. [n \in 1..k |-> s + (n - 1) * Step] \in Seq(0..MaxStats)
  <2>1. CASE k < 0
    BY <1>1, <2>1, SMT
  <2>2. CASE k >= 0
    BY <1>1, <1>2, <2>2
  <2> QED BY <1>1, <2>1, <2>2, SMT
<1> QED BY <1>3 DEF Table, TableType, k

LEMMA EmptyTyped == << >> \in TableType
<1>1. ASSUME NEW S PROVE << >> \in Seq(S)
  OBVIOUS
<1> QED BY <1>1 DEF TableType

LEMMA RowTyped ==
  ASSUME NEW f \in TableType, NEW t \in TableType, Len(f) < Len(t)
  PROVE  Append(f, t[Len(f) + 1]) \in TableType
<1>1. ASSUME NEW S, NEW g \in Seq(S), NEW u \in Seq(S), Len(g) < Len(u)
      PROVE  Append(g, u[Len(g) + 1]) \in Seq(S)
  <2>1. Len(g) + 1 \in 1..Len(u)
    BY <1>1
  <2> QED BY <1>1, <2>1
<1> QED BY <1>1 DEF TableType

LEMMA TypedInit == Init => TypeOK
<1> SUFFICES ASSUME Init PROVE TypeOK
  OBVIOUS
<1>1. Prefixes \subseteq TableType
  <2> SUFFICES ASSUME NEW n \in 0..Len(Full) PROVE SubSeq(Full, 1, n) \in TableType
    BY DEF Prefixes
  <2>1. Full \in TableType
    BY TableTyped, LinesAssumption DEF Full
  <2>2. ASSUME NEW S, NEW f \in Seq(S), NEW m \in 0..Len(f)
        PROVE  SubSeq(f, 1, m) \in Seq(S)
    BY <2>2
  <2> QED BY <2>1, <2>2 DEF TableType
<1>2. disk \in [Names -> {Absent} \cup TableType]
  BY <1>1 DEF Init
<1>3. i \in 1..(Len(call.weapons) + 1)
  <2>1. call.weapons \in Seq(Weapons)
    BY CallsAssumption DEF Init, CallType
  <2>2. Len(call.weapons) \in Nat
    BY <2>1
  <2>3. i = 1
    BY DEF Init
  <2> QED BY <2>2, <2>3, SMT
<1> QED BY <1>2, <1>3, EmptyTyped DEF Init, TypeOK

\* One case per variable that has a type of its own.
LEMMA TypedNext == Inv /\ TypeOK /\ [Next]_vars => TypeOK'
<1> SUFFICES ASSUME Inv, TypeOK, Next PROVE TypeOK'
  BY DEF TypeOK, vars
<1> USE DEF NextWeapon
<1>1. call' \in Calls /\ call.weapons \in Seq(Weapons) /\ call'.weapons \in Seq(Weapons)
  BY CallsAssumption DEF TypeOK, CallType, Next, Launch, Skip, Reject, Take, Load,
     Search, Open, NoSave, WriteRow, Close, Return, Kill
<1>2. disk' \in [Names -> {Absent} \cup TableType]
  <2>1. CASE Reject
    BY <2>1 DEF Reject, TypeOK
  <2>2. CASE Open
    BY <2>2, EmptyTyped DEF Open, TypeOK
  <2>3. CASE WriteRow
    <3> DEFINE f == disk[Saved(Weapon)]
    <3>1. Saved(Weapon) \in Names /\ f # Absent
      BY <2>3, CallFacts DEF WriteRow, Inv, Shape
    <3>2. f \in TableType /\ opt \in TableType
      BY <3>1 DEF TypeOK
    <3>3. Len(f) < Len(opt) /\ disk' = [disk EXCEPT ![Saved(Weapon)] = Append(f, opt[Len(f) + 1])]
      BY <2>3 DEF WriteRow
    <3> HIDE DEF f
    <3>4. Append(f, opt[Len(f) + 1]) \in TableType
      BY <3>2, <3>3, RowTyped
    <3> QED BY <3>3, <3>4 DEF TypeOK
  <2> QED BY <2>1, <2>2, <2>3 DEF Next, Launch, Skip, Take, Load, Search, NoSave,
             Close, Return, Kill, TypeOK
<1>3. i' \in 1..(Len(call'.weapons) + 1)
  <2>0. Len(call'.weapons) \in Nat
    BY <1>1
  <2>1. CASE Launch \/ Kill
    BY <2>0, <2>1 DEF Launch, Kill
  <2>2. CASE Skip \/ NoSave \/ Close
    <3>1. i <= Len(call.weapons) /\ i' = i + 1 /\ call' = call
      BY <2>2 DEF Skip, NoSave, Close, Inv, Shape
    <3> QED BY <2>0, <3>1, SMT DEF TypeOK
  <2> QED BY <2>1, <2>2 DEF Next, Reject, Take, Load, Search, Open, WriteRow, Return,
             TypeOK
<1>4. opt' \in TableType
  <2>1. CASE Load
    <3>1. Weapon \in Weapons
      BY <2>1, CallFacts DEF Load, Inv, Shape
    <3> QED BY <2>1, <3>1, EmptyTyped DEF Load, Inv, Shape
  <2>2. CASE Search
    <3>1. RoundedStart(call) \in Nat
      BY CallsAssumption, LinesAssumption, SMTT(30) DEF RoundedStart, TypeOK, CallType
    <3> QED BY <2>2, <3>1, TableTyped DEF Search, TypeOK
  <2> QED BY <2>1, <2>2, EmptyTyped DEF Next, Launch, Skip, Reject, Take, Open, NoSave,
             WriteRow, Close, Return, Kill, TypeOK
<1> QED BY <1>1, <1>2, <1>3, <1>4 DEF TypeOK, Next, Launch, Skip, Reject, Take, Load,
           Search, Open, NoSave, WriteRow, Close, Return, Kill

\* Files, tables and positions have their types: every file is absent or a
\* table of budgets, and fullPipeline never reads past its list of weapons.
THEOREM TypeCorrect == Spec => []TypeOK
BY TypedInit, TypedNext, Invariance, PTL DEF Spec

\* A file with the magic number of lines is whole.
THEOREM LengthTellsAlways == Spec => []LengthTells
<1>1. Inv => LengthTells
  BY PrefixFull DEF Inv, Shape, LengthTells, LooksComplete
<1> QED BY <1>1, Invariance, PTL

\* A saving call that returns leaves every one of its tables whole.
THEOREM AllSavedAlways == Spec => []AllSaved
<1>1. Inv => AllSaved
  BY DEF Inv
<1> QED BY <1>1, Invariance, PTL

\* Finished files survive, as long as the calls that save skip what is
\* complete, as pinco and computeAllWeapons do.
THEOREM FinishedStaysAlways ==
  ASSUME \A c \in Calls : Saves(c) => c.ignore_completed
  PROVE  Spec => FinishedStays
<1> DEFINE Fresh == Saves(call) /\ pc \in {"load", "search", "save"} =>
                      disk[Saved(Weapon)] = Absent
<1>1. Init => Fresh
  BY DEF Init
<1>2. Inv /\ Fresh /\ [Next]_vars => Fresh'
  <2> SUFFICES ASSUME Inv, Fresh, [Next]_vars,
                      Saves(call'), pc' \in {"load", "search", "save"}
               PROVE  disk'[Saved(Weapon')] = Absent
    BY DEF Saves, RoundedStart
  <2>1. CASE Reject
    BY <2>1, DiskUpdate DEF Reject, Inv, Weapon
  <2>2. CASE Take
    BY <2>2 DEF Take, Inv, Shape
  <2>3. CASE Load \/ Search
    BY <2>3 DEF Load, Search, Saves, RoundedStart, Weapon
  <2>4. CASE UNCHANGED vars
    BY <2>4 DEF vars, Saves, RoundedStart, Weapon
  <2> QED
    BY <2>1, <2>2, <2>3, <2>4 DEF Next, Launch, Skip, Open, NoSave, WriteRow,
       Close, Return, Kill, NextWeapon
<1>3. Inv /\ Fresh /\ [Next]_vars =>
        [\A w \in Weapons : disk[Saved(w)] = Full => disk'[Saved(w)] = Full]_vars
  <2> SUFFICES ASSUME Inv, Fresh, Next, NEW w \in Weapons, disk[Saved(w)] = Full
               PROVE  disk'[Saved(w)] = Full
    BY DEF vars
  <2>0. Full # Absent /\ Len(Full) = Lines
    BY FullType, AbsentAssumption
  <2>1. CASE Reject
    <3>1. w # Weapon
      BY <2>1, <2>0 DEF Reject, LooksComplete
    <3> QED BY <2>1, <3>1, DiskUpdate DEF Reject, Inv
  <2>2. CASE Open
    <3>1. w # Weapon
      BY <2>2, <2>0 DEF Open
    <3> QED BY <2>2, <3>1, DiskUpdate, PrefixEmpty DEF Open, Inv, Shape
  <2>3. CASE WriteRow
    <3> DEFINE f == disk[Saved(Weapon)]
    <3>1. Prefix(f) /\ Len(f) < Lines /\ i <= Len(call.weapons)
          /\ disk' = [disk EXCEPT ![Saved(Weapon)] = Append(f, Full[Len(f) + 1])]
      BY <2>3, <2>0, CallFacts DEF WriteRow, Inv, Shape
    <3>2. w # Weapon
      BY <2>0, <3>1, FullType, SMT
    <3>3. Prefix(Append(f, Full[Len(f) + 1]))
      BY <3>1, PrefixGrows
    <3> QED BY <3>1, <3>2, <3>3, DiskUpdate DEF Inv
  <2>4. CASE UNCHANGED disk
    BY <2>4
  <2> QED
    BY <2>1, <2>2, <2>3, <2>4 DEF Next, Launch, Skip, Take, Load, Search,
       NoSave, Close, Return, Kill
<1> QED BY <1>1, <1>2, <1>3, Invariance, PTL DEF Spec, FinishedStays
=============================================================================
