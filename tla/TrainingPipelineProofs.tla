----------------------- MODULE TrainingPipelineProofs -----------------------
(***************************************************************************)
(* Proofs that writeTrainingData writes the rows it should, for any number *)
(* of threads and any directory.                                           *)
(***************************************************************************)
EXTENDS TrainingPipeline, TLAPS

\* Of n builds, build f belongs to the chunk of thread t.
In(n, t, f) == f \in Nat /\ Bound(n, t - 1) < f /\ f <= Bound(n, t)

\* The row of variant v of build f is in file o.
Written(o, f, v) == \E n \in 1..Len(o) : o[n] = <<f, v>>

\* Threads are started and joined in order.
Order == /\ main.at = "start" => \A t \in Threads : pc[t] = "new"
         /\ main.at = "spawn" => \A t \in Threads : t < main.thread <=> pc[t] # "new"
         /\ main.at \in {"join", "returned"} => \A t \in Threads : pc[t] # "new"
         /\ main.at = "join" => \A t \in Threads : t < main.thread => pc[t] = "done"
         /\ main.at = "returned" => \A t \in Threads : pc[t] = "done"

\* A thread that appends has a build of its chunk that parses; one that is done
\* has none left.  The writer holds the mutex.
Busy == \A t \in Threads :
          /\ pc[t] \in {"append", "write"} =>
               at[t] <= Bound(Len(files), t) /\ files[at[t]].parses
          /\ pc[t] = "done" => at[t] = Bound(Len(files), t) + 1
          /\ pc[t] = "write" <=> mutex = t

\* What is not in the buffer any more is in the file.
Buffer == \A t \in Threads :
            /\ pc[t] = "append" => todo[t] = RowsOf(files[at[t]])
            /\ pc[t] = "write" =>
                 /\ todo[t] \subseteq RowsOf(files[at[t]])
                 /\ \A v \in RowsOf(files[at[t]]) : v \in todo[t] \/ Written(out, at[t], v)

\* A thread has got to build f of its chunk, far enough to write rows of it.
Reached(t, f) == /\ pc[t] # "new"
                 /\ In(Len(files), t, f)
                 /\ f < at[t] \/ (f = at[t] /\ pc[t] = "write")

\* Every row is wanted, and comes from the thread that has its build.
Legit == \A n \in 1..Len(out) :
           IF main.at = "start"
           THEN Old(out[n])
           ELSE /\ out[n][2] \in RowsOf(files[out[n][1]])
                /\ files[out[n][1]].parses
                /\ \E t \in Threads : Reached(t, out[n][1])

\* What a thread has behind it is written.
Behind == \A t \in Threads : pc[t] # "new" =>
            \A f \in Nat : In(Len(files), t, f) /\ f < at[t] /\ files[f].parses =>
              \A v \in RowsOf(files[f]) : Written(out, f, v)

\* A block under way is at the end of the file.
Tip == \A t \in Threads : pc[t] = "write" =>
         \A n \in 1..Len(out) : out[n][1] = at[t] =>
           /\ out[Len(out)][1] = at[t]
           /\ \A u \in todo[t] : out[n][2] < u

\* The inductive invariant.
IInv == TypeOK /\ Order /\ Busy /\ Buffer /\ Legit /\ Behind /\ Tip /\ Blocks

-----------------------------------------------------------------------------
(* The chunks share out the list. *)

LEMMA DivFloor ==
  ASSUME NEW n \in Nat, NEW k \in Nat, 1 <= k
  PROVE  /\ n \div k \in Nat
         /\ k * (n \div k) <= n
         /\ n < k * (n \div k) + k
OBVIOUS

LEMMA BoundType ==
  ASSUME NEW n \in Nat, NEW t \in Nat, t <= NThreads
  PROVE  Bound(n, t) \in Nat /\ Bound(n, t) <= n
<1>1. Chunk(n) \in Nat /\ NThreads * Chunk(n) <= n
  BY DivFloor, ThreadsAssumption DEF Chunk
<1>2. t * Chunk(n) \in Nat /\ t * Chunk(n) <= NThreads * Chunk(n)
  BY <1>1, ThreadsAssumption
<1> QED BY <1>1, <1>2, ThreadsAssumption DEF Bound

LEMMA BoundMonotone ==
  ASSUME NEW n \in Nat, NEW s \in Nat, NEW t \in Nat, s <= t, t <= NThreads
  PROVE  Bound(n, s) <= Bound(n, t)
<1>1. Chunk(n) \in Nat /\ NThreads * Chunk(n) <= n
  BY DivFloor, ThreadsAssumption DEF Chunk
<1>2. s * Chunk(n) <= t * Chunk(n) /\ t * Chunk(n) <= NThreads * Chunk(n)
  BY <1>1, ThreadsAssumption
<1> QED BY <1>1, <1>2, BoundType, ThreadsAssumption DEF Bound

LEMMA ChunkType ==
  ASSUME NEW n \in Nat, NEW t \in Threads
  PROVE  /\ Bound(n, t - 1) \in Nat /\ Bound(n, t) \in Nat
         /\ Bound(n, t - 1) <= Bound(n, t)
         /\ Bound(n, t) <= n
<1>1. t \in Nat /\ t - 1 \in Nat /\ t <= NThreads /\ t - 1 <= NThreads /\ t - 1 <= t
  BY ThreadsAssumption DEF Threads
<1> QED BY <1>1, BoundType, BoundMonotone

LEMMA OneOwner ==
  ASSUME NEW n \in Nat, NEW s \in Threads, NEW t \in Threads, NEW f,
         In(n, s, f), In(n, t, f)
  PROVE  s = t
<1>1. ASSUME NEW a \in Threads, NEW b \in Threads, a < b, In(n, a, f), In(n, b, f)
      PROVE  FALSE
  <2>1. Bound(n, a) <= Bound(n, b - 1)
    BY <1>1, BoundMonotone, ThreadsAssumption DEF Threads
  <2> QED BY <2>1, <1>1, ChunkType DEF In
<1> QED BY <1>1, ThreadsAssumption DEF Threads

LEMMA SomeOwner ==
  ASSUME NEW n \in Nat, NEW f \in 1..n
  PROVE  \E t \in Threads : In(n, t, f)
<1> DEFINE c == Chunk(n)
<1>1. c \in Nat
  BY DivFloor, ThreadsAssumption DEF Chunk
<1>0. \A t \in Nat : Bound(n, t) = IF t = NThreads THEN n ELSE t * c
  BY DEF Bound
<1> HIDE DEF c
<1>2. CASE (NThreads - 1) * c < f
  BY <1>0, <1>2, ThreadsAssumption DEF In, Threads
<1>3. CASE f <= (NThreads - 1) * c
  <2>1. 1 <= c
    BY <1>1, <1>3, ThreadsAssumption
  <2> DEFINE q == (f - 1) \div c
  <2>2. q \in Nat /\ c * q <= f - 1 /\ f - 1 < c * q + c
    BY <1>1, <2>1, DivFloor
  <2> HIDE DEF q
  <2>3. q < NThreads - 1
    <3>1. c * q < c * (NThreads - 1)
      BY <2>2, <1>3, <1>1, ThreadsAssumption
    <3> QED BY <3>1, <2>1, <2>2, <1>1, ThreadsAssumption
  <2>4. Bound(n, q) = q * c /\ Bound(n, q + 1) = q * c + c
    BY <1>0, <2>2, <2>3, <1>1, ThreadsAssumption
  <2>5. In(n, q + 1, f)
    BY <2>2, <2>4, <1>1 DEF In
  <2>6. q + 1 \in Threads
    BY <2>2, <2>3, ThreadsAssumption DEF Threads
  <2> QED BY <2>5, <2>6
<1> QED BY <1>1, <1>2, <1>3, ThreadsAssumption

-----------------------------------------------------------------------------
(* The steps keep the invariant. *)

LEMMA FilesType == TypeOK => Len(files) \in Nat
BY InputsAssumption DEF TypeOK

LEMMA ChunkNow ==
  ASSUME TypeOK, NEW t \in Threads
  PROVE  /\ Bound(Len(files), t - 1) \in Nat /\ Bound(Len(files), t) \in Nat
         /\ Bound(Len(files), t - 1) <= Bound(Len(files), t)
         /\ Bound(Len(files), t) <= Len(files)
BY FilesType, ChunkType

LEMMA AtNow ==
  ASSUME TypeOK, NEW t \in Threads, pc[t] # "new"
  PROVE  /\ at[t] \in Nat
         /\ Bound(Len(files), t - 1) + 1 <= at[t]
         /\ at[t] <= Bound(Len(files), t) + 1
<1>1. /\ at[t] \in Nat
      /\ at[t] \in (Bound(Len(files), t - 1) + 1)..(Bound(Len(files), t) + 1)
  BY DEF TypeOK
<1>2. Bound(Len(files), t - 1) \in Nat /\ Bound(Len(files), t) \in Nat
  BY ChunkNow
<1> QED BY <1>1, <1>2

\* A thread at work is within its chunk.
LEMMA InChunk ==
  ASSUME TypeOK, NEW t \in Threads, pc[t] # "new", at[t] <= Bound(Len(files), t)
  PROVE  In(Len(files), t, at[t])
BY AtNow, ChunkNow DEF In

LEMMA InitHolds == Init => IInv
<1> SUFFICES ASSUME Init PROVE IInv
    OBVIOUS
<1>1. \A n \in 1..Len(out) : out[n] = <<0, 0>>
  BY OldAssumption DEF Init
<1>2. TypeOK
  <2>1. out \in Seq(Rows)
    BY OldAssumption DEF Init, Rows
  <2> QED BY <2>1, ThreadsAssumption DEF Init, TypeOK, Threads
<1>3. Order /\ Busy /\ Buffer /\ Behind /\ Tip
  BY DEF Init, Order, Busy, Buffer, Behind, Tip, Threads
<1>4. Legit /\ Blocks
  BY <1>1 DEF Init, Legit, Blocks, Old
<1> QED BY <1>2, <1>3, <1>4 DEF IInv

\* Emptying the file loses nothing yet.
LEMMA TruncateKeeps == ASSUME IInv, Truncate PROVE IInv'
<1> USE DEF IInv
<1>1. TypeOK'
  BY ThreadsAssumption DEF Truncate, TypeOK, Threads
<1>2. Order' /\ Busy'
  BY ThreadsAssumption DEF Truncate, Order, Busy, Threads
<1>3. Buffer' /\ Behind' /\ Tip' /\ Legit' /\ Blocks'
  BY DEF Truncate, Order, Buffer, Behind, Tip, Legit, Blocks
<1> QED BY <1>1, <1>2, <1>3

\* A new thread has nothing behind it.
LEMMA SpawnKeeps == ASSUME IInv, Spawn PROVE IInv'
<1> USE DEF IInv
<1> DEFINE t == main.thread
<1>1. /\ t \in Threads /\ main.at = "spawn" /\ pc[t] = "new"
      /\ pc' = [pc EXCEPT ![t] = "loop"]
      /\ at' = [at EXCEPT ![t] = Bound(Len(files), t - 1) + 1]
      /\ UNCHANGED <<files, out, todo, mutex>>
      /\ main' \in [at : {"spawn", "join"}, thread : Threads]
      /\ \/ main'.at = "spawn" /\ main'.thread = t + 1 /\ t # NThreads
         \/ main'.at = "join" /\ main'.thread = 1 /\ t = NThreads
  BY ThreadsAssumption DEF Spawn, TypeOK, Order, Threads
<1>2. /\ Bound(Len(files), t - 1) \in Nat /\ Bound(Len(files), t) \in Nat
      /\ Bound(Len(files), t - 1) <= Bound(Len(files), t)
  BY <1>1, ChunkNow
<1>0. t = main.thread
  OBVIOUS
<1> HIDE DEF t
<1>a. /\ pc'[t] = "loop" /\ at'[t] = Bound(Len(files), t - 1) + 1
      /\ \A s \in Threads : s # t => pc'[s] = pc[s] /\ at'[s] = at[s]
      /\ pc \in [Threads -> {"new", "loop", "append", "write", "done"}]
  BY <1>1 DEF TypeOK
<1>5. TypeOK'
  <2>1. pc' \in [Threads -> {"new", "loop", "append", "write", "done"}]
    BY <1>1 DEF TypeOK
  <2>2. at' \in [Threads -> Nat]
    BY <1>1, <1>2 DEF TypeOK
  <2>3. main' \in [at : {"start", "spawn", "join", "returned", "died"}, thread : Threads]
    BY <1>1
  <2> QED BY <1>1, <1>a, <1>2, <2>1, <2>2, <2>3 DEF TypeOK
<1>6. Order'
  BY <1>0, <1>1, <1>a, ThreadsAssumption DEF Order, Threads
<1>7. Busy'
  BY <1>1, <1>a DEF Busy
<1>8. Buffer'
  BY <1>1, <1>a DEF Buffer
<1>9. Legit'
  BY <1>1, <1>a DEF Legit, Reached
<1>10. Behind'
  BY <1>1, <1>a, <1>2 DEF Behind, In
<1>11. Tip' /\ Blocks'
  BY <1>1, <1>a DEF Tip, Blocks, Old
<1> QED BY <1>5, <1>6, <1>7, <1>8, <1>9, <1>10, <1>11

LEMMA JoinKeeps == ASSUME IInv, Join PROVE IInv'
<1> USE DEF IInv
<1>1. /\ main.at = "join"
      /\ UNCHANGED <<files, out, pc, at, todo, mutex>>
      /\ main' \in [at : {"join", "returned"}, thread : Threads]
  BY ThreadsAssumption DEF Join, TypeOK, Threads
<1>2. TypeOK'
  BY <1>1 DEF TypeOK
<1>3. Order'
  BY ThreadsAssumption DEF Order, Join, TypeOK, Threads
<1>4. Busy' /\ Buffer' /\ Tip' /\ Blocks'
  BY <1>1 DEF Busy, Buffer, Tip, Blocks, Old
<1>5. Legit' /\ Behind'
  BY <1>1 DEF Legit, Behind, Reached
<1> QED BY <1>2, <1>3, <1>4, <1>5

\* A running thread means that main is past the start.
LEMMA Started ==
  ASSUME IInv, NEW t \in Threads, pc[t] # "new"
  PROVE  main.at # "start"
BY DEF IInv, Order

LEMMA ExitKeeps == ASSUME IInv, NEW t \in Threads, Exit(t) PROVE IInv'
<1> USE DEF IInv
<1>1. /\ pc[t] = "loop" /\ pc' = [pc EXCEPT ![t] = "done"]
      /\ at[t] > Bound(Len(files), t)
      /\ UNCHANGED <<files, out, main, at, todo, mutex>>
      /\ pc'[t] = "done" /\ \A s \in Threads : s # t => pc'[s] = pc[s]
  BY DEF Exit, TypeOK
<1>2. at[t] = Bound(Len(files), t) + 1
  BY <1>1, ChunkNow, AtNow
<1>3. TypeOK'
  BY <1>1 DEF TypeOK
<1>4. Order'
  BY <1>1 DEF Order
<1>5. Busy'
  BY <1>1, <1>2 DEF Busy
<1>6. Buffer' /\ Tip' /\ Blocks'
  BY <1>1 DEF Buffer, Tip, Blocks, Old
<1>7. Legit' /\ Behind'
  BY <1>1 DEF Legit, Behind, Reached
<1> QED BY <1>3, <1>4, <1>5, <1>6, <1>7

LEMMA DieKeeps == ASSUME IInv, NEW t \in Threads, Die(t) PROVE IInv'
<1> USE DEF IInv
<1>1. /\ UNCHANGED <<files, out, pc, at, todo, mutex>>
      /\ main' = [at |-> "died", thread |-> t]
  BY DEF Die
<1>2. main.at # "start"
  BY Started DEF Die
<1>3. TypeOK' /\ Order'
  BY <1>1 DEF TypeOK, Order
<1>4. Busy' /\ Buffer' /\ Tip' /\ Blocks' /\ Behind'
  BY <1>1 DEF Busy, Buffer, Tip, Blocks, Old, Behind
<1>5. Legit'
  BY <1>1, <1>2 DEF Legit, Reached
<1> QED BY <1>3, <1>4, <1>5

LEMMA PrepareKeeps == ASSUME IInv, NEW t \in Threads, Prepare(t) PROVE IInv'
<1> USE DEF IInv
<1>1. /\ pc[t] = "loop" /\ pc' = [pc EXCEPT ![t] = "append"]
      /\ at[t] <= Bound(Len(files), t) /\ files[at[t]].parses
      /\ UNCHANGED <<files, out, main, at, mutex>>
      /\ pc'[t] = "append" /\ \A s \in Threads : s # t => pc'[s] = pc[s]
      /\ todo' = [todo EXCEPT ![t] = RowsOf(files[at[t]])]
      /\ todo'[t] = RowsOf(files[at[t]]) /\ \A s \in Threads : s # t => todo'[s] = todo[s]
  BY DEF Prepare, TypeOK
<1>2. RowsOf(files[at[t]]) \subseteq Nat
  BY DEF RowsOf
<1>3. TypeOK'
  BY <1>1, <1>2 DEF TypeOK
<1>4. Order' /\ Busy' /\ Buffer'
  BY <1>1 DEF Order, Busy, Buffer
<1>5. Tip' /\ Blocks'
  BY <1>1 DEF Tip, Blocks, Old
<1>6. Legit' /\ Behind'
  BY <1>1 DEF Legit, Behind, Reached
<1> QED BY <1>3, <1>4, <1>5, <1>6

\* Before its first row is written, a build has none in the file.
LEMMA LockKeeps == ASSUME IInv, NEW t \in Threads, Lock(t) PROVE IInv'
<1> USE DEF IInv
<1>1. /\ pc[t] = "append" /\ pc' = [pc EXCEPT ![t] = "write"]
      /\ mutex = 0 /\ mutex' = t
      /\ UNCHANGED <<files, out, main, at, todo>>
      /\ pc'[t] = "write" /\ \A s \in Threads : s # t => pc'[s] = pc[s]
      /\ \A s \in Threads : s # 0
  BY DEF Lock, TypeOK, Threads
<1>2. TypeOK' /\ Order'
  BY <1>1 DEF TypeOK, Order
<1>3. Busy' /\ Buffer'
  BY <1>1 DEF Busy, Buffer
<1>4. \A n \in 1..Len(out) : out[n][1] # at[t]
  <2> SUFFICES ASSUME NEW n \in 1..Len(out), out[n][1] = at[t] PROVE FALSE
      OBVIOUS
  <2>1. PICK s \in Threads : Reached(s, at[t])
    BY <1>1, Started DEF Legit
  <2>2. In(Len(files), t, at[t])
    BY <1>1, InChunk DEF Busy
  <2>3. s = t
    BY <2>1, <2>2, OneOwner, FilesType DEF Reached
  <2> QED BY <2>1, <2>3, <1>1 DEF Reached, TypeOK
<1>5. Tip' /\ Blocks'
  BY <1>1, <1>4 DEF Tip, Blocks, Old
<1>6. Legit' /\ Behind'
  BY <1>1 DEF Legit, Behind, Reached
<1> QED BY <1>2, <1>3, <1>5, <1>6

LEMMA WriteRowKeeps == ASSUME IInv, NEW t \in Threads, WriteRow(t) PROVE IInv'
<1> USE DEF IInv
<1> DEFINE f == at[t]
<1>1. PICK v \in todo[t] :
        /\ \A u \in todo[t] : v <= u
        /\ out' = Append(out, <<f, v>>)
        /\ todo' = [todo EXCEPT ![t] = @ \ {v}]
  BY DEF WriteRow
<1>2. /\ pc[t] = "write" /\ mutex = t
      /\ UNCHANGED <<files, main, pc, at, mutex>>
      /\ out \in Seq(Rows) /\ f \in Nat /\ v \in Nat
      /\ todo'[t] = todo[t] \ {v} /\ \A s \in Threads : s # t => todo'[s] = todo[s]
      /\ v \in RowsOf(files[f]) /\ files[f].parses
  BY <1>1 DEF WriteRow, TypeOK, Busy, Buffer
<1>a. In(Len(files), t, f)
  BY <1>2, InChunk DEF Busy
<1>3. /\ Len(out) \in Nat /\ Len(out') = Len(out) + 1 /\ out' \in Seq(Rows)
      /\ out'[Len(out) + 1] = <<f, v>>
      /\ \A n \in 1..Len(out) : out'[n] = out[n]
  BY <1>1, <1>2 DEF Rows
<1>4. \A s \in Threads : s # t => pc[s] # "write"
  BY <1>2 DEF Busy
<1>5. main.at # "start"
  BY <1>2, Started
<1> HIDE DEF f
<1>6. \A g, u : Written(out, g, u) => Written(out', g, u)
  BY <1>3 DEF Written
<1>7. Written(out', f, v)
  BY <1>3 DEF Written
<1>8. \A n \in 1..Len(out) : out[n] \in Rows
  BY <1>2
<1>9. f = at[t]
  BY DEF f
<1>10. TypeOK'
  BY <1>1, <1>2, <1>3 DEF TypeOK
<1>11. Order' /\ Busy'
  BY <1>2 DEF Order, Busy
<1>12. Buffer'
  BY <1>2, <1>4, <1>6, <1>7, <1>9 DEF Buffer
<1>13. Behind'
  BY <1>2, <1>6 DEF Behind
<1>14. Legit'
  <2>1. Reached(t, f)
    BY <1>2, <1>9, <1>a DEF Reached
  <2> QED BY <2>1, <1>2, <1>3, <1>5, SMTT(30) DEF Legit, Reached
<1>15. \A n \in 1..Len(out) : out[n][1] = f => out[Len(out)][1] = f /\ out[n][2] < v
  BY <1>1, <1>2, <1>9 DEF Tip
<1>16. Tip'
  <2> SUFFICES ASSUME NEW n \in 1..Len(out'), out'[n][1] = f
               PROVE  /\ out'[Len(out')][1] = f
                      /\ \A u \in todo'[t] : out'[n][2] < u
      BY <1>2, <1>4, <1>9 DEF Tip
  <2>1. \A u \in todo'[t] : v < u /\ u \in Nat
    BY <1>1, <1>2 DEF TypeOK
  <2>2. CASE n = Len(out) + 1
    BY <2>1, <2>2, <1>3
  <2>3. CASE n \in 1..Len(out)
    <3>1. out[n][1] = f /\ out[n][2] < v /\ out[n][2] \in Nat
      BY <2>3, <1>3, <1>8, <1>15 DEF Rows
    <3> QED BY <3>1, <2>1, <2>3, <1>2, <1>3
  <2> QED BY <2>2, <2>3, <1>3
<1>17. Blocks'
  <2> SUFFICES ASSUME NEW m \in 1..Len(out'), NEW n \in 1..Len(out'), m < n,
                      out'[m][1] = out'[n][1], ~Old(out'[m])
               PROVE  /\ out'[m][2] < out'[n][2]
                      /\ \A l \in m..n : out'[l][1] = out'[m][1]
      BY DEF Blocks, Old
  <2>1. m \in 1..Len(out) /\ out'[m] = out[m]
    BY <1>3
  <2>2. CASE n = Len(out) + 1
    <3>1. out[m][1] = f
      BY <2>1, <2>2, <1>3
    <3>2. out[m][2] < v /\ out[Len(out)][1] = f
      BY <2>1, <3>1, <1>15
    <3>3. \A l \in m..Len(out) : out[l][1] = f
      <4>1. CASE m = Len(out)
        BY <4>1, <3>1, <1>3
      <4>2. CASE m < Len(out)
        BY <4>2, <2>1, <3>1, <3>2, <1>3 DEF Blocks
      <4> QED BY <4>1, <4>2, <2>1, <1>3
    <3> QED BY <2>1, <2>2, <3>1, <3>2, <3>3, <1>3
  <2>3. CASE n \in 1..Len(out)
    BY <2>1, <2>3, <1>3 DEF Blocks
  <2> QED BY <2>2, <2>3, <1>3
<1> QED BY <1>10, <1>11, <1>12, <1>13, <1>14, <1>16, <1>17

\* Leaving build f behind: by then its rows are written, or it has none.
LEMMA AdvanceKeeps ==
  ASSUME IInv, NEW t \in Threads, NextFile(t), UNCHANGED <<files, out, main, todo>>,
         at[t] <= Bound(Len(files), t), pc[t] \in {"loop", "write"},
         files[at[t]].parses => \A v \in RowsOf(files[at[t]]) : Written(out, at[t], v),
         pc[t] = "loop" => mutex' = mutex, pc[t] = "write" => mutex' = 0
  PROVE  IInv'
<1> USE DEF IInv
<1>1. /\ at' = [at EXCEPT ![t] = @ + 1] /\ pc' = [pc EXCEPT ![t] = "loop"]
      /\ pc'[t] = "loop" /\ \A s \in Threads : s # t => pc'[s] = pc[s]
      /\ at[t] \in Nat
      /\ at'[t] = at[t] + 1 /\ \A s \in Threads : s # t => at'[s] = at[s]
      /\ \A s \in Threads : s # 0 /\ at[s] \in Nat
  BY SMTT(30) DEF NextFile, TypeOK, Threads
<1>2. TypeOK'
  <2>1. at'[t] \in (Bound(Len(files), t - 1) + 1)..(Bound(Len(files), t) + 1)
    <3>1. /\ Bound(Len(files), t - 1) + 1 <= at[t] /\ at[t] + 1 <= Bound(Len(files), t) + 1
          /\ Bound(Len(files), t - 1) \in Nat /\ Bound(Len(files), t) \in Nat
      BY <1>1, AtNow, ChunkNow
    <3> QED BY <3>1, <1>1
  <2>2. mutex' \in Threads \cup {0}
    BY DEF TypeOK
  <2> QED BY <2>1, <2>2, <1>1 DEF TypeOK
<1>3. Order'
  BY <1>1 DEF Order
<1>4. Busy'
  BY <1>1 DEF Busy
<1>5. Buffer' /\ Tip' /\ Blocks'
  BY <1>1 DEF Buffer, Tip, Blocks, Old
<1>6. Legit'
  <2>1. \A s \in Threads, g \in Nat : Reached(s, g) => Reached(s, g)'
    BY <1>1 DEF Reached
  <2> QED BY <2>1 DEF Legit, Reached, In
<1>7. Behind'
  BY <1>1 DEF Behind
<1> QED BY <1>2, <1>3, <1>4, <1>5, <1>6, <1>7

LEMMA WorkerKeeps == ASSUME IInv, NEW t \in Threads, Worker(t) PROVE IInv'
<1>1. CASE Skip(t)
  BY <1>1, AdvanceKeeps DEF Skip
<1>2. CASE Unlock(t)
  <2>1. files[at[t]].parses => \A v \in RowsOf(files[at[t]]) : Written(out, at[t], v)
    BY <1>2 DEF IInv, Buffer, Unlock
  <2> QED BY <1>2, <2>1, AdvanceKeeps DEF Unlock, IInv, Busy
<1> QED BY <1>1, <1>2, ExitKeeps, DieKeeps, PrepareKeeps, LockKeeps, WriteRowKeeps
        DEF Worker

LEMMA NextHolds == IInv /\ [Next]_vars => IInv'
<1>1. IInv /\ Next => IInv'
  BY TruncateKeeps, SpawnKeeps, JoinKeeps, WorkerKeeps DEF Next, Main
<1>2. IInv /\ UNCHANGED vars => IInv'
  BY DEF vars, IInv, TypeOK, Order, Busy, Buffer, Legit, Behind, Tip, Blocks,
         Old, Reached
<1> QED BY <1>1, <1>2

LEMMA Invariance == Spec => []IInv
BY InitHolds, NextHolds, PTL DEF Spec

\* Threads stay within their chunks; the other parts have their types.
THEOREM TypeCorrect == Spec => []TypeOK
<1>1. IInv => TypeOK
  BY DEF IInv
<1> QED BY <1>1, Invariance, PTL

\* The rows of a build are written once, in order and unmixed.
THEOREM BlocksAlways == Spec => []Blocks
<1>1. IInv => Blocks
  BY DEF IInv
<1> QED BY <1>1, Invariance, PTL

\* When writeTrainingData returns, the file holds the wanted rows and no
\* others: every thread is done (Order, Busy), so all of its chunk is behind
\* it (Behind), and every file is in a chunk (SomeOwner).
THEOREM CompleteAlways == Spec => []Complete
<1>1. IInv => Complete
  <2> SUFFICES ASSUME IInv, main.at = "returned" PROVE Complete
      BY DEF Complete
  <2> USE DEF IInv
  <2>1. \A t \in Threads : pc[t] = "done" /\ at[t] = Bound(Len(files), t) + 1
    BY DEF Order, Busy
  <2>2. Len(files) \in Nat
    BY FilesType
  <2>3. ASSUME NEW n \in 1..Len(out)
        PROVE  \E f \in 1..Len(files) : \E v \in RowsOf(files[f]) :
                 files[f].parses /\ out[n] = <<f, v>>
    <3>1. out[n] \in Rows
      BY DEF TypeOK
    <3>2. /\ out[n][2] \in RowsOf(files[out[n][1]])
          /\ files[out[n][1]].parses
          /\ \E t \in Threads : In(Len(files), t, out[n][1])
      BY DEF Legit, Reached
    <3>3. out[n][1] \in 1..Len(files)
      BY <3>1, <3>2, <2>2, ChunkNow DEF In, Rows
    <3>4. out[n] = <<out[n][1], out[n][2]>>
      BY <3>1 DEF Rows
    <3> QED BY <3>2, <3>3, <3>4
  <2>4. ASSUME NEW f \in 1..Len(files), NEW v \in RowsOf(files[f]), files[f].parses
        PROVE  \E n \in 1..Len(out) : out[n] = <<f, v>>
    <3>1. PICK t \in Threads : In(Len(files), t, f)
      BY <2>2, SomeOwner
    <3>2. f < at[t] /\ f \in Nat
      BY <2>1, <2>2, <3>1, ChunkNow DEF In
    <3> QED BY <2>1, <2>4, <3>1, <3>2 DEF Behind, Written
  <2> QED BY <2>3, <2>4 DEF Complete
<1> QED BY <1>1, Invariance, PTL
=============================================================================
