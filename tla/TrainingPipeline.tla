-------------------------- MODULE TrainingPipeline --------------------------
(***************************************************************************)
(* writeTrainingData (loadCharacter.cpp): eight threads turn the builds of *)
(* a directory into rows of training data.  Each thread has a chunk of the *)
(* list of files and appends to the same output file, under a mutex.       *)
(*                                                                         *)
(* A build is represented by what happens to it: its JSON does not parse,  *)
(* an exception escapes while its variants are made, or it has variants,   *)
(* some of them with an impossible (NaN or infinite) value.  A row is      *)
(* represented by its file and variant number.                             *)
(***************************************************************************)
EXTENDS Integers, Sequences, FiniteSets

CONSTANTS
  NThreads,  \* threads, one chunk each (8)
  Inputs,    \* the directories to consider, as sequences of builds
  OldOutput  \* what an earlier run left in the output file

\* parses: the constructor returns.  throws: prepareData does not.
\* possible: which variants consist of finite values.
BuildType == [parses : BOOLEAN, throws : BOOLEAN, possible : Seq(BOOLEAN)]

ASSUME ThreadsAssumption == NThreads \in Nat /\ 1 <= NThreads
ASSUME InputsAssumption == Inputs \subseteq Seq(BuildType)
ASSUME OldAssumption == OldOutput \in Seq({0} \X {0})

Threads == 1..NThreads

VARIABLES
  files,   \* the builds, in the order of the directory iterator
  out,     \* rows in the output file
  main,    \* where writeTrainingData is
  pc,      \* where each thread is
  at,      \* index of its file
  todo,    \* variants in its buffer not written yet
  mutex    \* holder of the mutex, 0 for none
vars == <<files, out, main, pc, at, todo, mutex>>

\* Files per thread, of n files.
Chunk(n) == n \div NThreads

\* Mutant: the last chunk is as long as the others.
BoundTruncates(n, t) == t * Chunk(n)

\* The chunk of thread t goes from Bound(n, t-1) + 1 to Bound(n, t); the last
\* one takes what the division leaves.
Bound(n, t) == IF t = NThreads THEN n ELSE t * Chunk(n)

\* The variants of a build that are worth a row.
RowsOf(build) == {v \in 1..Len(build.possible) : build.possible[v]}

Init == /\ files \in Inputs
        /\ out = OldOutput
        /\ main = [at |-> "start", thread |-> 1]
        /\ pc = [t \in Threads |-> "new"]
        /\ at = [t \in Threads |-> 0]
        /\ todo = [t \in Threads |-> {}]
        /\ mutex = 0

\* The caches are warm: the output file is emptied.
Truncate == /\ main.at = "start"
            /\ out' = << >>
            /\ main' = [at |-> "spawn", thread |-> 1]
            /\ UNCHANGED <<files, pc, at, todo, mutex>>

\* Mutant: a chunk begins with the last file of the one before.
SpawnOverlaps == LET t == main.thread
                 IN /\ main.at = "spawn"
                    /\ pc' = [pc EXCEPT ![t] = "loop"]
                    /\ at' = [at EXCEPT ![t] = IF Bound(Len(files), t - 1) = 0 THEN 1 ELSE Bound(Len(files), t - 1)]
                    /\ main' = IF t = NThreads THEN [at |-> "join", thread |-> 1]
                                               ELSE [at |-> "spawn", thread |-> t + 1]
                    /\ UNCHANGED <<files, out, todo, mutex>>

\* The threads are started one after the other, and run from then on.
Spawn == LET t == main.thread
         IN /\ main.at = "spawn"
            /\ pc' = [pc EXCEPT ![t] = "loop"]
            /\ at' = [at EXCEPT ![t] = Bound(Len(files), t - 1) + 1]
            /\ main' = IF t = NThreads THEN [at |-> "join", thread |-> 1]
                                       ELSE [at |-> "spawn", thread |-> t + 1]
            /\ UNCHANGED <<files, out, todo, mutex>>

\* Mutant: main joins all threads but the last.
JoinFewer == LET t == main.thread
             IN /\ main.at = "join"
                /\ t < NThreads => pc[t] = "done"
                /\ main' = IF t = NThreads THEN [at |-> "returned", thread |-> 1]
                                           ELSE [at |-> "join", thread |-> t + 1]
                /\ UNCHANGED <<files, out, pc, at, todo, mutex>>

\* They are joined in the same order.
Join == LET t == main.thread
        IN /\ main.at = "join"
           /\ pc[t] = "done"
           /\ main' = IF t = NThreads THEN [at |-> "returned", thread |-> 1]
                                      ELSE [at |-> "join", thread |-> t + 1]
           /\ UNCHANGED <<files, out, pc, at, todo, mutex>>

Running == main.at # "died"

NextFile(t) == /\ at' = [at EXCEPT ![t] = @ + 1]
               /\ pc' = [pc EXCEPT ![t] = "loop"]

\* The loop of threadFunction ends.
Exit(t) == /\ Running
           /\ pc[t] = "loop"
           /\ at[t] > Bound(Len(files), t)
           /\ pc' = [pc EXCEPT ![t] = "done"]
           /\ UNCHANGED <<files, out, main, at, todo, mutex>>

\* Mutant: a build that does not parse ends its thread.
SkipLeaves(t) == /\ Running
                 /\ pc[t] = "loop"
                 /\ at[t] <= Bound(Len(files), t)
                 /\ ~files[at[t]].parses
                 /\ pc' = [pc EXCEPT ![t] = "done"]
                 /\ UNCHANGED <<files, out, main, at, todo, mutex>>

\* The constructor throws: the build is skipped.
Skip(t) == /\ Running
           /\ pc[t] = "loop"
           /\ at[t] <= Bound(Len(files), t)
           /\ ~files[at[t]].parses
           /\ NextFile(t)
           /\ UNCHANGED <<files, out, main, todo, mutex>>

\* An exception in prepareData leaves the thread: std::terminate.
Die(t) == /\ Running
          /\ pc[t] = "loop"
          /\ at[t] <= Bound(Len(files), t)
          /\ files[at[t]].parses
          /\ files[at[t]].throws
          /\ main' = [at |-> "died", thread |-> t]
          /\ UNCHANGED <<files, out, pc, at, todo, mutex>>

\* The variants are made, and their rows buffered, outside the lock.
Prepare(t) == /\ Running
              /\ pc[t] = "loop"
              /\ at[t] <= Bound(Len(files), t)
              /\ files[at[t]].parses
              /\ ~files[at[t]].throws
              /\ todo' = [todo EXCEPT ![t] = RowsOf(files[at[t]])]
              /\ pc' = [pc EXCEPT ![t] = "append"]
              /\ UNCHANGED <<files, out, main, at, mutex>>

\* Mutant: the mutex is not taken.
LockNot(t) == /\ Running
              /\ pc[t] = "append"
              /\ pc' = [pc EXCEPT ![t] = "write"]
              /\ UNCHANGED <<files, out, main, at, todo, mutex>>

Lock(t) == /\ Running
           /\ pc[t] = "append"
           /\ mutex = 0
           /\ mutex' = t
           /\ pc' = [pc EXCEPT ![t] = "write"]
           /\ UNCHANGED <<files, out, main, at, todo>>

\* The stream hands the buffer to the file in several writes.
WriteRow(t) == /\ Running
               /\ pc[t] = "write"
               /\ \E v \in todo[t] :
                    /\ \A u \in todo[t] : v <= u
                    /\ out' = Append(out, <<at[t], v>>)
                    /\ todo' = [todo EXCEPT ![t] = @ \ {v}]
               /\ UNCHANGED <<files, main, pc, at, mutex>>

\* Mutant: the mutex stays locked.
UnlockNot(t) == /\ Running
                /\ pc[t] = "write"
                /\ todo[t] = {}
                /\ NextFile(t)
                /\ UNCHANGED <<files, out, main, todo, mutex>>

\* The stream is closed before the lock is released.
Unlock(t) == /\ Running
             /\ pc[t] = "write"
             /\ todo[t] = {}
             /\ mutex' = 0
             /\ NextFile(t)
             /\ UNCHANGED <<files, out, main, todo>>

Worker(t) == \/ Exit(t) \/ Skip(t) \/ Die(t) \/ Prepare(t)
             \/ Lock(t) \/ WriteRow(t) \/ Unlock(t)

Main == Truncate \/ Spawn \/ Join

Next == Main \/ \E t \in Threads : Worker(t)

\* The scheduler runs every thread that is not blocked.  There are finitely
\* many appends, so no thread needs more to get the mutex.
Fairness == WF_vars(Main) /\ \A t \in Threads : WF_vars(Worker(t))

Spec == Init /\ [][Next]_vars
LiveSpec == Spec /\ Fairness

-----------------------------------------------------------------------------
(* Properties *)

Rows == Nat \X Nat

\* Type invariant.  A thread stays within its chunk.
TypeOK == /\ files \in Inputs
          /\ out \in Seq(Rows)
          /\ main \in [at : {"start", "spawn", "join", "returned", "died"},
                       thread : Threads]
          /\ pc \in [Threads -> {"new", "loop", "append", "write", "done"}]
          /\ at \in [Threads -> Nat]
          /\ \A t \in Threads :
               pc[t] # "new" => at[t] \in (Bound(Len(files), t - 1) + 1)..(Bound(Len(files), t) + 1)
          /\ todo \in [Threads -> SUBSET Nat]
          /\ mutex \in Threads \cup {0}

\* A row that an earlier run left behind.
Old(r) == r = <<0, 0>>

\* The rows of a build are next to each other, in order and each only once:
\* no build is taken by two threads, and their appends do not mix.
Blocks ==
  \A m, n \in 1..Len(out) :
    m < n /\ out[m][1] = out[n][1] /\ ~Old(out[m]) =>
      /\ out[m][2] < out[n][2]
      /\ \A l \in m..n : out[l][1] = out[m][1]

\* When writeTrainingData returns, the file holds the rows of every build that
\* parses, and nothing else: nothing of an earlier run, no impossible row, and
\* no build lost to one that does not parse or between two chunks.
Complete ==
  main.at = "returned" =>
    /\ \A n \in 1..Len(out) :
         \E f \in 1..Len(files) : \E v \in RowsOf(files[f]) :
           files[f].parses /\ out[n] = <<f, v>>
    /\ \A f \in 1..Len(files) : \A v \in RowsOf(files[f]) :
         files[f].parses => \E n \in 1..Len(out) : out[n] = <<f, v>>

\* writeTrainingData returns, unless an exception ends the program: a thread
\* that skips builds, or waits for the others, is joined in the end.
Ends == <>(main.at \in {"returned", "died"})
=============================================================================
