----------------------------- MODULE MonteCarlo -----------------------------
(***************************************************************************)
(* sem_4/homework: an integral by random points.  The region is cut into a *)
(* square grid, a thread draws the points of each cell and adds those that *)
(* lie below the curve to a counter that the threads share.  A thread that *)
(* cannot be bound to the processor with its own number gives up, and the  *)
(* result lacks its points.                                                *)
(***************************************************************************)
EXTENDS Integers, FiniteSets, Functions

CONSTANTS
  Entered,        \* what the user may enter as the root of the number of threads
  TOTAL_POINTS,
  MaxCores        \* bound of the model: processors of the machine

VARIABLES
  mpc,            \* where the main thread is
  num_threads_sqrt,
  num_cores,      \* of the machine
  threads,        \* the threads created: where each is, its err, its local count, the counter it has read
  mutex,          \* the thread that holds the mutex, or -1
  counter         \* shared.counter

vars == <<mpc, num_threads_sqrt, num_cores, threads, mutex, counter>>

NoNumber == 0 - 1000      \* the user enters no number
EINVAL   == 22            \* the kernel does not let the process use that processor

num_threads == num_threads_sqrt * num_threads_sqrt

points_per_thread == TOTAL_POINTS \div num_threads

Init ==
  /\ mpc = "enter" /\ num_threads_sqrt \in Entered
  /\ num_cores \in 1..MaxCores
  /\ threads = <<>> /\ mutex = -1 /\ counter = 0

\* For 0 the division by num_threads ends the program.
Enter ==
  /\ mpc = "enter"
  /\ mpc' = IF num_threads_sqrt = NoNumber THEN "refused"
            ELSE IF num_threads_sqrt = 0 THEN "crashed" ELSE "create"
  /\ UNCHANGED <<num_threads_sqrt, num_cores, threads, mutex, counter>>

Created == Cardinality(DOMAIN threads)

assigned_core_FromOne(i) == i + 1      \* a variant: k++ comes first

assigned_core(i) == i

\* The two loops are empty for a negative number.
CreateThread ==
  /\ mpc = "create"
  /\ Created < num_threads /\ num_threads_sqrt > 0
  /\ threads' = [i \in 0..Created |->
       IF i = Created THEN [at |-> "bind", core |-> assigned_core(i), err |-> 0, local |-> 0, read |-> 0] ELSE threads[i]]
  /\ UNCHANGED <<mpc, num_threads_sqrt, num_cores, mutex, counter>>

AllCreated ==
  /\ mpc = "create" /\ mpc' = "join"
  /\ Created = num_threads \/ num_threads_sqrt < 0
  /\ UNCHANGED <<num_threads_sqrt, num_cores, threads, mutex, counter>>

Step(i, from, to) == threads[i].at = from /\ threads' = [threads EXCEPT ![i].at = to]

\* The processors online need not be 0..num_cores - 1, nor all be in the cpuset of
\* the process: pthread_setaffinity_np() may refuse any of them.
set_this_thread_to_core(i) ==
  /\ threads[i].at = "bind"
  /\ \E err \in IF threads[i].core < num_cores THEN {0, EINVAL} ELSE {-1} :
       threads' = [threads EXCEPT ![i].at = IF err = 0 THEN "draw" ELSE "ended", ![i].err = err]
  /\ UNCHANGED <<mpc, num_threads_sqrt, num_cores, mutex, counter>>

Draw(i) ==
  /\ threads[i].at = "draw"
  /\ \E n \in 0..points_per_thread : threads' = [threads EXCEPT ![i].at = "lock", ![i].local = n]
  /\ UNCHANGED <<mpc, num_threads_sqrt, num_cores, mutex, counter>>

Lock_Missing(i) ==      \* a variant
  /\ Step(i, "lock", "read") /\ UNCHANGED <<mpc, num_threads_sqrt, num_cores, mutex, counter>>

Lock(i) ==
  /\ Step(i, "lock", "read")
  /\ mutex = -1 /\ mutex' = i
  /\ UNCHANGED <<mpc, num_threads_sqrt, num_cores, counter>>

\* counter += local_count, which reads and writes.
Load(i) ==
  /\ threads[i].at = "read"
  /\ threads' = [threads EXCEPT ![i].at = "write", ![i].read = counter]
  /\ UNCHANGED <<mpc, num_threads_sqrt, num_cores, mutex, counter>>

Store(i) ==
  /\ Step(i, "write", "unlock")
  /\ counter' = threads[i].read + threads[i].local
  /\ UNCHANGED <<mpc, num_threads_sqrt, num_cores, mutex>>

Unlock(i) ==
  /\ Step(i, "unlock", "ended")
  /\ mutex' = -1
  /\ UNCHANGED <<mpc, num_threads_sqrt, num_cores, counter>>

\* pthread_join() of each thread in turn; for a negative number the handles are
\* those of no thread.
Join ==
  /\ mpc = "join"
  /\ \A i \in DOMAIN threads : threads[i].at = "ended"
  /\ mpc' = IF num_threads_sqrt < 0 THEN "crashed" ELSE "done"
  /\ UNCHANGED <<num_threads_sqrt, num_cores, threads, mutex, counter>>

Main == Enter \/ CreateThread \/ AllCreated \/ Join

MonteCarloThread(i) ==
  set_this_thread_to_core(i) \/ Draw(i) \/ Lock(i) \/ Load(i) \/ Store(i) \/ Unlock(i)

Next == Main \/ \E i \in DOMAIN threads : MonteCarloThread(i)

-----------------------------------------------------------------------------
(* Properties. *)

\* No update of the counter is lost: it is the sum of what the threads that have
\* written it have counted.
CounterIsSum ==
  counter = FoldFunction(+, 0, [i \in {j \in DOMAIN threads : threads[j].at \in {"unlock", "ended"}} |-> threads[i].local])

ThreadsWith(errors) == {i \in DOMAIN threads : threads[i].err \in errors}
Drawn == Cardinality(ThreadsWith({0})) * points_per_thread

\* The result divides by TOTAL_POINTS.  With at most as many threads as processors
\* it lacks the share of each thread that the kernel has refused its processor, and
\* beyond that fewer points than there are threads.
NearlyAllDrawn ==
  mpc = "done" /\ num_threads <= num_cores =>
    LET refused == Cardinality(ThreadsWith({EINVAL})) * points_per_thread IN
    Drawn + refused <= TOTAL_POINTS /\ TOTAL_POINTS - Drawn - refused < num_threads

\* The program ends.
Ended == mpc \in {"refused", "crashed", "done"}

=============================================================================
