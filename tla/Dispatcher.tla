---------------------------- MODULE Dispatcher ---------------------------
(***************************************************************************)
(* The queue of deferred callbacks (src/core/Dispatch.h).  Any thread      *)
(* posts a closure; EOS_Platform_Tick drains the queue on the game's       *)
(* thread, which is the one place where callbacks of the game run.  The    *)
(* operators below are conjuncts of the actions of the modules that        *)
(* extend this one; each is one critical section of Mutex_.                *)
(***************************************************************************)
EXTENDS Integers, Sequences, FiniteSets, SequencesExt

VARIABLES
  pending,    \* Pending_
  delayed,    \* Delayed_: closures with the time until they are due
  ready,      \* Ready, the local batch of the Drain on the stack
  draining    \* Drain is on the stack

dispatchVars == <<pending, delayed, ready, draining>>

DispatcherInit ==
  /\ pending = <<>> /\ delayed = <<>> /\ ready = <<>> /\ draining = FALSE

\* One Post for each element of works.
Post(works) == pending' = pending \o works

PostAfter(delay, work) == delayed' = Append(delayed, [wait |-> delay, work |-> work])

\* The places of Delayed_ whose time has come.
Due == {i \in DOMAIN delayed : delayed[i].wait = 0}

\* The k-th place of I, and the elements of ds at the places of I: in the order
\* of the list, as the scan of Drain takes them out or leaves them.
Place(I, k) == CHOOSE i \in I : Cardinality({j \in I : j <= i}) = k
Picked(ds, I) == [k \in 1 .. Cardinality(I) |-> ds[Place(I, k)]]

Works(ds) == [i \in DOMAIN ds |-> ds[i].work]

\* The swap and the scan of Delayed_ happen under one lock.
MutDrainDueFirst ==
  /\ ~draining
  /\ draining' = TRUE
  /\ ready' = Works(Picked(delayed, Due)) \o pending
  /\ pending' = <<>>
  /\ delayed' = Picked(delayed, DOMAIN delayed \ Due)

Drain ==
  /\ ~draining
  /\ draining' = TRUE
  /\ ready' = pending \o Works(Picked(delayed, Due))
  /\ pending' = <<>>
  /\ delayed' = Picked(delayed, DOMAIN delayed \ Due)

\* A closure of the batch runs; what it posts waits in Pending_.
Work(posted) ==
  /\ draining /\ ready # <<>>
  /\ ready' = Tail(ready)
  /\ Post(posted)
  /\ UNCHANGED <<delayed, draining>>

DrainReturns ==
  /\ draining /\ ready = <<>>
  /\ draining' = FALSE
  /\ UNCHANGED <<pending, delayed, ready>>

\* The dispatcher is destroyed with its platform.
Discarded ==
  /\ ~draining
  /\ pending' = <<>> /\ delayed' = <<>>
  /\ UNCHANGED <<ready, draining>>

\* The closures that will run, in the order in which they will.
Line == ready \o pending

\* Dispatch.h:49, "Runs due closures on the calling thread, in FIFO order":
\* a closure that is due is in one line with all others, whichever thread
\* posted it and whatever the callbacks before it post.
Queue == INSTANCE TaskQueue WITH queue <- Line
FIFO == Queue!QSpec

\* Time passes for the delayed closures.
Elapsed == [i \in DOMAIN delayed |->
              [delayed[i] EXCEPT !.wait = IF @ > 0 THEN @ - 1 ELSE 0]]
==========================================================================
