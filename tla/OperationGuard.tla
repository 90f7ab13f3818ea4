---------------------------- MODULE OperationGuard ----------------------------
(***************************************************************************)
(* OperationGuardService: one asyncio.Lock per logical key, and run_many,  *)
(* which takes the locks of a set of keys in sorted order, runs a function *)
(* and releases the locks.                                                 *)
(*                                                                         *)
(* Keys are strings such as "wallet:17"; only their sorting order matters, *)
(* so a key is an integer here and <= is the order of sorted().  A lock is *)
(* an asyncio.Lock: it has a holder, read off `got', and a FIFO of waiting *)
(* coroutines.  Releasing it does not hand it over: it wakes the first     *)
(* waiter, and until that one has run a newcomer finds the lock free but   *)
(* queues all the same.  The registry of locks creates one at its first    *)
(* use and never drops it, so every key is given its lock from the start.  *)
(***************************************************************************)
EXTENDS Integers, Sequences

CONSTANTS Callers,   \* the coroutines that call the guard
          Keys       \* the logical keys, ordered as sorted() orders them

ASSUME KeysAreOrdered == Keys \subseteq Int

VARIABLES phase,     \* phase[c]: "idle", "acquiring" (in the loop over the locks) or "running"
          need,      \* need[c]: the normalized keys of c's call ({} while idle)
          got,       \* got[c]: the locks c holds
          waiters    \* waiters[k]: the coroutines waiting on k's lock, first come first

vars == <<phase, need, got, waiters>>

TypeOK == /\ phase \in [Callers -> {"idle", "acquiring", "running"}]
          /\ need \in [Callers -> SUBSET Keys]
          /\ got \in [Callers -> SUBSET Keys]
          /\ waiters \in [Keys -> Seq(Callers)]

\* A registry read by key before the first use of a key has put its lock there.
InitEmptyRegistry == /\ phase = [c \in Callers |-> "idle"]
                     /\ need = [c \in Callers |-> {}]
                     /\ got = [c \in Callers |-> {}]
                     /\ waiters = <<>>

Init == /\ phase = [c \in Callers |-> "idle"]
        /\ need = [c \in Callers |-> {}]
        /\ got = [c \in Callers |-> {}]
        /\ waiters = [k \in Keys |-> <<>>]

\* The function run after the locks are released again instead of under them.
LockedWhileAcquiring(k) == \E c \in Callers : phase[c] = "acquiring" /\ k \in got[c]

Locked(k) == \E c \in Callers : k \in got[c]

Queued(c) == \E k \in Keys : \E i \in 1..Len(waiters[k]) : waiters[k][i] = c

\* Without sorted(): the loop takes the locks in whatever order the caller named them.
AnyNext(c, k) == k \in need[c] \ got[c]

\* k is the lock the loop of c takes next: the least of those it still lacks.
IsNext(c, k) == /\ k \in need[c] \ got[c]
                /\ \A j \in need[c] \ got[c] : k <= j

\* c has k now; with its last lock its function starts.
Take(c, k) ==
    /\ got' = [got EXCEPT ![c] = @ \cup {k}]
    /\ phase' = [phase EXCEPT ![c] = IF need[c] \subseteq got[c] \cup {k}
                                     THEN "running" ELSE "acquiring"]
    /\ UNCHANGED need

\* run_many is called: keys are normalized into a set; without one the function
\* runs at once, under no lock.
Enter(c, K) ==
    /\ phase[c] = "idle"
    /\ phase' = [phase EXCEPT ![c] = IF K = {} THEN "running" ELSE "acquiring"]
    /\ need' = [need EXCEPT ![c] = K]
    /\ UNCHANGED <<got, waiters>>

\* lock.acquire() on a free lock nobody waits for.
Acquire(c) ==
    /\ phase[c] = "acquiring"
    /\ \E k \in Keys : /\ IsNext(c, k)
                       /\ ~Locked(k)
                       /\ waiters[k] = <<>>
                       /\ Take(c, k)
    /\ UNCHANGED waiters

\* lock.acquire() on a lock that is held, or that somebody already waits for.
Enqueue(c) ==
    /\ phase[c] = "acquiring"
    /\ ~Queued(c)
    /\ \E k \in Keys : /\ IsNext(c, k)
                       /\ Locked(k) \/ waiters[k] # <<>>
                       /\ waiters' = [waiters EXCEPT ![k] = Append(@, c)]
    /\ UNCHANGED <<phase, need, got>>

\* A waiter that runs on without the lock having been released.
WakeUnchecked(c) ==
    /\ phase[c] = "acquiring"
    /\ \E k \in Keys : /\ IsNext(c, k)
                       /\ waiters[k] # <<>>
                       /\ Head(waiters[k]) = c
                       /\ Take(c, k)
                       /\ waiters' = [waiters EXCEPT ![k] = Tail(@)]

\* The first waiter of a released lock runs again and has it.
Wake(c) ==
    /\ phase[c] = "acquiring"
    /\ \E k \in Keys : /\ IsNext(c, k)
                       /\ ~Locked(k)
                       /\ waiters[k] # <<>>
                       /\ Head(waiters[k]) = c
                       /\ Take(c, k)
                       /\ waiters' = [waiters EXCEPT ![k] = Tail(@)]

\* Releasing in the normal path only: an exception leaves the locks taken.
LeaveWithoutFinally(c) ==
    /\ phase[c] = "running"
    /\ phase' = [phase EXCEPT ![c] = "idle"]
    /\ need' = [need EXCEPT ![c] = {}]
    /\ \E raised \in BOOLEAN : got' = IF raised THEN got ELSE [got EXCEPT ![c] = {}]
    /\ UNCHANGED waiters

\* The function returned or raised: the finally block releases every lock.
Leave(c) ==
    /\ phase[c] = "running"
    /\ phase' = [phase EXCEPT ![c] = "idle"]
    /\ need' = [need EXCEPT ![c] = {}]
    /\ got' = [got EXCEPT ![c] = {}]
    /\ UNCHANGED waiters

Next == \E c \in Callers : \/ \E K \in SUBSET Keys : Enter(c, K)
                           \/ Acquire(c)
                           \/ Enqueue(c)
                           \/ Wake(c)
                           \/ Leave(c)

Spec == Init /\ [][Next]_vars

\* The event loop runs every ready coroutine, and the guarded functions end:
\* they await SQLite, whose calls return.
Fairness == \A c \in Callers : /\ WF_vars(Acquire(c) \/ Enqueue(c) \/ Wake(c))
                               /\ WF_vars(Leave(c))

FairSpec == Spec /\ Fairness
-------------------------------------------------------------------------------
\* Functions that run at the same time have no key in common: what the guard is for.
MutualExclusion ==
    \A c, d \in Callers :
        (c # d /\ phase[c] = "running" /\ phase[d] = "running") => need[c] \cap need[d] = {}

\* Whoever waits for a lock waits for a greater one than any it holds, so the one
\* that holds the lock waited for, if it waits too, waits for a still greater one:
\* waiting never goes round in a circle, which is why run_many sorts the keys.
WaitingClimbs ==
    \A c, d \in Callers : \A j, k \in Keys :
        (IsNext(c, k) /\ k \in got[d] /\ IsNext(d, j)) => k < j

\* Every caller gets to run its function: no deadlock, and no starvation by the
\* callers that come after it.
EveryCallerRuns ==
    \A c \in Callers : (phase[c] = "acquiring") ~> (phase[c] = "running")

\* The guard keeps the promise of Serializer.
Promise == INSTANCE Serializer WITH
               claim <- need,
               stage <- [c \in Callers |-> IF phase[c] = "idle" THEN "out"
                                           ELSE IF phase[c] = "running" THEN "inside"
                                           ELSE "waiting"]

KeepsPromise == Promise!Spec
===============================================================================
