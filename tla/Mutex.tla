-------------------------------- MODULE Mutex --------------------------------
(***************************************************************************)
(* The mutex of libopencm3 (lib/cm3/sync.c) on one Cortex-M3 core, used by *)
(* threads that a scheduler interrupts between any two instructions.       *)
(*                                                                         *)
(* The core has one exclusive monitor: ldrex opens it, strex succeeds only *)
(* while it is open and closes it, and so does every exception, through    *)
(* which every switch from a thread to another goes.  A plain store, like  *)
(* the one of mutex_unlock, leaves it alone.                               *)
(***************************************************************************)

CONSTANTS Thread

ASSUME ThreadAssumption == Thread # {}

VARIABLES
    word,     \* *m
    monitor,  \* the exclusive monitor is open
    running,  \* the thread on the core
    pc,       \* per thread: out, ldrex, strex, dmb (of mutex_trylock) or in
    status,   \* per thread: mutex_trylock's local
    loops     \* per thread: mutex_trylock was called from mutex_lock's loop

vars == <<word, monitor, running, pc, status, loops>>

TypeOK ==
    /\ word \in {"UNLOCKED", "LOCKED"}
    /\ monitor \in BOOLEAN
    /\ running \in Thread
    /\ pc \in [ Thread -> {"out", "ldrex", "strex", "dmb", "in"} ]
    /\ status \in [ Thread -> {0, 1} ]
    /\ loops \in [ Thread -> BOOLEAN ]

Init ==
    /\ word = "UNLOCKED" /\ monitor = FALSE
    /\ running \in Thread
    /\ pc = [ t \in Thread |-> "out" ]
    /\ status = [ t \in Thread |-> 1 ]
    /\ loops = [ t \in Thread |-> FALSE ]

-----------------------------------------------------------------------------
(* mutex_lock or mutex_trylock is called *)
Call(t) ==
    /\ running = t /\ pc[t] = "out"
    /\ \E l \in BOOLEAN : loops' = [loops EXCEPT ![t] = l]
    /\ status' = [status EXCEPT ![t] = 1]
    /\ pc' = [pc EXCEPT ![t] = "ldrex"]
    /\ UNCHANGED <<word, monitor, running>>

Ldrex(t) ==
    /\ running = t /\ pc[t] = "ldrex"
    /\ monitor' = TRUE
    /\ pc' = [pc EXCEPT ![t] = IF word = "UNLOCKED" THEN "strex" ELSE "dmb"]
    /\ UNCHANGED <<word, running, status, loops>>

(* A faulty variant that stores without looking at the monitor. *)
StrexPlain(t) ==
    /\ running = t /\ pc[t] = "strex"
    /\ word' = "LOCKED" /\ status' = [status EXCEPT ![t] = 0]
    /\ monitor' = FALSE
    /\ pc' = [pc EXCEPT ![t] = "dmb"]
    /\ UNCHANGED <<running, loops>>

Strex(t) ==
    /\ running = t /\ pc[t] = "strex"
    /\ IF monitor
       THEN word' = "LOCKED" /\ status' = [status EXCEPT ![t] = 0]
       ELSE word' = word     /\ status' = [status EXCEPT ![t] = 1]
    /\ monitor' = FALSE
    /\ pc' = [pc EXCEPT ![t] = "dmb"]
    /\ UNCHANGED <<running, loops>>

(* A faulty variant in which a trylock never reports success. *)
ReturnFailure(t) ==
    /\ running = t /\ pc[t] = "dmb"
    /\ pc' = [pc EXCEPT ![t] = IF ~loops[t] THEN "out"
                               ELSE IF status[t] = 0 THEN "in" ELSE "ldrex"]
    /\ status' = [status EXCEPT ![t] = 1]
    /\ UNCHANGED <<word, monitor, running, loops>>

(* A faulty variant in which a failed store is tried again without a load. *)
ReturnToStrex(t) ==
    /\ running = t /\ pc[t] = "dmb"
    /\ pc' = [pc EXCEPT ![t] = IF status[t] = 0 THEN "in"
                               ELSE IF ~loops[t] THEN "out"
                               ELSE IF word = "UNLOCKED" THEN "strex" ELSE "ldrex"]
    /\ status' = [status EXCEPT ![t] = 1]
    /\ UNCHANGED <<word, monitor, running, loops>>

(* mutex_trylock returns; mutex_lock calls it again unless it succeeded. *)
Return(t) ==
    /\ running = t /\ pc[t] = "dmb"
    /\ pc' = [pc EXCEPT ![t] = IF status[t] = 0 THEN "in"
                               ELSE IF loops[t] THEN "ldrex" ELSE "out"]
    /\ status' = [status EXCEPT ![t] = 1]
    /\ UNCHANGED <<word, monitor, running, loops>>

(* A faulty variant of the next one, that stores something else. *)
UnlockOther(t) ==
    /\ running = t /\ pc[t] = "in"
    /\ word' = "OTHER"
    /\ pc' = [pc EXCEPT ![t] = "out"]
    /\ UNCHANGED <<monitor, running, status, loops>>

(* mutex_unlock, by the thread that has the lock *)
Unlock(t) ==
    /\ running = t /\ pc[t] = "in"
    /\ word' = "UNLOCKED"
    /\ pc' = [pc EXCEPT ![t] = "out"]
    /\ UNCHANGED <<monitor, running, status, loops>>

(* An exception, and the thread that goes on after it, the same or another. *)
Interrupt ==
    /\ running' \in Thread
    /\ monitor' = FALSE
    /\ UNCHANGED <<word, pc, status, loops>>

Step(t) == Call(t) \/ Ldrex(t) \/ Strex(t) \/ Return(t) \/ Unlock(t)

Next == Interrupt \/ \E t \in Thread : Step(t)

(* The core executes the thread it is in, unless it never stops taking      *)
(* exceptions; nothing is assumed of the scheduler, and a thread may keep   *)
(* the lock, or do without it, for ever.                                    *)
Fairness == \A t \in Thread : WF_vars(Ldrex(t) \/ Strex(t) \/ Return(t))

Spec == Init /\ [][Next]_vars
FairSpec == Spec /\ Fairness

-----------------------------------------------------------------------------
(* Properties *)

(* The thread has the lock, or is about to learn that it has.               *)
Holder(t) == pc[t] = "in" \/ (pc[t] = "dmb" /\ status[t] = 0)

(* mutex_trylock reads and writes the word in two instructions (sync.c:57   *)
(* and 59): no matter where it is interrupted, two threads never both have  *)
(* the lock.                                                                *)
MutualExclusion == \A t, u \in Thread : Holder(t) /\ Holder(u) => t = u

(* A locked word without a thread that will unlock it would be locked for   *)
(* ever; a thread inside with the word unlocked would not be alone for long.*)
LockedIffHeld == word = "LOCKED" <=> \E t \in Thread : Holder(t)

(* A thread that is not interrupted any more spins in mutex_lock only while *)
(* the lock stays with another one: neither a monitor that an interrupt     *)
(* closed nor one that a failed attempt left open keeps a free lock from it.*)
SpinsOnlyOnOthers ==
    \A t \in Thread :
        /\ <>[][~Interrupt]_vars
        /\ <>[](running = t /\ loops[t] /\ pc[t] \in {"ldrex", "strex", "dmb"})
        => <>[](word = "LOCKED")
=============================================================================
