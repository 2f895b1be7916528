----------------------------- MODULE MutexProofs -----------------------------
(* Proofs about Mutex, for any set of threads. *)
EXTENDS Mutex, TLAPS

LEMMA NextTypeOK == TypeOK /\ [Next]_vars => TypeOK'
<1> SUFFICES ASSUME TypeOK, [Next]_vars PROVE TypeOK'
  OBVIOUS
<1> USE DEF TypeOK
<1>1. CASE Interrupt
  BY <1>1 DEF Interrupt
<1>2. ASSUME NEW t \in Thread, Step(t) PROVE TypeOK'
  <2>1. CASE Call(t)
    BY <2>1 DEF Call
  <2>2. CASE Ldrex(t)
    BY <2>2 DEF Ldrex
  <2>3. CASE Strex(t)
    BY <2>3 DEF Strex
  <2>4. CASE Return(t)
    BY <2>4 DEF Return
  <2>5. CASE Unlock(t)
    BY <2>5 DEF Unlock
  <2> QED
    BY <1>2, <2>1, <2>2, <2>3, <2>4, <2>5 DEF Step
<1>3. CASE UNCHANGED vars
  BY <1>3 DEF vars
<1> QED
  BY <1>1, <1>2, <1>3 DEF Next

(* The types of the word, the monitor and the threads' states. *)
THEOREM TypeCorrect == Spec => []TypeOK
<1>1. Init => TypeOK
  BY DEF Init, TypeOK
<1> QED
  BY <1>1, NextTypeOK, PTL DEF Spec

(* What makes ldrex and strex one step: while the monitor is open behind an *)
(* ldrex that read the word as unlocked, it still is, since nobody ran in   *)
(* between.  Only the thread on the core can be in that position.           *)
StillUnlocked == monitor /\ pc[running] = "strex" => word = "UNLOCKED"

(* An attempt that does not reach strex fails: status is still 1. *)
FailsByDefault == \A t \in Thread : pc[t] = "ldrex" => status[t] = 1

MutexInv == TypeOK /\ MutualExclusion /\ LockedIffHeld /\ StillUnlocked /\ FailsByDefault

LEMMA MutexStep == MutexInv /\ [Next]_vars => MutexInv'
<1> SUFFICES ASSUME MutexInv, [Next]_vars PROVE MutexInv'
  OBVIOUS
<1>0. TypeOK /\ TypeOK'
  BY NextTypeOK DEF MutexInv
<1> USE DEF MutexInv, MutualExclusion, LockedIffHeld, StillUnlocked, FailsByDefault, Holder
<1>1. CASE Interrupt
  BY <1>0, <1>1 DEF Interrupt
<1>2. ASSUME NEW t \in Thread, Step(t) PROVE MutexInv'
  <2>1. CASE Call(t)
    BY <1>0, <2>1 DEF Call, TypeOK
  <2>2. CASE Ldrex(t)
    BY <1>0, <2>2 DEF Ldrex, TypeOK
  <2>3. CASE Strex(t)
    <3>1. /\ pc' = [pc EXCEPT ![t] = "dmb"] /\ pc[t] = "strex" /\ monitor' = FALSE
          /\ \A u \in Thread \ {t} : pc'[u] = pc[u] /\ status'[u] = status[u]
      BY <1>0, <2>3 DEF Strex, TypeOK
    <3>2. CASE monitor
      <4>1. \A u \in Thread : ~Holder(u)
        BY <2>3, <3>2 DEF Strex
      <4>2. pc'[t] = "dmb" /\ status'[t] = 0 /\ word' = "LOCKED"
        BY <1>0, <2>3, <3>2 DEF Strex, TypeOK
      <4> QED
        BY <1>0, <3>1, <4>1, <4>2
    <3>3. CASE ~monitor
      <4>1. pc'[t] = "dmb" /\ status'[t] = 1 /\ word' = word
        BY <1>0, <2>3, <3>3 DEF Strex, TypeOK
      <4>2. \A u \in Thread : Holder(u)' <=> Holder(u)
        BY <3>1, <4>1
      <4> QED
        BY <1>0, <3>1, <4>1, <4>2
    <3> QED
      BY <3>2, <3>3
  <2>4. CASE Return(t)
    BY <1>0, <2>4 DEF Return, TypeOK
  <2>5. CASE Unlock(t)
    BY <1>0, <2>5 DEF Unlock, TypeOK
  <2> QED
    BY <1>2, <2>1, <2>2, <2>3, <2>4, <2>5 DEF Step
<1>3. CASE UNCHANGED vars
  BY <1>0, <1>3 DEF vars
<1> QED
  BY <1>1, <1>2, <1>3 DEF Next

LEMMA MutexAlways == Spec => []MutexInv
<1>1. Init => MutexInv
  BY ThreadAssumption
  DEF Init, MutexInv, TypeOK, MutualExclusion, LockedIffHeld, StillUnlocked, FailsByDefault, Holder
<1> QED
  BY <1>1, MutexStep, PTL DEF Spec

(* Never two threads with the lock, wherever they are interrupted. *)
THEOREM Exclusion == Spec => []MutualExclusion
  BY MutexAlways, PTL DEF MutexInv

(* The word is locked exactly while a thread will unlock it. *)
THEOREM NoOrphanLock == Spec => []LockedIffHeld
  BY MutexAlways, PTL DEF MutexInv
=============================================================================
