------------------------- MODULE CheckpointerProofs -------------------------
(***************************************************************************)
(* Module Checkpointer implements VersionedRegister when all clients call  *)
(* one RedisCheckpointer, for any number of clients and of versions.       *)
(*                                                                         *)
(* The versions are compared in Get and the cell is written in Set.  The   *)
(* abstract Write does both at once, so it must be shown that the outcome  *)
(* of the comparison still stands when Set is reached.  It does because    *)
(* the mutex keeps every other Set out; Expire, which asks no mutex, only  *)
(* empties the cell, and an empty cell may be written by anyone.           *)
(***************************************************************************)
EXTENDS Checkpointer, TLAPS

\* All clients belong to one server process.
OneProcess == \A c, d \in Clients : InstanceOf[c] = InstanceOf[d]

\* A client between Lock and Unlock is the one its mutex names.
MutexInv ==
    \A c \in Clients : pc[c] \in {"get", "set"} => mutex[InstanceOf[c]] = c

\* A caller has no reply exactly while its call is in progress.
ReplyInv == \A c \in Clients : reply[c] = "none" <=> pc[c] # "idle"

\* What Get found is still so when Set writes.
ComparedInv == \A c \in Clients : pc[c] = "set" => cell.version \in {0, expected[c]}

SaveInv == TypeOK /\ MutexInv /\ ReplyInv

LEMMA InitSave == Init => SaveInv /\ ComparedInv
<1> SUFFICES ASSUME Init PROVE SaveInv /\ ComparedInv
  OBVIOUS
<1>1. TypeOK
  BY DEF Init, TypeOK, Missing
<1>2. MutexInv /\ ReplyInv /\ ComparedInv
  BY DEF Init, MutexInv, ReplyInv, ComparedInv
<1> QED
  BY <1>1, <1>2 DEF SaveInv

\* The deferred Unlock, from wherever Save returns.
LEMMA ReturnSave ==
    ASSUME SaveInv, NEW c \in Clients, NEW r \in {"ok", "conflict", "error"},
           pc[c] \in {"get", "set"}, Return(c, r), TypeOK'
    PROVE  MutexInv' /\ ReplyInv'
<1>1. /\ \A d \in Clients : pc'[d] = IF d = c THEN "idle" ELSE pc[d]
      /\ \A d \in Clients : reply'[d] = IF d = c THEN r ELSE reply[d]
  BY DEF SaveInv, TypeOK, Return
<1>2. \A i \in Instances : i # InstanceOf[c] => mutex'[i] = mutex[i]
  BY DEF SaveInv, TypeOK, Return
<1>3. MutexInv'
  BY <1>1, <1>2, InstanceOfType DEF SaveInv, MutexInv
<1>4. ReplyInv'
  BY <1>1 DEF SaveInv, ReplyInv
<1> QED
  BY <1>3, <1>4

LEMMA NextSave == SaveInv /\ [Next]_vars => SaveInv'
<1> SUFFICES ASSUME SaveInv, [Next]_vars PROVE SaveInv'
  OBVIOUS
<1> USE DEF SaveInv
<1>1. ASSUME NEW c \in Clients, Call(c) PROVE SaveInv'
  BY <1>1 DEF Call, TypeOK, MutexInv, ReplyInv
<1>2. ASSUME NEW c \in Clients, Lock(c) PROVE SaveInv'
  <2>1. TypeOK'
    BY <1>2, InstanceOfType DEF Lock, TypeOK
  <2>2. /\ \A d \in Clients : pc'[d] = IF d = c THEN "get" ELSE pc[d]
        /\ \A i \in Instances : mutex'[i] = IF i = InstanceOf[c] THEN c ELSE mutex[i]
        /\ mutex[InstanceOf[c]] = "" /\ reply' = reply /\ pc[c] = "lock"
    BY <1>2 DEF Lock, TypeOK
  <2>3. MutexInv'
    BY <2>2, InstanceOfType, ClientsAreNames DEF MutexInv
  <2>4. ReplyInv'
    BY <2>2 DEF ReplyInv
  <2> QED
    BY <2>1, <2>3, <2>4
<1>3. ASSUME NEW c \in Clients, Get(c) PROVE SaveInv'
  <2>1. TypeOK'
    BY <1>3, InstanceOfType DEF Get, Return, TypeOK
  <2>2. CASE pc' = [pc EXCEPT ![c] = "set"] /\ UNCHANGED <<reply, mutex>>
    BY <1>3, <2>1, <2>2 DEF Get, TypeOK, MutexInv, ReplyInv
  <2>3. CASE \E r \in {"conflict", "error"} : Return(c, r)
    BY <1>3, <2>1, <2>3, ReturnSave DEF Get
  <2> QED
    BY <1>3, <2>2, <2>3 DEF Get
<1>4. ASSUME NEW c \in Clients, Set(c) PROVE SaveInv'
  <2>1. TypeOK'
    <3>0. expected[c] \in Nat
      BY DEF TypeOK
    <3>1. expected[c] + 1 \in Nat
      BY <3>0
    <3>2. cell' \in [version : Nat, by : Clients \cup {""}]
      <4>1. \A v \in Nat : [version |-> v, by |-> c] \in [version : Nat, by : Clients \cup {""}]
        OBVIOUS
      <4>2. cell' = cell \/ cell' = [version |-> expected[c] + 1, by |-> c]
        BY <1>4 DEF Set
      <4> QED
        BY <3>1, <4>1, <4>2 DEF TypeOK
    <3>3. expected' \in [Clients -> Nat]
      BY <1>4, <3>1 DEF Set, TypeOK
    <3>4. PICK r \in {"ok", "error"} : Return(c, r)
      BY <1>4 DEF Set
    <3>5. /\ pc' \in [Clients -> {"idle", "lock", "get", "set"}]
          /\ reply' \in [Clients -> {"none", "ok", "conflict", "error"}]
      BY <3>4 DEF Return, TypeOK
    <3>6. mutex' \in [Instances -> Clients \cup {""}]
      BY <3>4, InstanceOfType DEF Return, TypeOK
    <3> QED
      BY <3>2, <3>3, <3>5, <3>6 DEF TypeOK
  <2> QED
    BY <1>4, <2>1, ReturnSave DEF Set
<1>5. ASSUME NEW c \in Clients, Load(c) PROVE SaveInv'
  BY <1>5 DEF Load, TypeOK, MutexInv, ReplyInv
<1>6. CASE Expire
  BY <1>6 DEF Expire, Missing, TypeOK, MutexInv, ReplyInv
<1>7. CASE UNCHANGED vars
  BY <1>7 DEF vars, TypeOK, MutexInv, ReplyInv
<1> QED
  BY <1>1, <1>2, <1>3, <1>4, <1>5, <1>6, <1>7 DEF Next

LEMMA NextCompared ==
    ASSUME OneProcess
    PROVE  SaveInv /\ ComparedInv /\ [Next]_vars => ComparedInv'
<1> SUFFICES ASSUME SaveInv, ComparedInv, [Next]_vars PROVE ComparedInv'
  OBVIOUS
<1> USE InstanceOfType, ClientsAreNames DEF SaveInv, TypeOK, ComparedInv
<1>1. ASSUME NEW c \in Clients, Call(c) PROVE ComparedInv'
  BY <1>1 DEF Call
<1>2. ASSUME NEW c \in Clients, Lock(c) PROVE ComparedInv'
  BY <1>2 DEF Lock
<1>3. ASSUME NEW c \in Clients, Get(c) PROVE ComparedInv'
  BY <1>3 DEF Get, Return
<1>4. ASSUME NEW c \in Clients, Set(c) PROVE ComparedInv'
  <2>1. \A d \in Clients : pc[d] = "set" => d = c
    BY <1>4 DEF Set, MutexInv, OneProcess
  <2> QED
    BY <1>4, <2>1 DEF Set, Return
<1>5. ASSUME NEW c \in Clients, Load(c) PROVE ComparedInv'
  BY <1>5 DEF Load
<1>6. CASE Expire
  BY <1>6 DEF Expire, Missing
<1>7. CASE UNCHANGED vars
  BY <1>7 DEF vars
<1> QED
  BY <1>1, <1>2, <1>3, <1>4, <1>5, <1>6, <1>7 DEF Next

\* Every step of Save, of RestoreScheduler and of the key's time to live is a
\* step of the versioned register, or invisible in it.
LEMMA StepRefines ==
    SaveInv /\ ComparedInv /\ [Next]_vars => [Promise!Next]_(Promise!vars)
<1> SUFFICES ASSUME SaveInv, ComparedInv, [Next]_vars
             PROVE  Promise!Next \/ UNCHANGED Promise!vars
  OBVIOUS
<1> USE DEF SaveInv, TypeOK, ReplyInv
<1>1. ASSUME NEW c \in Clients, Call(c) PROVE Promise!Call(c)
  BY <1>1 DEF Call, Promise!Call
<1>2. ASSUME NEW c \in Clients, Lock(c) PROVE UNCHANGED Promise!vars
  BY <1>2 DEF Lock, Promise!vars
<1>3. ASSUME NEW c \in Clients, Get(c)
      PROVE  Promise!Conflict(c) \/ Promise!Error(c) \/ UNCHANGED Promise!vars
  BY <1>3 DEF Get, Return, Promise!Conflict, Promise!Error, Promise!vars
<1>4. ASSUME NEW c \in Clients, Set(c) PROVE Promise!Write(c) \/ Promise!Error(c)
  BY <1>4 DEF Set, Return, ComparedInv, Promise!Write, Promise!Error
<1>5. ASSUME NEW c \in Clients, Load(c) PROVE Promise!Load(c)
  BY <1>5 DEF Load, Missing, Promise!Load, Promise!Missing
<1>6. CASE Expire
  BY <1>6 DEF Expire, Missing, Promise!Expire, Promise!Missing, Promise!Next
<1>7. CASE UNCHANGED vars
  BY <1>7 DEF vars, Promise!vars
<1> QED
  BY <1>1, <1>2, <1>3, <1>4, <1>5, <1>6, <1>7 DEF Next, Promise!Next

\* Within one process a Save is one atomic compare-and-write of the stored
\* checkpoint: however the store calls of several schedulers interleave, fail
\* or lose their answers, and whenever the key expires.
THEOREM SaveIsAtomic ==
    ASSUME OneProcess
    PROVE  Spec => Refinement
<1>1. Init => Promise!Init
  BY DEF Init, Promise!Init, Missing, Promise!Missing
<1>2. SaveInv /\ ComparedInv /\ [Next]_vars => (SaveInv /\ ComparedInv)'
  BY NextSave, NextCompared
<1> QED
  BY <1>1, <1>2, InitSave, StepRefines, PTL DEF Spec, Refinement, Promise!Spec
=============================================================================
