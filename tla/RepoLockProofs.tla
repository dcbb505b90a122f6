--------------------------- MODULE RepoLockProofs ---------------------------
(* Proofs about RepoLock for every set of invocations and processes.         *)
EXTENDS RepoLock, TLAPS

(* The variables of the lock keep their types: in particular there is at     *)
(* most one file at the lock path.                                           *)
THEOREM LockTypes == Spec => []TypeOK
<1>1. Init => TypeOK
  BY DEF Init, TypeOK, Steps
<1>2. TypeOK /\ [Next]_vars => TypeOK'
  <2> SUFFICES ASSUME TypeOK, [Next]_vars PROVE TypeOK'
    OBVIOUS
  <2> USE DEF TypeOK, Steps, Goto
  <2>1. ASSUME NEW i \in Invocations, Begin(i) \/ BeginRelease(i) PROVE TypeOK'
    BY <2>1 DEF Begin, BeginRelease
  <2>2. ASSUME NEW i \in Invocations, Create(i) \/ Exists(i) \/ Write(i)
        PROVE TypeOK'
    BY <2>2 DEF Create, Exists, Write
  <2>3. ASSUME NEW i \in Invocations, Inspect(i) \/ Check(i) PROVE TypeOK'
    BY <2>3 DEF Inspect, Check
  <2>4. ASSUME NEW i \in Invocations, TakeOver(i) \/ ReadToken(i) \/ Unlink(i)
        PROVE TypeOK'
    BY <2>4 DEF TakeOver, ReadToken, Unlink
  <2>5. ASSUME NEW p \in Processes, Die(p) PROVE TypeOK'
    BY <2>5 DEF Die
  <2>6. CASE UNCHANGED vars
    BY <2>6 DEF vars
  <2>7. QED
    BY <2>1, <2>2, <2>3, <2>4, <2>5, <2>6 DEF Next, Step
<1>3. QED
  BY <1>1, <1>2, PTL DEF Spec

(* Until a takeover unlinks the file of a live invocation, an invocation     *)
(* that relies on the lock file finds its own at the path.                   *)
LEMMA OwnsFileInvariant == Spec => []OwnsFile
<1>1. Init => OwnsFile
  BY DEF Init, OwnsFile, Owning
<1>2. TypeOK /\ OwnsFile /\ [Next]_vars => OwnsFile'
  <2> SUFFICES ASSUME TypeOK, OwnsFile, [Next]_vars PROVE OwnsFile'
    OBVIOUS
  <2> USE DEF TypeOK, OwnsFile, Owning, Goto
  <2>1. ASSUME NEW i \in Invocations, Begin(i) \/ BeginRelease(i) PROVE OwnsFile'
    BY <2>1 DEF Begin, BeginRelease
  <2>2. ASSUME NEW i \in Invocations, Create(i) PROVE OwnsFile'
    \* the exclusive flag: the path was empty, so nobody relied on it
    BY <2>2 DEF Create
  <2>3. ASSUME NEW i \in Invocations, Exists(i) \/ Write(i) PROVE OwnsFile'
    BY <2>3 DEF Exists, Write
  <2>4. ASSUME NEW i \in Invocations, Inspect(i) \/ Check(i) PROVE OwnsFile'
    BY <2>4 DEF Inspect, Check
  <2>5. ASSUME NEW i \in Invocations, TakeOver(i) PROVE OwnsFile'
    \* either nobody relied on the file or stolen becomes true
    BY <2>5 DEF TakeOver
  <2>6. ASSUME NEW i \in Invocations, ReadToken(i) \/ Unlink(i) PROVE OwnsFile'
    BY <2>6 DEF ReadToken, Unlink
  <2>7. ASSUME NEW p \in Processes, Die(p) PROVE OwnsFile'
    BY <2>7 DEF Die
  <2>8. CASE UNCHANGED vars
    BY <2>8 DEF vars
  <2>9. QED
    BY <2>1, <2>2, <2>3, <2>4, <2>5, <2>6, <2>7, <2>8 DEF Next, Step
<1>3. QED
  BY <1>1, <1>2, LockTypes, PTL DEF Spec

(* The lock of lock.ts keeps a repository to one writer, whatever invocations *)
(* and processes there are and however they interleave or die, as long as no  *)
(* takeover unlinks the file of a live invocation.                            *)
THEOREM OneWriterHolds == Spec => []OneWriterUnlessStolen
<1>1. OwnsFile => OneWriterUnlessStolen
  BY DEF OwnsFile, OneWriterUnlessStolen, OneWriter, Holding, Owning
<1>2. QED
  BY <1>1, OwnsFileInvariant, PTL
=============================================================================
