------------------------- MODULE ChunkedUploadProofs -------------------------
(***************************************************************************)
(* Chunked uploads, for any number of chunks, processes and requests:      *)
(* which requests the lock of a process keeps apart; what a client is      *)
(* promised that waits for every answer, through kills, lost answers and   *)
(* late failures; and what a single process promises a client that does    *)
(* not.                                                                    *)
(***************************************************************************)
EXTENDS ChunkedUpload, FiniteSetTheorems, TLAPS

-----------------------------------------------------------------------------
(* Types and request slots *)

\* What the slots hold is well typed after requests are gone.
LEMMA GoneTypes ==
    ASSUME TypeOK, NEW R \in SUBSET Requests, Gone(R)
    PROVE  /\ pc' \in [Requests -> Steps]
           /\ home' \in [Requests -> Procs \cup {None}]
           /\ index' \in [Requests -> Chunks \cup {None}]
           /\ lock' \in [Requests -> 0 .. MaxRequests]
           /\ next' \in [Requests -> 0 .. N]
           /\ sound' \in [Requests -> BOOLEAN]
           /\ listed' \in [Requests -> SUBSET Chunks]
<1> USE ChunkedUploadAssumption DEF TypeOK, Gone
<1>1. pc' \in [Requests -> Steps]
  BY DEF Steps
<1>2. /\ home' \in [Requests -> Procs \cup {None}]
      /\ index' \in [Requests -> Chunks \cup {None}]
  OBVIOUS
<1>3. /\ lock' \in [Requests -> 0 .. MaxRequests]
      /\ next' \in [Requests -> 0 .. N]
  OBVIOUS
<1>4. sound' \in [Requests -> BOOLEAN]
  OBVIOUS
<1>5. listed' \in [Requests -> SUBSET Chunks]
  OBVIOUS
<1> QED
  BY <1>1, <1>2, <1>3, <1>4, <1>5

\* An answer leaves the locks, the slots and what the client knows well typed.
LEMMA AnswerTypes ==
    ASSUME TypeOK, NEW r \in Requests,
           NEW received \in SUBSET Chunks, NEW stored \in BOOLEAN, NEW failed \in BOOLEAN,
           Answer(r, received, stored, failed)
    PROVE  /\ holder' \in [Locks -> Requests \cup {None}]
           /\ pc' \in [Requests -> Steps]
           /\ home' \in [Requests -> Procs \cup {None}]
           /\ index' \in [Requests -> Chunks \cup {None}]
           /\ lock' \in [Requests -> 0 .. MaxRequests]
           /\ next' \in [Requests -> 0 .. N]
           /\ sound' \in [Requests -> BOOLEAN]
           /\ listed' \in [Requests -> SUBSET Chunks]
           /\ acked' \in SUBSET Chunks
           /\ done' \in BOOLEAN /\ over' \in BOOLEAN
           /\ sent' \in 0 .. MaxRequests
           /\ kills' \in 0 .. MaxKills
           /\ lost' \in 0 .. MaxLost
           /\ late' \in 0 .. MaxLate
<1>1. Gone({r}) /\ {r} \in SUBSET Requests
  BY DEF Answer
<1>2. holder' \in [Locks -> Requests \cup {None}]
  BY DEF Answer, Release, TypeOK
<1>3. /\ acked' \in SUBSET Chunks
      /\ done' \in BOOLEAN /\ over' \in BOOLEAN
  BY DEF Answer, Hear, TypeOK
<1>4. lost' \in 0 .. MaxLost
  BY ChunkedUploadAssumption DEF Answer, Hear, TypeOK
<1>5. /\ sent' \in 0 .. MaxRequests
      /\ kills' \in 0 .. MaxKills
      /\ late' \in 0 .. MaxLate
  BY DEF Answer, TypeOK
<1> QED
  BY <1>1, <1>2, <1>3, <1>4, <1>5, GoneTypes

\* What a request finds that is sent ...
LEMMA SendFinds ==
    ASSUME TypeOK, NEW r \in Requests, NEW k \in Chunks \cup {None}, Send(r, k)
    PROVE  /\ pc[r] = "idle" /\ pc'[r] = "arriving" /\ index'[r] = k
           /\ \A q \in Requests \ {r} : pc'[q] = pc[q] /\ index'[q] = index[q]
           /\ UNCHANGED <<dir, file, aged, table, holder, reaping, sweeping, home, lock, next,
                          sound, listed, copies, broken, revived, undone, orphaned, acked,
                          done, over, kills, lost, late>>
<1> USE DEF TypeOK, Send, Goto
<1>1. pc[r] = "idle" /\ pc'[r] = "arriving" /\ index'[r] = k
  OBVIOUS
<1>2. \A q \in Requests \ {r} : pc'[q] = pc[q] /\ index'[q] = index[q]
  OBVIOUS
<1> QED
  BY <1>1, <1>2 DEF staging, locks, reaper, archive, faults

\* ... and one that has looked its lock up.
LEMMA LookupFinds ==
    ASSUME TypeOK, NEW r \in Requests, NEW p \in Procs, Lookup(r, p)
    PROVE  /\ pc[r] = "arriving" /\ pc'[r] = "waiting"
           /\ home'[r] = p /\ lock'[r] \in Locks /\ table'[p] = lock'[r]
           /\ table[p] = 0 \/ table'[p] = table[p]
           /\ \A q \in Procs : q # p => table'[q] = table[q]
           /\ \A q \in Requests \ {r} :
                  pc'[q] = pc[q] /\ home'[q] = home[q] /\ lock'[q] = lock[q]
           /\ UNCHANGED <<dir, file, aged, holder, reaping, sweeping, index, next, sound,
                          listed, copies, broken, revived, undone, orphaned, acked, done,
                          over, sent, kills, lost, late>>
<1>1. PICK l \in IF table[p] = 0 THEN NewLock ELSE {table[p]} : Enter(r, p, l)
  BY DEF Lookup
<1>2. l \in Locks
  <2>1. table[p] \in 0 .. MaxRequests
    BY DEF TypeOK
  <2> QED
    BY <2>1, <1>1, ChunkedUploadAssumption DEF NewLock, Locks
<1>3. /\ pc' = [pc EXCEPT ![r] = "waiting"] /\ home' = [home EXCEPT ![r] = p]
      /\ lock' = [lock EXCEPT ![r] = l] /\ table' = [table EXCEPT ![p] = l]
  BY <1>1 DEF Enter, Goto
<1>4. UNCHANGED <<dir, file, aged, holder, reaping, sweeping, index, next, sound, listed,
                  copies, broken, revived, undone, orphaned, acked, done, over, sent, kills,
                  lost, late>>
  BY <1>1 DEF Enter, staging, reaper, archive, client, faults
<1>5. pc[r] = "arriving" /\ (table[p] = 0 \/ l = table[p])
  BY <1>1 DEF Enter
<1> QED
  BY <1>2, <1>3, <1>4, <1>5 DEF TypeOK

\* Both keep every variable to its type.
LEMMA SendTypes ==
    ASSUME TypeOK, NEW r \in Requests, NEW k \in Chunks \cup {None}, Send(r, k)
    PROVE  TypeOK'
<1> USE ChunkedUploadAssumption DEF TypeOK, Send, Goto
<1>1. pc' \in [Requests -> Steps] /\ sent' \in 0 .. MaxRequests
  BY DEF Steps
<1>2. index' \in [Requests -> Chunks \cup {None}]
  OBVIOUS
<1>3. UNCHANGED <<staging, locks, reaper, home, lock, next, sound, listed, archive, acked,
                  done, over, faults>>
  OBVIOUS
<1> QED
  BY <1>1, <1>2, <1>3 DEF staging, locks, reaper, archive, faults

LEMMA LookupTypes ==
    ASSUME TypeOK, NEW r \in Requests, NEW p \in Procs, Lookup(r, p)
    PROVE  TypeOK'
<1>1. PICK l \in Locks : Enter(r, p, l)
  <2>1. table[p] \in 0 .. MaxRequests
    BY DEF TypeOK
  <2> QED
    BY <2>1, ChunkedUploadAssumption DEF Lookup, NewLock, Locks
<1> USE ChunkedUploadAssumption DEF TypeOK, Enter, Goto
<1>2. l \in 0 .. MaxRequests
  BY DEF Locks
<1>3. /\ table' \in [Procs -> 0 .. MaxRequests] /\ lock' \in [Requests -> 0 .. MaxRequests]
      /\ home' \in [Requests -> Procs \cup {None}]
  BY <1>1, <1>2
<1>4. pc' \in [Requests -> Steps]
  BY <1>1 DEF Steps
<1>5. UNCHANGED <<staging, holder, reaper, index, next, sound, listed, archive, client, faults>>
  BY <1>1
<1> QED
  BY <1>3, <1>4, <1>5 DEF staging, reaper, archive, client, faults

\* A slot that is free is coherent.
LEMMA GoneSlots ==
    ASSUME TypeOK, Slots, NEW R \in SUBSET Requests, Gone(R)
    PROVE  Slots'
  BY DEF TypeOK, Slots, Gone, Served, Chunks

\* A request that is on its way is in no process yet.
LEMMA SendSlots ==
    ASSUME TypeOK, Slots, NEW r \in Requests, NEW k \in Chunks \cup {None}, Send(r, k)
    PROVE  Slots'
<1>1. \A q \in Served' : q \in Served /\ q # r /\ pc'[q] = pc[q] /\ index'[q] = index[q]
  BY SendFinds DEF Served
<1>2. home' = home /\ lock' = lock
  BY SendFinds
<1> QED
  BY <1>1, <1>2 DEF Slots

\* Looking its lock up makes a slot coherent.
LEMMA LookupSlots ==
    ASSUME TypeOK, Slots, NEW r \in Requests, NEW p \in Procs, Lookup(r, p)
    PROVE  Slots'
<1>1. ASSUME NEW q \in Served', q # r
      PROVE  /\ home'[q] \in Procs
             /\ lock'[q] \in Locks
             /\ pc'[q] \in ChunkSteps => index'[q] \in Chunks
             /\ pc'[q] \in FinalizeSteps => index'[q] = None
  BY <1>1, LookupFinds DEF Slots, Served
<1>2. pc'[r] = "waiting" /\ home'[r] \in Procs /\ lock'[r] \in Locks
  BY LookupFinds
<1>3. "waiting" \notin ChunkSteps \cup FinalizeSteps
  BY DEF ChunkSteps, FinalizeSteps
<1> QED
  BY <1>1, <1>2, <1>3 DEF Slots

\* Every step keeps every variable to its type.
LEMMA TypeOKStep ==
    ASSUME TypeOK, Slots, [Next]_vars
    PROVE  TypeOK'
<1> USE DEF TypeOK, Slots, Served, Chunks, ChunkSteps, FinalizeSteps, Present
<1>1. ASSUME NEW r \in Requests, NEW k \in Chunks, SendChunk(r, k)
      PROVE  TypeOK'
  BY <1>1, SendTypes DEF SendChunk
<1>2. ASSUME NEW r \in Requests, SendFinalize(r)
      PROVE  TypeOK'
  BY <1>2, SendTypes DEF SendFinalize
<1>3. ASSUME NEW r \in Requests, Acquire(r)
      PROVE  TypeOK'
  BY <1>3 DEF Acquire, Goto, staging, reaper, archive, client, faults, Steps
<1>4. ASSUME NEW r \in Requests, Refuse(r)
      PROVE  TypeOK'
  <2>1. Answer(r, acked, FALSE, FALSE) /\ acked \in SUBSET Chunks
    BY <1>4 DEF Refuse, Retry
  <2> QED
    BY <1>4, <2>1, AnswerTypes DEF Refuse, staging, reaper, archive
<1>5. ASSUME NEW r \in Requests, MakeStaging(r)
      PROVE  TypeOK'
  BY <1>5 DEF MakeStaging, Goto, locks, reaper, client, faults, Steps
<1>6. ASSUME NEW r \in Requests, OpenChunk(r)
      PROVE  TypeOK'
  BY <1>6 DEF OpenChunk, Goto, locks, reaper, archive, client, faults, Steps
<1>7. ASSUME NEW r \in Requests, OpenFails(r)
      PROVE  TypeOK'
  <2>1. Answer(r, acked, FALSE, FALSE) /\ acked \in SUBSET Chunks
    BY <1>7 DEF OpenFails, Retry
  <2> QED
    BY <1>7, <2>1, AnswerTypes DEF OpenFails, staging, reaper, archive
<1>8. ASSUME NEW r \in Requests, SaveChunk(r)
      PROVE  TypeOK'
  BY <1>8 DEF SaveChunk, Goto, locks, reaper, archive, client, faults, Steps
<1>9. ASSUME NEW r \in Requests, SaveFails(r)
      PROVE  TypeOK'
  <2>1. Answer(r, acked, FALSE, FALSE) /\ acked \in SUBSET Chunks
    BY <1>9 DEF SaveFails, Retry
  <2>2. file' \in [Chunks -> {"none", "whole", "torn"} \cup Requests] /\ undone' \in BOOLEAN
    BY <1>9 DEF SaveFails
  <2> QED
    BY <1>9, <2>1, <2>2, AnswerTypes DEF SaveFails, reaper
<1>10. ASSUME NEW r \in Requests, AcceptChunk(r)
      PROVE  TypeOK'
  <2>1. Answer(r, acked \cup {index[r]}, FALSE, FALSE)
    BY <1>10 DEF AcceptChunk
  <2>2. acked \cup {index[r]} \in SUBSET Chunks
    BY <1>10 DEF AcceptChunk
  <2> QED
    BY <1>10, <2>1, <2>2, AnswerTypes DEF AcceptChunk, staging, reaper, archive
<1>11. ASSUME NEW r \in Requests, RejectChunk(r)
      PROVE  TypeOK'
  <2>1. Answer(r, acked, FALSE, FALSE) /\ acked \in SUBSET Chunks
    BY <1>11 DEF RejectChunk, Retry
  <2>2. file' \in [Chunks -> {"none", "whole", "torn"} \cup Requests] /\ aged' \in BOOLEAN
    BY <1>11 DEF RejectChunk
  <2> QED
    BY <1>11, <2>1, <2>2, AnswerTypes DEF RejectChunk, reaper, archive
<1>12. ASSUME NEW r \in Requests, FinalizeRefused(r)
      PROVE  TypeOK'
  <2>1. Answer(r, {}, FALSE, TRUE)
    BY <1>12 DEF FinalizeRefused, StartOver
  <2> QED
    BY <1>12, <2>1, AnswerTypes DEF FinalizeRefused, staging, reaper, archive
<1>13. ASSUME NEW r \in Requests, Validate(r)
      PROVE  TypeOK'
  BY <1>13 DEF Validate, Goto, staging, locks, reaper, archive, client, faults, Steps
<1>14. ASSUME NEW r \in Requests, ReadChunk(r)
      PROVE  TypeOK'
  <2>1. next' \in [Requests -> 0 .. N]
    BY <1>14, ChunkedUploadAssumption DEF ReadChunk
  <2>2. sound' \in [Requests -> BOOLEAN]
    BY <1>14 DEF ReadChunk
  <2> QED
    BY <1>14, <2>1, <2>2 DEF ReadChunk, staging, locks, reaper, archive, client, faults
<1>15. ASSUME NEW r \in Requests, Store(r)
      PROVE  TypeOK'
  <2>1. copies' \in Nat /\ broken' \in Nat
    BY <1>15 DEF Store, Ingest
  <2>2. pc' \in [Requests -> Steps] /\ listed' \in [Requests -> SUBSET Chunks]
    BY <1>15 DEF Store, BeginCleanup, Goto, Steps
  <2>3. late' \in 0 .. MaxLate
    BY <1>15 DEF Store
  <2> QED
    BY <1>15, <2>1, <2>2, <2>3 DEF Store, Ingest, staging, locks, reaper, client
<1>16. ASSUME NEW r \in Requests, StoreRaisesLate(r)
      PROVE  TypeOK'
  <2>1. copies' \in Nat /\ broken' \in Nat
    BY <1>16 DEF StoreRaisesLate, Ingest
  <2>2. pc' \in [Requests -> Steps] /\ listed' \in [Requests -> SUBSET Chunks]
    BY <1>16 DEF StoreRaisesLate, BeginCleanup, Goto, Steps
  <2>3. late' \in 0 .. MaxLate
    BY <1>16, ChunkedUploadAssumption DEF StoreRaisesLate
  <2> QED
    BY <1>16, <2>1, <2>2, <2>3 DEF StoreRaisesLate, Ingest, staging, locks, reaper, client
<1>17. ASSUME NEW r \in Requests, StoreFails(r)
      PROVE  TypeOK'
  BY <1>17
     DEF StoreFails, BeginCleanup, Goto, staging, locks, reaper, archive, client, faults,
         Steps
<1>18. ASSUME NEW r \in Requests, NEW k \in listed[r], CleanFile(r, k)
      PROVE  TypeOK'
  BY <1>18 DEF CleanFile, locks, reaper, archive, client, faults, Steps
<1>19. ASSUME NEW r \in Requests, Conclude(r)
      PROVE  TypeOK'
  <2>1. \/ Answer(r, acked, TRUE, FALSE) /\ acked \in SUBSET Chunks
        \/ Answer(r, {}, FALSE, TRUE)
    BY <1>19 DEF Conclude, StartOver
  <2>2. dir' \in BOOLEAN /\ aged' \in BOOLEAN
    BY <1>19 DEF Conclude, RemoveDir
  <2>3. table' \in [Procs -> 0 .. MaxRequests]
    <3>1. 0 \in 0 .. MaxRequests
      BY ChunkedUploadAssumption
    <3>2. table' = [table EXCEPT ![home[r]] = 0]
      BY <1>19 DEF Conclude, DropLock
    <3> QED
      BY <3>1, <3>2
  <2>4. orphaned' \in BOOLEAN
    BY <1>19 DEF Conclude, DropLock
  <2>5. UNCHANGED <<file, reaper, copies, broken, revived, undone>>
    BY <1>19 DEF Conclude
  <2> QED
    BY <2>1, <2>2, <2>3, <2>4, <2>5, AnswerTypes DEF reaper
<1>20. ASSUME Age
      PROVE  TypeOK'
  BY <1>20 DEF Age, locks, reaper, thread, archive, client, faults, Steps
<1>21. ASSUME NEW p \in Procs, ReapBegin(p)
      PROVE  TypeOK'
  BY <1>21 DEF ReapBegin, staging, locks, thread, archive, client, faults, Steps
<1>22. ASSUME NEW p \in Procs, NEW k \in reaping[p], ReapFile(p, k)
      PROVE  TypeOK'
  BY <1>22 DEF ReapFile, locks, thread, archive, client, faults, Steps
<1>23. ASSUME NEW p \in Procs, ReapEnd(p)
      PROVE  TypeOK'
  BY <1>23 DEF ReapEnd, RemoveDir, locks, thread, archive, client, faults, Steps
<1>24. ASSUME NEW p \in Procs, Kill(p)
      PROVE  TypeOK'
  <2> DEFINE dead == {r \in Requests : home[r] = p}
  <2>1. Gone(dead) /\ dead \in SUBSET Requests
    BY <1>24 DEF Kill
  <2>2. file' \in [Chunks -> {"none", "whole", "torn"} \cup Requests]
    BY <1>24 DEF Kill
  <2>3. /\ table' \in [Procs -> 0 .. MaxRequests]
        /\ holder' \in [Locks -> Requests \cup {None}]
    BY <1>24, ChunkedUploadAssumption DEF Kill
  <2>4. sweeping' \in [Procs -> BOOLEAN] /\ reaping' \in [Procs -> SUBSET Chunks]
    BY <1>24 DEF Kill
  <2>5. undone' \in BOOLEAN /\ kills' \in 0 .. MaxKills
    BY <1>24, ChunkedUploadAssumption DEF Kill
  <2> HIDE DEF dead
  <2> QED
    BY <1>24, <2>1, <2>2, <2>3, <2>4, <2>5, GoneTypes DEF Kill, client
<1>25. CASE UNCHANGED vars
  BY <1>25 DEF vars, staging, locks, reaper, thread, archive, client, faults, Steps
<1>26. ASSUME NEW r \in Requests, TurnAway(r)
      PROVE  TypeOK'
  <2>1. Gone({r})
    BY <1>26 DEF TurnAway
  <2> QED
    BY <1>26, <2>1, GoneTypes DEF TurnAway, staging, locks, reaper, archive, client, faults
<1>27. ASSUME NEW r \in Requests, NEW p \in Procs, Lookup(r, p)
      PROVE  TypeOK'
  BY <1>27, LookupTypes
<1> QED
  BY <1>1, <1>2, <1>3, <1>4, <1>5, <1>6, <1>7, <1>8, <1>9, <1>10, <1>11, <1>12, <1>13,
     <1>14, <1>15, <1>16, <1>17, <1>18, <1>19, <1>20, <1>21, <1>22, <1>23, <1>24, <1>25,
     <1>26, <1>27
     DEF Next, Arrive, Handle, Reap

\* Every step leaves the request slots coherent.
LEMMA SlotsStep ==
    ASSUME TypeOK, Slots, [Next]_vars
    PROVE  Slots'
<1> USE ChunkedUploadAssumption DEF TypeOK, Slots, Served, Locks, Chunks, ChunkSteps,
        FinalizeSteps, Present
<1>1. ASSUME NEW r \in Requests, NEW k \in Chunks, SendChunk(r, k)
      PROVE  Slots'
  BY <1>1, SendSlots DEF SendChunk
<1>2. ASSUME NEW r \in Requests, SendFinalize(r)
      PROVE  Slots'
  BY <1>2, SendSlots DEF SendFinalize
<1>3. ASSUME NEW r \in Requests, Acquire(r)
      PROVE  Slots'
  BY <1>3 DEF Acquire, Goto
<1>4. ASSUME NEW r \in Requests, Refuse(r)
      PROVE  Slots'
  <2>1. Gone({r})
    BY <1>4 DEF Refuse, Retry, Answer
  <2> QED
    BY <2>1, GoneSlots
<1>5. ASSUME NEW r \in Requests, MakeStaging(r)
      PROVE  Slots'
  BY <1>5 DEF MakeStaging, Goto
<1>6. ASSUME NEW r \in Requests, OpenChunk(r)
      PROVE  Slots'
  BY <1>6 DEF OpenChunk, Goto
<1>7. ASSUME NEW r \in Requests, OpenFails(r)
      PROVE  Slots'
  <2>1. Gone({r})
    BY <1>7 DEF OpenFails, Retry, Answer
  <2> QED
    BY <2>1, GoneSlots
<1>8. ASSUME NEW r \in Requests, SaveChunk(r)
      PROVE  Slots'
  BY <1>8 DEF SaveChunk, Goto
<1>9. ASSUME NEW r \in Requests, SaveFails(r)
      PROVE  Slots'
  <2>1. Gone({r})
    BY <1>9 DEF SaveFails, Retry, Answer
  <2> QED
    BY <2>1, GoneSlots
<1>10. ASSUME NEW r \in Requests, AcceptChunk(r)
      PROVE  Slots'
  <2>1. Gone({r})
    BY <1>10 DEF AcceptChunk, Answer
  <2> QED
    BY <2>1, GoneSlots
<1>11. ASSUME NEW r \in Requests, RejectChunk(r)
      PROVE  Slots'
  <2>1. Gone({r})
    BY <1>11 DEF RejectChunk, Retry, Answer
  <2> QED
    BY <2>1, GoneSlots
<1>12. ASSUME NEW r \in Requests, FinalizeRefused(r)
      PROVE  Slots'
  <2>1. Gone({r})
    BY <1>12 DEF FinalizeRefused, StartOver, Answer
  <2> QED
    BY <2>1, GoneSlots
<1>13. ASSUME NEW r \in Requests, Validate(r)
      PROVE  Slots'
  BY <1>13 DEF Validate, Goto
<1>14. ASSUME NEW r \in Requests, ReadChunk(r)
      PROVE  Slots'
  BY <1>14 DEF ReadChunk
<1>15. ASSUME NEW r \in Requests, Store(r)
      PROVE  Slots'
  BY <1>15 DEF Store, Ingest, BeginCleanup, Goto
<1>16. ASSUME NEW r \in Requests, StoreRaisesLate(r)
      PROVE  Slots'
  BY <1>16 DEF StoreRaisesLate, Ingest, BeginCleanup, Goto
<1>17. ASSUME NEW r \in Requests, StoreFails(r)
      PROVE  Slots'
  BY <1>17 DEF StoreFails, BeginCleanup, Goto
<1>18. ASSUME NEW r \in Requests, NEW k \in listed[r], CleanFile(r, k)
      PROVE  Slots'
  BY <1>18 DEF CleanFile
<1>19. ASSUME NEW r \in Requests, Conclude(r)
      PROVE  Slots'
  <2>1. Gone({r})
    BY <1>19 DEF Conclude, StartOver, Answer
  <2> QED
    BY <2>1, GoneSlots
<1>20. ASSUME Age
      PROVE  Slots'
  BY <1>20 DEF Age, thread
<1>21. ASSUME NEW p \in Procs, ReapBegin(p)
      PROVE  Slots'
  BY <1>21 DEF ReapBegin, thread
<1>22. ASSUME NEW p \in Procs, NEW k \in reaping[p], ReapFile(p, k)
      PROVE  Slots'
  BY <1>22 DEF ReapFile, thread
<1>23. ASSUME NEW p \in Procs, ReapEnd(p)
      PROVE  Slots'
  BY <1>23 DEF ReapEnd, RemoveDir, thread
<1>24. ASSUME NEW p \in Procs, Kill(p)
      PROVE  Slots'
  <2>1. Gone({r \in Requests : home[r] = p})
    BY <1>24 DEF Kill
  <2> QED
    BY <2>1, GoneSlots
<1>25. CASE UNCHANGED vars
  BY <1>25 DEF vars, thread
<1>26. ASSUME NEW r \in Requests, TurnAway(r)
      PROVE  Slots'
  <2>1. Gone({r})
    BY <1>26 DEF TurnAway
  <2> QED
    BY <2>1, GoneSlots
<1>27. ASSUME NEW r \in Requests, NEW p \in Procs, Lookup(r, p)
      PROVE  Slots'
  BY <1>27, LookupSlots
<1> QED
  BY <1>1, <1>2, <1>3, <1>4, <1>5, <1>6, <1>7, <1>8, <1>9, <1>10, <1>11, <1>12, <1>13,
     <1>14, <1>15, <1>16, <1>17, <1>18, <1>19, <1>20, <1>21, <1>22, <1>23, <1>24, <1>25,
     <1>26, <1>27
     DEF Next, Arrive, Handle, Reap

\* Initially nothing is staged and no request is served.
LEMMA InitTypes == Init => TypeOK /\ Slots
<1> SUFFICES ASSUME Init
             PROVE  TypeOK /\ Slots
  OBVIOUS
<1>1. Served = {}
  BY DEF Init, Served
<1>2. /\ N \in Nat /\ MaxRequests \in Nat
      /\ MaxKills \in Nat /\ MaxLost \in Nat /\ MaxLate \in Nat
  BY ChunkedUploadAssumption
<1>3. 0 \in 0 .. MaxRequests /\ 0 \in 0 .. N
  BY <1>2
<1>4. /\ 0 \in 0 .. MaxKills /\ 0 \in 0 .. MaxLost /\ 0 \in 0 .. MaxLate
  BY <1>2
<1>5. /\ file \in [Chunks -> {"none", "whole", "torn"} \cup Requests]
      /\ table \in [Procs -> 0 .. MaxRequests]
      /\ holder \in [Locks -> Requests \cup {None}]
      /\ reaping \in [Procs -> SUBSET Chunks] /\ sweeping \in [Procs -> BOOLEAN]
  BY <1>3 DEF Init
<1>6. /\ pc \in [Requests -> Steps] /\ home \in [Requests -> Procs \cup {None}]
      /\ index \in [Requests -> Chunks \cup {None}]
      /\ lock \in [Requests -> 0 .. MaxRequests]
      /\ next \in [Requests -> 0 .. N] /\ sound \in [Requests -> BOOLEAN]
      /\ listed \in [Requests -> SUBSET Chunks]
  BY <1>3 DEF Init, Steps
<1>7. /\ dir \in BOOLEAN /\ aged \in BOOLEAN
      /\ {revived, undone, orphaned, done, over} \subseteq BOOLEAN
  BY DEF Init
<1>8. /\ {copies, broken} \subseteq Nat
      /\ acked \in SUBSET Chunks
      /\ sent \in 0 .. MaxRequests
      /\ kills \in 0 .. MaxKills /\ lost \in 0 .. MaxLost /\ late \in 0 .. MaxLate
  BY <1>3, <1>4 DEF Init
<1> QED
  BY <1>1, <1>5, <1>6, <1>7, <1>8 DEF Slots, TypeOK

\* In every configuration the state is well typed and the request slots coherent.
THEOREM SlotsInvariance == Spec => [](TypeOK /\ Slots)
<1>1. TypeOK /\ Slots /\ [Next]_vars => (TypeOK /\ Slots)'
  BY TypeOKStep, SlotsStep
<1> QED
  BY <1>1, InitTypes, PTL DEF Spec

\* Every variable keeps to its type.
THEOREM TypeCorrectness == Spec => []TypeOK
  BY SlotsInvariance, PTL

-----------------------------------------------------------------------------
(* The lock of a process *)

\* A request waits for the lock that is in the table of its process, or puts one there.
LEMMA LookupTables ==
    ASSUME TypeOK, Slots, LocksAreTabled, NEW r \in Requests, NEW p \in Procs, Lookup(r, p)
    PROVE  LocksAreTabled'
<1> SUFFICES ASSUME ~orphaned', NEW q \in Served'
             PROVE  table'[home'[q]] = lock'[q]
  BY DEF LocksAreTabled
<1>1. CASE q = r
  BY <1>1, LookupFinds
<1>2. CASE q # r
  <2>1. /\ q \in Served /\ home'[q] = home[q] /\ lock'[q] = lock[q] /\ ~orphaned
    BY <1>2, LookupFinds DEF Served
  <2>2. home[q] \in Procs /\ lock[q] \in Locks /\ table[home[q]] = lock[q]
    BY <2>1 DEF Slots, LocksAreTabled
  <2>3. table[home[q]] # 0
    BY <2>2, ChunkedUploadAssumption DEF Locks
  <2>4. table'[home[q]] = table[home[q]]
    BY <2>2, <2>3, LookupFinds
  <2> QED
    BY <2>1, <2>2, <2>4
<1> QED
  BY <1>1, <1>2

\* A lock leaves the table with nobody waiting for it, or is orphaned.
LEMMA LocksAreTabledStep ==
    ASSUME LockInv, [Next]_vars
    PROVE  LocksAreTabled'
<1> USE ChunkedUploadAssumption DEF TypeOK, Slots, Served, Locks, LockInv, LocksAreTabled
<1>1. ASSUME NEW r \in Requests, NEW k \in Chunks, SendChunk(r, k)
      PROVE  LocksAreTabled'
  <2>1. \A q \in Served' : q \in Served
    BY <1>1, SendFinds DEF SendChunk
  <2> QED
    BY <1>1, <2>1, SendFinds DEF SendChunk
<1>2. ASSUME NEW r \in Requests, SendFinalize(r)
      PROVE  LocksAreTabled'
  <2>1. \A q \in Served' : q \in Served
    BY <1>2, SendFinds DEF SendFinalize
  <2> QED
    BY <1>2, <2>1, SendFinds DEF SendFinalize
<1>3. ASSUME NEW r \in Requests, Acquire(r)
      PROVE  LocksAreTabled'
  BY <1>3 DEF Acquire, Goto, archive
<1>4. ASSUME NEW r \in Requests, Refuse(r)
      PROVE  LocksAreTabled'
  BY <1>4 DEF Refuse, Retry, Answer, Gone, Release, Hear, archive
<1>5. ASSUME NEW r \in Requests, MakeStaging(r)
      PROVE  LocksAreTabled'
  BY <1>5 DEF MakeStaging, Goto, locks, archive
<1>6. ASSUME NEW r \in Requests, OpenChunk(r)
      PROVE  LocksAreTabled'
  BY <1>6 DEF OpenChunk, Goto, locks, archive
<1>7. ASSUME NEW r \in Requests, OpenFails(r)
      PROVE  LocksAreTabled'
  BY <1>7 DEF OpenFails, Retry, Answer, Gone, Release, Hear, archive
<1>8. ASSUME NEW r \in Requests, SaveChunk(r)
      PROVE  LocksAreTabled'
  BY <1>8 DEF SaveChunk, Goto, locks, archive
<1>9. ASSUME NEW r \in Requests, SaveFails(r)
      PROVE  LocksAreTabled'
  BY <1>9 DEF SaveFails, Retry, Answer, Gone, Release, Hear, archive
<1>10. ASSUME NEW r \in Requests, AcceptChunk(r)
      PROVE  LocksAreTabled'
  BY <1>10 DEF AcceptChunk, Answer, Gone, Release, Hear, archive
<1>11. ASSUME NEW r \in Requests, RejectChunk(r)
      PROVE  LocksAreTabled'
  BY <1>11 DEF RejectChunk, Retry, Answer, Gone, Release, Hear, archive
<1>12. ASSUME NEW r \in Requests, FinalizeRefused(r)
      PROVE  LocksAreTabled'
  BY <1>12 DEF FinalizeRefused, StartOver, Answer, Gone, Release, Hear, archive
<1>13. ASSUME NEW r \in Requests, Validate(r)
      PROVE  LocksAreTabled'
  BY <1>13 DEF Validate, Goto, locks, archive
<1>14. ASSUME NEW r \in Requests, ReadChunk(r)
      PROVE  LocksAreTabled'
  BY <1>14 DEF ReadChunk, locks, archive
<1>15. ASSUME NEW r \in Requests, Store(r)
      PROVE  LocksAreTabled'
  BY <1>15 DEF Store, Ingest, BeginCleanup, Goto, locks, archive
<1>16. ASSUME NEW r \in Requests, StoreRaisesLate(r)
      PROVE  LocksAreTabled'
  BY <1>16 DEF StoreRaisesLate, Ingest, BeginCleanup, Goto, locks, archive
<1>17. ASSUME NEW r \in Requests, StoreFails(r)
      PROVE  LocksAreTabled'
  BY <1>17 DEF StoreFails, BeginCleanup, Goto, locks, archive
<1>18. ASSUME NEW r \in Requests, NEW k \in listed[r], CleanFile(r, k)
      PROVE  LocksAreTabled'
  BY <1>18 DEF CleanFile, locks, archive
<1>19. ASSUME NEW r \in Requests, Conclude(r)
      PROVE  LocksAreTabled'
  <2>1. Gone({r}) /\ DropLock(r)
    BY <1>19 DEF Conclude, StartOver, Answer
  <2>2. SUFFICES ASSUME ~orphaned', NEW q \in Served'
                 PROVE  table'[home'[q]] = lock'[q]
    BY DEF LocksAreTabled
  <2>3. q \in Served /\ q # r /\ home'[q] = home[q] /\ lock'[q] = lock[q]
    BY <2>1, <2>2 DEF Gone
  <2>4. ~orphaned /\ home[q] # home[r]
    BY <2>1, <2>2, <2>3 DEF DropLock, Live
  <2> QED
    BY <2>1, <2>3, <2>4 DEF DropLock
<1>20. ASSUME Age
      PROVE  LocksAreTabled'
  BY <1>20 DEF Age, locks, thread, archive
<1>21. ASSUME NEW p \in Procs, ReapBegin(p)
      PROVE  LocksAreTabled'
  BY <1>21 DEF ReapBegin, locks, thread, archive
<1>22. ASSUME NEW p \in Procs, NEW k \in reaping[p], ReapFile(p, k)
      PROVE  LocksAreTabled'
  BY <1>22 DEF ReapFile, locks, thread, archive
<1>23. ASSUME NEW p \in Procs, ReapEnd(p)
      PROVE  LocksAreTabled'
  BY <1>23 DEF ReapEnd, RemoveDir, locks, thread, archive
<1>24. ASSUME NEW p \in Procs, Kill(p)
      PROVE  LocksAreTabled'
  BY <1>24 DEF Kill, Gone
<1>25. CASE UNCHANGED vars
  BY <1>25 DEF vars, locks, thread, archive
<1>26. ASSUME NEW r \in Requests, TurnAway(r)
      PROVE  LocksAreTabled'
  BY <1>26 DEF TurnAway, Gone, locks, archive
<1>27. ASSUME NEW r \in Requests, NEW p \in Procs, Lookup(r, p)
      PROVE  LocksAreTabled'
  BY <1>27, LookupTables DEF LockInv
<1> QED
  BY <1>1, <1>2, <1>3, <1>4, <1>5, <1>6, <1>7, <1>8, <1>9, <1>10, <1>11, <1>12, <1>13,
     <1>14, <1>15, <1>16, <1>17, <1>18, <1>19, <1>20, <1>21, <1>22, <1>23, <1>24, <1>25,
     <1>26, <1>27
     DEF Next, Arrive, Handle, Reap

\* Who is inside holds it until it leaves.
LEMMA HoldersAreInsideStep ==
    ASSUME LockInv, [Next]_vars
    PROVE  HoldersAreInside'
<1> USE ChunkedUploadAssumption DEF TypeOK, Slots, Served, Locks, LockInv, HoldersAreInside,
        InCriticalSection
<1>1. ASSUME NEW r \in Requests, NEW k \in Chunks, SendChunk(r, k)
      PROVE  HoldersAreInside'
  BY <1>1, SendFinds DEF SendChunk
<1>2. ASSUME NEW r \in Requests, SendFinalize(r)
      PROVE  HoldersAreInside'
  BY <1>2, SendFinds DEF SendFinalize
<1>3. ASSUME NEW r \in Requests, Acquire(r)
      PROVE  HoldersAreInside'
  BY <1>3 DEF Acquire, Goto
<1>4. ASSUME NEW r \in Requests, Refuse(r)
      PROVE  HoldersAreInside'
  BY <1>4 DEF Refuse, Retry, Answer, Gone, Release, Hear
<1>5. ASSUME NEW r \in Requests, MakeStaging(r)
      PROVE  HoldersAreInside'
  BY <1>5 DEF MakeStaging, Goto, locks
<1>6. ASSUME NEW r \in Requests, OpenChunk(r)
      PROVE  HoldersAreInside'
  BY <1>6 DEF OpenChunk, Goto, locks
<1>7. ASSUME NEW r \in Requests, OpenFails(r)
      PROVE  HoldersAreInside'
  BY <1>7 DEF OpenFails, Retry, Answer, Gone, Release, Hear
<1>8. ASSUME NEW r \in Requests, SaveChunk(r)
      PROVE  HoldersAreInside'
  BY <1>8 DEF SaveChunk, Goto, locks
<1>9. ASSUME NEW r \in Requests, SaveFails(r)
      PROVE  HoldersAreInside'
  BY <1>9 DEF SaveFails, Retry, Answer, Gone, Release, Hear
<1>10. ASSUME NEW r \in Requests, AcceptChunk(r)
      PROVE  HoldersAreInside'
  BY <1>10 DEF AcceptChunk, Answer, Gone, Release, Hear
<1>11. ASSUME NEW r \in Requests, RejectChunk(r)
      PROVE  HoldersAreInside'
  BY <1>11 DEF RejectChunk, Retry, Answer, Gone, Release, Hear
<1>12. ASSUME NEW r \in Requests, FinalizeRefused(r)
      PROVE  HoldersAreInside'
  BY <1>12 DEF FinalizeRefused, StartOver, Answer, Gone, Release, Hear
<1>13. ASSUME NEW r \in Requests, Validate(r)
      PROVE  HoldersAreInside'
  BY <1>13 DEF Validate, Goto, locks
<1>14. ASSUME NEW r \in Requests, ReadChunk(r)
      PROVE  HoldersAreInside'
  BY <1>14 DEF ReadChunk, locks
<1>15. ASSUME NEW r \in Requests, Store(r)
      PROVE  HoldersAreInside'
  BY <1>15 DEF Store, Ingest, BeginCleanup, Goto, locks
<1>16. ASSUME NEW r \in Requests, StoreRaisesLate(r)
      PROVE  HoldersAreInside'
  BY <1>16 DEF StoreRaisesLate, Ingest, BeginCleanup, Goto, locks
<1>17. ASSUME NEW r \in Requests, StoreFails(r)
      PROVE  HoldersAreInside'
  BY <1>17 DEF StoreFails, BeginCleanup, Goto, locks
<1>18. ASSUME NEW r \in Requests, NEW k \in listed[r], CleanFile(r, k)
      PROVE  HoldersAreInside'
  BY <1>18 DEF CleanFile, locks
<1>19. ASSUME NEW r \in Requests, Conclude(r)
      PROVE  HoldersAreInside'
  <2>1. Gone({r}) /\ Release(r)
    BY <1>19 DEF Conclude, StartOver, Answer
  <2> QED
    BY <1>19, <2>1 DEF Gone, Release, Conclude
<1>20. ASSUME Age
      PROVE  HoldersAreInside'
  BY <1>20 DEF Age, locks, thread
<1>21. ASSUME NEW p \in Procs, ReapBegin(p)
      PROVE  HoldersAreInside'
  BY <1>21 DEF ReapBegin, locks, thread
<1>22. ASSUME NEW p \in Procs, NEW k \in reaping[p], ReapFile(p, k)
      PROVE  HoldersAreInside'
  BY <1>22 DEF ReapFile, locks, thread
<1>23. ASSUME NEW p \in Procs, ReapEnd(p)
      PROVE  HoldersAreInside'
  BY <1>23 DEF ReapEnd, RemoveDir, locks, thread
<1>24. ASSUME NEW p \in Procs, Kill(p)
      PROVE  HoldersAreInside'
  BY <1>24 DEF Kill, Gone
<1>25. CASE UNCHANGED vars
  BY <1>25 DEF vars, locks, thread
<1>26. ASSUME NEW r \in Requests, TurnAway(r)
      PROVE  HoldersAreInside'
  BY <1>26 DEF TurnAway, Gone, locks
<1>27. ASSUME NEW r \in Requests, NEW p \in Procs, Lookup(r, p)
      PROVE  HoldersAreInside'
  BY <1>27, LookupFinds
<1> QED
  BY <1>1, <1>2, <1>3, <1>4, <1>5, <1>6, <1>7, <1>8, <1>9, <1>10, <1>11, <1>12, <1>13,
     <1>14, <1>15, <1>16, <1>17, <1>18, <1>19, <1>20, <1>21, <1>22, <1>23, <1>24, <1>25,
     <1>26, <1>27
     DEF Next, Arrive, Handle, Reap

\* The lock admits one request of a process at a time.
LEMMA LockAdmitsOne ==
    ASSUME LockInv
    PROVE  LockExcludes
<1> SUFFICES ASSUME ~orphaned, NEW q \in Requests, NEW r \in Requests,
                    InCriticalSection(q), InCriticalSection(r), home[q] = home[r]
             PROVE  q = r
  BY DEF LockExcludes
<1>1. q \in Served /\ r \in Served
  BY DEF InCriticalSection, Served
<1>2. holder[lock[q]] = q /\ holder[lock[r]] = r /\ lock[q] = lock[r]
  BY <1>1 DEF LockInv, LocksAreTabled, HoldersAreInside
<1> QED
  BY <1>2

\* The lock of a request is in the table of its process until one is orphaned.
THEOREM LockInvariance == Spec => []LockInv
<1>1. Init => LockInv
  BY InitTypes
     DEF Init, LockInv, LocksAreTabled, HoldersAreInside, InCriticalSection, Served
<1>2. LockInv /\ [Next]_vars => LockInv'
  BY TypeOKStep, SlotsStep, LocksAreTabledStep, HoldersAreInsideStep DEF LockInv
<1> QED
  BY <1>1, <1>2, PTL DEF Spec

\* "Only now is it safe to forget its lock" (api.py:611): whatever clients send, and however
\* many processes and requests there are, the requests of a process are inside one at a
\* time until a finalize forgets the lock with another request waiting for it.
THEOREM OneAtATimePerProcess == Spec => []LockExcludes
<1>1. LockInv => LockExcludes
  BY LockAdmitsOne
<1> QED
  BY <1>1, LockInvariance, PTL

-----------------------------------------------------------------------------
(* A client that waits for every answer *)

\* What may happen to the one request in flight: it is sent while nothing else is, it is
\* answered or dies with its worker, or it goes on and the client learns nothing.
SentAlone ==
    \E r \in Requests, k \in Chunks \cup {None} :
        /\ Live = {}
        /\ ~done
        /\ IF k = None THEN acked = Chunks ELSE k \notin acked
        /\ Send(r, k)

GoesOn ==
    /\ Live' \subseteq Live
    /\ \A r \in Live' : index'[r] = index[r]
    /\ UNCHANGED <<acked, done>>

\* With one request at most in flight, nothing else does.
LEMMA NoneIsInFlight ==
    ASSUME NEW r \in Requests, NEW k, Send(r, k), Overlap <= 1
    PROVE  Live = {}
<1>1. IsFiniteSet(Live)
  <2>1. Live \in SUBSET Requests
    BY DEF Live
  <2> QED
    BY <2>1, ChunkedUploadAssumption, FS_Subset
<1>2. Cardinality(Live) \in Nat /\ Cardinality(Live) < Overlap /\ Overlap \in Nat
  BY <1>1, FS_CardinalityType, ChunkedUploadAssumption DEF Send
<1>3. Cardinality(Live) = 0
  BY <1>2
<1> QED
  BY <1>1, <1>3, FS_EmptySet

\* An answer to the only request in flight leaves none.
LEMMA GoneLeavesNone ==
    ASSUME OneInFlight, NEW r \in Live, Gone({r})
    PROVE  Live' = {}
  BY DEF OneInFlight, Live, Gone

\* What a step does to the one request in flight.
LEMMA PatientStep ==
    ASSUME TypeOK, OneInFlight, Overlap <= 1, [Next]_vars
    PROVE  SentAlone \/ Live' = {} \/ GoesOn
<1>t. pc \in [Requests -> Steps] /\ index \in [Requests -> Chunks \cup {None}]
  BY DEF TypeOK
<1>1. ASSUME NEW r \in Requests, NEW k \in Chunks, SendChunk(r, k)
      PROVE  SentAlone \/ Live' = {} \/ GoesOn
  <2>1. k # None
    BY ChunkedUploadAssumption DEF Chunks
  <2> QED
    BY <1>1, <2>1, NoneIsInFlight DEF SendChunk, Send, SentAlone
<1>2. ASSUME NEW r \in Requests, SendFinalize(r)
      PROVE  SentAlone \/ Live' = {} \/ GoesOn
  BY <1>2, NoneIsInFlight DEF SendFinalize, Send, SentAlone
<1>3. ASSUME NEW r \in Requests, Acquire(r)
      PROVE  SentAlone \/ Live' = {} \/ GoesOn
  BY <1>t, <1>3 DEF Acquire, Goto, GoesOn, Live, client
<1>4. ASSUME NEW r \in Requests, Refuse(r)
      PROVE  SentAlone \/ Live' = {} \/ GoesOn
  <2>1. Gone({r}) /\ r \in Live
    BY <1>4 DEF Refuse, Retry, Answer, Live
  <2> QED
    BY <2>1, GoneLeavesNone
<1>5. ASSUME NEW r \in Requests, MakeStaging(r)
      PROVE  SentAlone \/ Live' = {} \/ GoesOn
  BY <1>t, <1>5 DEF MakeStaging, Goto, GoesOn, Live, client
<1>6. ASSUME NEW r \in Requests, OpenChunk(r)
      PROVE  SentAlone \/ Live' = {} \/ GoesOn
  BY <1>t, <1>6 DEF OpenChunk, Goto, GoesOn, Live, client
<1>7. ASSUME NEW r \in Requests, OpenFails(r)
      PROVE  SentAlone \/ Live' = {} \/ GoesOn
  <2>1. Gone({r}) /\ r \in Live
    BY <1>7 DEF OpenFails, Retry, Answer, Live
  <2> QED
    BY <2>1, GoneLeavesNone
<1>8. ASSUME NEW r \in Requests, SaveChunk(r)
      PROVE  SentAlone \/ Live' = {} \/ GoesOn
  BY <1>t, <1>8 DEF SaveChunk, Goto, GoesOn, Live, client
<1>9. ASSUME NEW r \in Requests, SaveFails(r)
      PROVE  SentAlone \/ Live' = {} \/ GoesOn
  <2>1. Gone({r}) /\ r \in Live
    BY <1>9 DEF SaveFails, Retry, Answer, Live
  <2> QED
    BY <2>1, GoneLeavesNone
<1>10. ASSUME NEW r \in Requests, AcceptChunk(r)
      PROVE  SentAlone \/ Live' = {} \/ GoesOn
  <2>1. Gone({r}) /\ r \in Live
    BY <1>10 DEF AcceptChunk, Answer, Live
  <2> QED
    BY <2>1, GoneLeavesNone
<1>11. ASSUME NEW r \in Requests, RejectChunk(r)
      PROVE  SentAlone \/ Live' = {} \/ GoesOn
  <2>1. Gone({r}) /\ r \in Live
    BY <1>11 DEF RejectChunk, Retry, Answer, Live
  <2> QED
    BY <2>1, GoneLeavesNone
<1>12. ASSUME NEW r \in Requests, FinalizeRefused(r)
      PROVE  SentAlone \/ Live' = {} \/ GoesOn
  <2>1. Gone({r}) /\ r \in Live
    BY <1>12 DEF FinalizeRefused, StartOver, Answer, Live
  <2> QED
    BY <2>1, GoneLeavesNone
<1>13. ASSUME NEW r \in Requests, Validate(r)
      PROVE  SentAlone \/ Live' = {} \/ GoesOn
  BY <1>t, <1>13 DEF Validate, Goto, GoesOn, Live, client
<1>14. ASSUME NEW r \in Requests, ReadChunk(r)
      PROVE  SentAlone \/ Live' = {} \/ GoesOn
  BY <1>t, <1>14 DEF ReadChunk, GoesOn, Live, client
<1>15. ASSUME NEW r \in Requests, Store(r)
      PROVE  SentAlone \/ Live' = {} \/ GoesOn
  BY <1>t, <1>15 DEF Store, Ingest, BeginCleanup, Goto, GoesOn, Live, client
<1>16. ASSUME NEW r \in Requests, StoreRaisesLate(r)
      PROVE  SentAlone \/ Live' = {} \/ GoesOn
  BY <1>t, <1>16 DEF StoreRaisesLate, Ingest, BeginCleanup, Goto, GoesOn, Live, client
<1>17. ASSUME NEW r \in Requests, StoreFails(r)
      PROVE  SentAlone \/ Live' = {} \/ GoesOn
  BY <1>t, <1>17 DEF StoreFails, BeginCleanup, Goto, GoesOn, Live, client
<1>18. ASSUME NEW r \in Requests, NEW k \in listed[r], CleanFile(r, k)
      PROVE  SentAlone \/ Live' = {} \/ GoesOn
  BY <1>t, <1>18 DEF CleanFile, GoesOn, Live, client
<1>19. ASSUME NEW r \in Requests, Conclude(r)
      PROVE  SentAlone \/ Live' = {} \/ GoesOn
  <2>1. Gone({r}) /\ r \in Live
    BY <1>19 DEF Conclude, StartOver, Answer, Live
  <2> QED
    BY <2>1, GoneLeavesNone
<1>20. ASSUME Age
      PROVE  SentAlone \/ Live' = {} \/ GoesOn
  BY <1>20 DEF Age, GoesOn, Live, thread, client
<1>21. ASSUME NEW p \in Procs, ReapBegin(p)
      PROVE  SentAlone \/ Live' = {} \/ GoesOn
  BY <1>21 DEF ReapBegin, GoesOn, Live, thread, client
<1>22. ASSUME NEW p \in Procs, NEW k \in reaping[p], ReapFile(p, k)
      PROVE  SentAlone \/ Live' = {} \/ GoesOn
  BY <1>22 DEF ReapFile, GoesOn, Live, thread, client
<1>23. ASSUME NEW p \in Procs, ReapEnd(p)
      PROVE  SentAlone \/ Live' = {} \/ GoesOn
  BY <1>23 DEF ReapEnd, RemoveDir, GoesOn, Live, thread, client
<1>24. ASSUME NEW p \in Procs, Kill(p)
      PROVE  SentAlone \/ Live' = {} \/ GoesOn
  <2>1. Gone({r \in Requests : home[r] = p}) /\ UNCHANGED client
    BY <1>24 DEF Kill
  <2> QED
    BY <2>1 DEF Gone, GoesOn, Live, client
<1>25. CASE UNCHANGED vars
  BY <1>25 DEF GoesOn, Live, vars, thread, client
<1>26. ASSUME NEW r \in Requests, TurnAway(r)
      PROVE  SentAlone \/ Live' = {} \/ GoesOn
  <2>1. Gone({r}) /\ r \in Live
    BY <1>26 DEF TurnAway, Live
  <2> QED
    BY <2>1, GoneLeavesNone
<1>27. ASSUME NEW r \in Requests, NEW p \in Procs, Lookup(r, p)
      PROVE  SentAlone \/ Live' = {} \/ GoesOn
  <2>1. Live' \subseteq Live /\ UNCHANGED <<index, acked, done>>
    BY <1>27, LookupFinds DEF Live
  <2> QED
    BY <2>1 DEF GoesOn
<1> QED
  BY <1>1, <1>2, <1>3, <1>4, <1>5, <1>6, <1>7, <1>8, <1>9, <1>10, <1>11, <1>12, <1>13,
     <1>14, <1>15, <1>16, <1>17, <1>18, <1>19, <1>20, <1>21, <1>22, <1>23, <1>24, <1>25,
     <1>26, <1>27
     DEF Next, Arrive, Handle, Reap

\* So what is in flight stays wanted.
LEMMA OneInFlightStep ==
    ASSUME TypeOK, OneInFlight, Overlap <= 1, [Next]_vars
    PROVE  OneInFlight'
<1>1. CASE SentAlone
  <2> PICK r \in Requests, k \in Chunks \cup {None} :
          /\ Live = {}
          /\ ~done
          /\ IF k = None THEN acked = Chunks ELSE k \notin acked
          /\ Send(r, k)
    BY <1>1 DEF SentAlone
  <2>1. Live' = {r} /\ index'[r] = k /\ UNCHANGED <<acked, done>>
    BY SendFinds DEF Live
  <2>2. \A q \in Live' : q = r
    BY <2>1
  <2> QED
    BY <2>1, <2>2 DEF OneInFlight
<1>2. CASE Live' = {}
  BY <1>2 DEF OneInFlight
<1>3. CASE GoesOn
  BY <1>3 DEF GoesOn, OneInFlight
<1> QED
  BY <1>1, <1>2, <1>3, PatientStep

\* The client learns of the chunks of the answer at most, and keeps the others or starts
\* over.
LEMMA AnswerLearns ==
    ASSUME NEW r \in Requests, NEW received, NEW stored, NEW failed,
           Answer(r, received, stored, failed)
    PROVE  /\ acked' = received \/ acked' = acked
           /\ Gone({r}) /\ Release(r)
  BY DEF Answer, Hear

\* When the only request is gone, the acknowledged chunks are what is left to look at.
LEMMA GoneIsWhole ==
    ASSUME OneInFlight, AckedAreWhole, NEW r \in Live, Gone({r}),
           \A k \in acked' : \/ file'[k] \in {"none", "whole"}
                           \/ (k \in acked /\ file'[k] = file[k])
    PROVE  AckedAreWhole'
<1>1. Live' = {}
  BY GoneLeavesNone
<1>2. sound' = [q \in Requests |-> TRUE]
  BY DEF Gone, AckedAreWhole
<1> QED
  BY <1>1, <1>2 DEF AckedAreWhole

\* A worker that dies cuts short what it is writing, which nobody is told of.
LEMMA DeathIsWhole ==
    ASSUME TypeOK, Slots, AckedAreWhole, NEW dead \in SUBSET Requests, Gone(dead),
           UNCHANGED client,
           file' = [c \in Chunks |-> IF file[c] \in dead THEN "torn" ELSE file[c]]
    PROVE  AckedAreWhole'
<1>t. /\ pc \in [Requests -> Steps] /\ index \in [Requests -> Chunks \cup {None}]
      /\ file \in [Chunks -> {"none", "whole", "torn"} \cup Requests]
      /\ acked \in SUBSET Chunks
  BY DEF TypeOK
<1>1. (\A k \in acked : file[k] \in {"none", "whole"})'
  <2>1. \A c \in acked : c \in Chunks /\ file[c] \notin Requests
    BY <1>t, ChunkedUploadAssumption DEF AckedAreWhole
  <2> QED
    BY <2>1 DEF AckedAreWhole, client
<1>2. \A q \in Live' : /\ q \in Live /\ q \notin dead
                      /\ pc'[q] = pc[q] /\ index'[q] = index[q]
  BY <1>t DEF Gone, Live
<1>3. \A q \in Live : pc[q] \in ChunkSteps => index[q] \in Chunks
  BY DEF Slots, Served, Live, ChunkSteps
<1>4. \A q \in Live : pc[q] = "saving" => file[index[q]] \in {"none", q}
  BY DEF AckedAreWhole
<1>5. \A q \in Live : pc[q] = "checking" => file[index[q]] \in {"none", "whole"}
  BY DEF AckedAreWhole
<1>6. (\A q \in Live : /\ pc[q] = "saving" => file[index[q]] \in {"none", q}
                       /\ pc[q] = "checking" => file[index[q]] \in {"none", "whole"})'
  BY <1>2, <1>3, <1>4, <1>5, ChunkedUploadAssumption DEF ChunkSteps, Live
<1>7. sound' = [q \in Requests |-> TRUE]
  BY DEF Gone, AckedAreWhole
<1> QED
  BY <1>1, <1>6, <1>7 DEF AckedAreWhole

\* A chunk that is acknowledged is not written again, and what a finalize reads is whole.
LEMMA AckedAreWholeStep ==
    ASSUME TypeOK, Slots, OneInFlight, AckedAreWhole, Overlap <= 1, [Next]_vars
    PROVE  AckedAreWhole'
<1>t. /\ pc \in [Requests -> Steps] /\ index \in [Requests -> Chunks \cup {None}]
      /\ file \in [Chunks -> {"none", "whole", "torn"} \cup Requests]
      /\ sound \in [Requests -> BOOLEAN] /\ acked \in SUBSET Chunks
      /\ \A q, r \in Live : q = r
      /\ \A r \in Live : index[r] = None \/ index[r] \notin acked
      /\ None \notin Chunks
  BY ChunkedUploadAssumption DEF TypeOK, OneInFlight, Chunks
<1>1. ASSUME NEW r \in Requests, NEW k \in Chunks, SendChunk(r, k)
      PROVE  AckedAreWhole'
  BY <1>1, <1>t, SendFinds DEF SendChunk, AckedAreWhole, Live
<1>2. ASSUME NEW r \in Requests, SendFinalize(r)
      PROVE  AckedAreWhole'
  BY <1>2, <1>t, SendFinds DEF SendFinalize, AckedAreWhole, Live
<1>3. ASSUME NEW r \in Requests, Acquire(r)
      PROVE  AckedAreWhole'
  BY <1>t, <1>3 DEF Acquire, Goto, AckedAreWhole, Live, client, staging
<1>4. ASSUME NEW r \in Requests, Refuse(r)
      PROVE  AckedAreWhole'
  <2>1. r \in Live /\ file' = file
    BY <1>4 DEF Refuse, Live, staging
  <2>2. Gone({r}) /\ acked' \subseteq acked
    BY <1>4 DEF Refuse, Retry, Answer, Hear
  <2> QED
    BY <2>1, <2>2, GoneIsWhole
<1>5. ASSUME NEW r \in Requests, MakeStaging(r)
      PROVE  AckedAreWhole'
  BY <1>t, <1>5 DEF MakeStaging, Goto, AckedAreWhole, Live, client
<1>6. ASSUME NEW r \in Requests, OpenChunk(r)
      PROVE  AckedAreWhole'
  <2>1. index[r] \in Chunks /\ r \in Live
    BY <1>6 DEF OpenChunk, Slots, Served, Live, ChunkSteps
  <2>2. index[r] \notin acked
    BY <2>1, <1>t DEF OneInFlight
  <2>3. file' = [file EXCEPT ![index[r]] = r] /\ UNCHANGED <<acked, index, sound>>
    BY <1>6 DEF OpenChunk, client
  <2>4. \A q \in Live' : q = r
    BY <1>6, <2>1, <1>t DEF OpenChunk, Goto, Live, OneInFlight
  <2>5. pc'[r] = "saving" /\ file'[index[r]] = r
    BY <1>6, <2>1, <2>3, <1>t DEF OpenChunk, Goto
  <2> QED
    BY <2>2, <2>3, <2>4, <2>5, <1>t DEF AckedAreWhole
<1>7. ASSUME NEW r \in Requests, OpenFails(r)
      PROVE  AckedAreWhole'
  <2>1. r \in Live /\ file' = file
    BY <1>7 DEF OpenFails, Live, staging
  <2>2. Gone({r}) /\ acked' \subseteq acked
    BY <1>7 DEF OpenFails, Retry, Answer, Hear
  <2> QED
    BY <2>1, <2>2, GoneIsWhole
<1>8. ASSUME NEW r \in Requests, SaveChunk(r)
      PROVE  AckedAreWhole'
  <2>1. index[r] \in Chunks /\ r \in Live
    BY <1>8 DEF SaveChunk, Slots, Served, Live, ChunkSteps
  <2>2. file[index[r]] = r
    BY <1>8, <2>1 DEF SaveChunk, AckedAreWhole
  <2>3. file' = [file EXCEPT ![index[r]] = "whole"] /\ UNCHANGED <<acked, index, sound>>
    BY <1>8, <2>2 DEF SaveChunk, client
  <2>4. \A q \in Live' : q = r
    BY <1>8, <2>1, <1>t DEF SaveChunk, Goto, Live, OneInFlight
  <2>5. pc'[r] = "checking" /\ file'[index[r]] = "whole"
    BY <1>8, <2>1, <2>3, <1>t DEF SaveChunk, Goto
  <2> QED
    BY <2>1, <2>3, <2>4, <2>5, <1>t DEF AckedAreWhole
<1>9. ASSUME NEW r \in Requests, SaveFails(r)
      PROVE  AckedAreWhole'
  <2>1. index[r] \in Chunks /\ r \in Live
    BY <1>9 DEF SaveFails, Slots, Served, Live, ChunkSteps
  <2>2. index[r] \notin acked
    BY <2>1, <1>t DEF OneInFlight
  <2>3. Gone({r}) /\ acked' \subseteq acked
    BY <1>9 DEF SaveFails, Retry, Answer, Hear
  <2>4. \A k \in Chunks : k # index[r] => file'[k] = file[k]
    BY <1>9, <1>t DEF SaveFails
  <2> QED
    BY <1>t, <2>1, <2>2, <2>3, <2>4, GoneIsWhole
<1>10. ASSUME NEW r \in Requests, AcceptChunk(r)
      PROVE  AckedAreWhole'
  <2>1. Answer(r, acked \cup {index[r]}, FALSE, FALSE) /\ r \in Live /\ file' = file
    BY <1>10 DEF AcceptChunk, Live, staging
  <2>2. Gone({r}) /\ acked' \subseteq acked \cup {index[r]}
    BY <2>1, AnswerLearns
  <2>3. file[index[r]] \in {"none", "whole"}
    BY <1>10, <2>1 DEF AcceptChunk, AckedAreWhole
  <2> QED
    BY <2>1, <2>2, <2>3, GoneIsWhole DEF AckedAreWhole
<1>11. ASSUME NEW r \in Requests, RejectChunk(r)
      PROVE  AckedAreWhole'
  <2>1. Answer(r, acked, FALSE, FALSE) /\ r \in Live
    BY <1>11 DEF RejectChunk, Retry, Live
  <2>2. Gone({r}) /\ acked' \subseteq acked
    BY <2>1, AnswerLearns
  <2>3. \A k \in Chunks : file'[k] \in {file[k], "none"}
    BY <1>11, <1>t DEF RejectChunk
  <2> QED
    BY <2>1, <2>2, <2>3, <1>t, GoneIsWhole DEF AckedAreWhole
<1>12. ASSUME NEW r \in Requests, FinalizeRefused(r)
      PROVE  AckedAreWhole'
  <2>1. r \in Live /\ file' = file
    BY <1>12 DEF FinalizeRefused, Live, staging
  <2>2. Gone({r}) /\ acked' \subseteq acked
    BY <1>12 DEF FinalizeRefused, StartOver, Answer, Hear
  <2> QED
    BY <2>1, <2>2, GoneIsWhole
<1>13. ASSUME NEW r \in Requests, Validate(r)
      PROVE  AckedAreWhole'
  BY <1>t, <1>13 DEF Validate, Goto, AckedAreWhole, Live, client, staging
<1>14. ASSUME NEW r \in Requests, ReadChunk(r)
      PROVE  AckedAreWhole'
  <2>1. index[r] = None /\ r \in Live
    BY <1>14 DEF ReadChunk, Slots, Served, Live, FinalizeSteps
  <2>2. acked = Chunks
    BY <2>1 DEF OneInFlight
  <2>3. file[next[r]] = "whole"
    BY <1>14, <2>2 DEF ReadChunk, Present, AckedAreWhole
  <2>4. sound' = sound
    BY <1>14, <1>t, <2>3 DEF ReadChunk, AckedAreWhole
  <2> QED
    BY <1>14, <2>4 DEF ReadChunk, AckedAreWhole, staging, client, Live
<1>15. ASSUME NEW r \in Requests, Store(r)
      PROVE  AckedAreWhole'
  BY <1>t, <1>15
     DEF Store, Ingest, BeginCleanup, Goto, AckedAreWhole, Live, client, staging
<1>16. ASSUME NEW r \in Requests, StoreRaisesLate(r)
      PROVE  AckedAreWhole'
  BY <1>t, <1>16
     DEF StoreRaisesLate, Ingest, BeginCleanup, Goto, AckedAreWhole, Live, client,
         staging
<1>17. ASSUME NEW r \in Requests, StoreFails(r)
      PROVE  AckedAreWhole'
  BY <1>t, <1>17 DEF StoreFails, BeginCleanup, Goto, AckedAreWhole, Live, client, staging
<1>18. ASSUME NEW r \in Requests, NEW k \in listed[r], CleanFile(r, k)
      PROVE  AckedAreWhole'
  <2>1. \A c \in Chunks : file'[c] \in {file[c], "none"}
    BY <1>t, <1>18 DEF CleanFile
  <2>2. UNCHANGED <<pc, index, sound, acked>>
    BY <1>18 DEF CleanFile, client
  <2>3. \A q \in Live : pc[q] \in ChunkSteps => index[q] \in Chunks
    BY DEF Slots, Served, Live, ChunkSteps
  <2> QED
    BY <1>t, <2>1, <2>2, <2>3 DEF AckedAreWhole, Live, ChunkSteps
<1>19. ASSUME NEW r \in Requests, Conclude(r)
      PROVE  AckedAreWhole'
  <2>1. r \in Live /\ file' = file
    BY <1>19 DEF Conclude, Live
  <2>2. CASE pc[r] = "stored"
    <3>1. Gone({r}) /\ acked' \subseteq acked
      BY <1>19, <2>2 DEF Conclude, Answer, Hear
    <3> QED
      BY <2>1, <3>1, GoneIsWhole
  <2>3. CASE pc[r] # "stored"
    <3>1. Gone({r}) /\ acked' \subseteq acked
      BY <1>19, <2>3 DEF Conclude, StartOver, Answer, Hear
    <3> QED
      BY <2>1, <3>1, GoneIsWhole
  <2> QED
    BY <2>2, <2>3
<1>20. ASSUME Age
      PROVE  AckedAreWhole'
  BY <1>t, <1>20 DEF Age, AckedAreWhole, Live, thread, client
<1>21. ASSUME NEW p \in Procs, ReapBegin(p)
      PROVE  AckedAreWhole'
  BY <1>t, <1>21 DEF ReapBegin, AckedAreWhole, Live, thread, client, staging
<1>22. ASSUME NEW p \in Procs, NEW k \in reaping[p], ReapFile(p, k)
      PROVE  AckedAreWhole'
  <2>1. \A c \in Chunks : file'[c] \in {file[c], "none"}
    BY <1>t, <1>22 DEF ReapFile
  <2>2. UNCHANGED <<pc, index, sound, acked>>
    BY <1>22 DEF ReapFile, thread, client
  <2>3. \A q \in Live : pc[q] \in ChunkSteps => index[q] \in Chunks
    BY DEF Slots, Served, Live, ChunkSteps
  <2> QED
    BY <1>t, <2>1, <2>2, <2>3 DEF AckedAreWhole, Live, ChunkSteps
<1>23. ASSUME NEW p \in Procs, ReapEnd(p)
      PROVE  AckedAreWhole'
  BY <1>t, <1>23 DEF ReapEnd, RemoveDir, AckedAreWhole, Live, thread, client
<1>24. ASSUME NEW p \in Procs, Kill(p)
      PROVE  AckedAreWhole'
  <2>1. Gone({r \in Requests : home[r] = p}) /\ UNCHANGED client
    BY <1>24 DEF Kill
  <2>2. file' = [c \in Chunks |-> IF file[c] \in {r \in Requests : home[r] = p} THEN "torn"
                                  ELSE file[c]]
    BY <1>24 DEF Kill
  <2> QED
    BY <2>1, <2>2, DeathIsWhole
<1>25. CASE UNCHANGED vars
  BY <1>25 DEF AckedAreWhole, Live, vars, thread, client, staging
<1>26. ASSUME NEW r \in Requests, TurnAway(r)
      PROVE  AckedAreWhole'
  <2>1. r \in Live /\ file' = file
    BY <1>26 DEF TurnAway, Live, staging
  <2>2. Gone({r}) /\ acked' = acked
    BY <1>26 DEF TurnAway, client
  <2> QED
    BY <2>1, <2>2, GoneIsWhole DEF AckedAreWhole
<1>27. ASSUME NEW r \in Requests, NEW p \in Procs, Lookup(r, p)
      PROVE  AckedAreWhole'
  BY <1>27, <1>t, LookupFinds DEF AckedAreWhole, Live
<1> QED
  BY <1>1, <1>2, <1>3, <1>4, <1>5, <1>6, <1>7, <1>8, <1>9, <1>10, <1>11, <1>12, <1>13,
     <1>14, <1>15, <1>16, <1>17, <1>18, <1>19, <1>20, <1>21, <1>22, <1>23, <1>24, <1>25,
     <1>26, <1>27
     DEF Next, Arrive, Handle, Reap

\* Sums of counters that only grow.
LEMMA SumGrows ==
    ASSUME NEW a \in Nat, NEW b \in Nat, NEW c \in Nat,
           NEW x \in Nat, NEW y \in Nat, NEW z \in Nat,
           a <= x, b <= y, c <= z
    PROVE  /\ a + b + c \in Nat /\ x + y + z \in Nat
           /\ a + b + c <= x + y + z
           /\ a < x \/ b < y => a + b + c + 1 <= x + y + z
  OBVIOUS

\* A step that stores nothing leaves the count accounted for, as long as a request that
\* has stored an archive stays, tells its client, or falls to a fault.
LEMMA CountStands ==
    ASSUME TypeOK, CopiesCounted, UNCHANGED <<copies, broken>>,
           kills' \in Nat, lost' \in Nat, late' \in Nat,
           kills <= kills', lost <= lost', late <= late',
           done => done',
           AnyStored' => AnyStored,
           AnyStored => AnyStored' \/ done' \/ kills < kills' \/ lost < lost'
    PROVE  CopiesCounted'
<1>1. /\ copies \in Nat /\ kills \in Nat /\ lost \in Nat /\ late \in Nat
      /\ MaxKills \in Nat /\ MaxLost \in Nat /\ MaxLate \in Nat
  BY ChunkedUploadAssumption DEF TypeOK
<1> DEFINE s == kills + lost + late
           t == kills' + lost' + late'
<1>2. s \in Nat /\ t \in Nat /\ s <= t /\ (kills < kills' \/ lost < lost' => s + 1 <= t)
  BY <1>1, SumGrows
<1>3. copies <= s + IF done \/ AnyStored THEN 1 ELSE 0
  BY DEF CopiesCounted
<1> HIDE DEF s, t
<1>4. copies <= t + IF done' \/ AnyStored' THEN 1 ELSE 0
  <2>1. CASE done' \/ AnyStored'
    <3>1. copies <= s + 1
      BY <1>1, <1>2, <1>3
    <3> QED
      BY <1>1, <1>2, <2>1, <3>1
  <2>2. CASE ~done' /\ ~AnyStored'
    <3>1. CASE AnyStored
      BY <1>1, <1>2, <1>3, <2>2, <3>1
    <3>2. CASE ~AnyStored
      BY <1>1, <1>2, <1>3, <2>2, <3>2
    <3> QED
      BY <3>1, <3>2
  <2> QED
    BY <2>1, <2>2
<1> QED
  BY <1>4 DEF t, CopiesCounted

\* An answer that tells of what has been stored, or nothing, is lost or believed.
LEMMA AnswerCounts ==
    ASSUME TypeOK, OneInFlight, CopiesCounted, NEW r \in Live,
           NEW received, NEW stored \in BOOLEAN, NEW failed,
           Answer(r, received, stored, failed), pc[r] = "stored" => stored = TRUE,
           UNCHANGED <<copies, broken>>
    PROVE  CopiesCounted'
<1>1. ~AnyStored'
  BY DEF Answer, Gone, AnyStored, OneInFlight, Live
<1>2. AnyStored => pc[r] = "stored"
  BY DEF AnyStored, OneInFlight, Live
<1>3. /\ kills \in Nat /\ lost \in Nat /\ late \in Nat
      /\ kills' = kills /\ late' = late /\ (lost' = lost \/ lost' = lost + 1)
  BY ChunkedUploadAssumption DEF TypeOK, Answer, Hear
<1>4. /\ done => done'
      /\ stored = TRUE => done' \/ lost' = lost + 1
  BY DEF Answer, Hear, TypeOK
<1> QED
  BY <1>1, <1>2, <1>3, <1>4, CountStands

\* A finalize that stores is the only request there is, so what it adds is the one copy
\* that no fault has to answer for.
LEMMA IngestCounts ==
    ASSUME TypeOK, Slots, OneInFlight, AckedAreWhole, CopiesCounted,
           NEW r \in Requests, Ingest(r)
    PROVE  /\ copies <= kills + lost + late
           /\ copies' = copies + 1 /\ broken' = 0
<1>1. r \in Live /\ pc[r] = "assembling"
  BY DEF Ingest, Live
<1>2. ~done /\ ~AnyStored
  BY <1>1 DEF OneInFlight, AnyStored, Live
<1>3. sound[r] = TRUE
  BY DEF AckedAreWhole
<1>4. /\ copies \in Nat /\ kills \in Nat /\ lost \in Nat /\ late \in Nat
      /\ MaxKills \in Nat /\ MaxLost \in Nat /\ MaxLate \in Nat
  BY ChunkedUploadAssumption DEF TypeOK
<1>5. copies <= kills + lost + late
  BY <1>2, <1>4 DEF CopiesCounted
<1> QED
  BY <1>3, <1>5 DEF Ingest, CopiesCounted

\* Each archive but the one the client has been told of is put down to a fault.
LEMMA CopiesCountedStep ==
    ASSUME TypeOK, Slots, OneInFlight, AckedAreWhole, CopiesCounted, Overlap <= 1,
           [Next]_vars
    PROVE  CopiesCounted'
<1>t. /\ pc \in [Requests -> Steps]
      /\ copies \in Nat /\ kills \in Nat /\ lost \in Nat /\ late \in Nat
      /\ MaxKills \in Nat /\ MaxLost \in Nat /\ MaxLate \in Nat
  BY ChunkedUploadAssumption DEF TypeOK
<1>1. ASSUME NEW r \in Requests, NEW k \in Chunks, SendChunk(r, k)
      PROVE  CopiesCounted'
  <2>1. Live = {} /\ Send(r, k)
    BY <1>1, NoneIsInFlight DEF SendChunk
  <2>2. ~AnyStored /\ ~AnyStored'
    BY <1>t, <2>1, SendFinds DEF AnyStored, Live
  <2>3. UNCHANGED <<copies, broken, kills, lost, late, done>>
    BY <2>1, SendFinds
  <2> QED
    BY <1>t, <2>2, <2>3, CountStands
<1>2. ASSUME NEW r \in Requests, SendFinalize(r)
      PROVE  CopiesCounted'
  <2>1. Live = {} /\ Send(r, None)
    BY <1>2, NoneIsInFlight DEF SendFinalize
  <2>2. ~AnyStored /\ ~AnyStored'
    BY <1>t, <2>1, SendFinds DEF AnyStored, Live
  <2>3. UNCHANGED <<copies, broken, kills, lost, late, done>>
    BY <2>1, SendFinds
  <2> QED
    BY <1>t, <2>2, <2>3, CountStands
<1>3. ASSUME NEW r \in Requests, Acquire(r)
      PROVE  CopiesCounted'
  <2>1. AnyStored' <=> AnyStored
    BY <1>t, <1>3 DEF Acquire, Goto, AnyStored
  <2>2. UNCHANGED <<copies, broken, kills, lost, late, done>>
    BY <1>3 DEF Acquire, archive, client, faults
  <2> QED
    BY <1>t, <2>1, <2>2, CountStands
<1>4. ASSUME NEW r \in Requests, Refuse(r)
      PROVE  CopiesCounted'
  <2>1. r \in Live /\ pc[r] # "stored" /\ UNCHANGED <<copies, broken>>
    BY <1>4 DEF Refuse, Live, archive
  <2>2. Answer(r, acked, FALSE, FALSE)
    BY <1>4 DEF Refuse, Retry
  <2> QED
    BY <2>1, <2>2, AnswerCounts
<1>5. ASSUME NEW r \in Requests, MakeStaging(r)
      PROVE  CopiesCounted'
  <2>1. AnyStored' <=> AnyStored
    BY <1>t, <1>5 DEF MakeStaging, Goto, AnyStored
  <2>2. UNCHANGED <<copies, broken, kills, lost, late, done>>
    BY <1>5 DEF MakeStaging, client, faults
  <2> QED
    BY <1>t, <2>1, <2>2, CountStands
<1>6. ASSUME NEW r \in Requests, OpenChunk(r)
      PROVE  CopiesCounted'
  <2>1. AnyStored' <=> AnyStored
    BY <1>t, <1>6 DEF OpenChunk, Goto, AnyStored
  <2>2. UNCHANGED <<copies, broken, kills, lost, late, done>>
    BY <1>6 DEF OpenChunk, archive, client, faults
  <2> QED
    BY <1>t, <2>1, <2>2, CountStands
<1>7. ASSUME NEW r \in Requests, OpenFails(r)
      PROVE  CopiesCounted'
  <2>1. r \in Live /\ pc[r] # "stored" /\ UNCHANGED <<copies, broken>>
    BY <1>7 DEF OpenFails, Live, archive
  <2>2. Answer(r, acked, FALSE, FALSE)
    BY <1>7 DEF OpenFails, Retry
  <2> QED
    BY <2>1, <2>2, AnswerCounts
<1>8. ASSUME NEW r \in Requests, SaveChunk(r)
      PROVE  CopiesCounted'
  <2>1. AnyStored' <=> AnyStored
    BY <1>t, <1>8 DEF SaveChunk, Goto, AnyStored
  <2>2. UNCHANGED <<copies, broken, kills, lost, late, done>>
    BY <1>8 DEF SaveChunk, archive, client, faults
  <2> QED
    BY <1>t, <2>1, <2>2, CountStands
<1>9. ASSUME NEW r \in Requests, SaveFails(r)
      PROVE  CopiesCounted'
  <2>1. r \in Live /\ pc[r] # "stored" /\ UNCHANGED <<copies, broken>>
    BY <1>9 DEF SaveFails, Live
  <2>2. Answer(r, acked, FALSE, FALSE)
    BY <1>9 DEF SaveFails, Retry
  <2> QED
    BY <2>1, <2>2, AnswerCounts
<1>10. ASSUME NEW r \in Requests, AcceptChunk(r)
      PROVE  CopiesCounted'
  <2>1. r \in Live /\ pc[r] # "stored" /\ UNCHANGED <<copies, broken>>
    BY <1>10 DEF AcceptChunk, Live, archive
  <2>2. Answer(r, acked \cup {index[r]}, FALSE, FALSE)
    BY <1>10 DEF AcceptChunk
  <2> QED
    BY <2>1, <2>2, AnswerCounts
<1>11. ASSUME NEW r \in Requests, RejectChunk(r)
      PROVE  CopiesCounted'
  <2>1. r \in Live /\ pc[r] # "stored" /\ UNCHANGED <<copies, broken>>
    BY <1>11 DEF RejectChunk, Live, archive
  <2>2. Answer(r, acked, FALSE, FALSE)
    BY <1>11 DEF RejectChunk, Retry
  <2> QED
    BY <2>1, <2>2, AnswerCounts
<1>12. ASSUME NEW r \in Requests, FinalizeRefused(r)
      PROVE  CopiesCounted'
  <2>1. r \in Live /\ pc[r] # "stored" /\ UNCHANGED <<copies, broken>>
    BY <1>12 DEF FinalizeRefused, Live, archive
  <2>2. Answer(r, {}, FALSE, TRUE)
    BY <1>12 DEF FinalizeRefused, StartOver
  <2> QED
    BY <2>1, <2>2, AnswerCounts
<1>13. ASSUME NEW r \in Requests, Validate(r)
      PROVE  CopiesCounted'
  <2>1. AnyStored' <=> AnyStored
    BY <1>t, <1>13 DEF Validate, Goto, AnyStored
  <2>2. UNCHANGED <<copies, broken, kills, lost, late, done>>
    BY <1>13 DEF Validate, archive, client, faults
  <2> QED
    BY <1>t, <2>1, <2>2, CountStands
<1>14. ASSUME NEW r \in Requests, ReadChunk(r)
      PROVE  CopiesCounted'
  <2>1. AnyStored' <=> AnyStored
    BY <1>t, <1>14 DEF ReadChunk, AnyStored
  <2>2. UNCHANGED <<copies, broken, kills, lost, late, done>>
    BY <1>14 DEF ReadChunk, archive, client, faults
  <2> QED
    BY <1>t, <2>1, <2>2, CountStands
<1>15. ASSUME NEW r \in Requests, Store(r)
      PROVE  CopiesCounted'
  <2>1. /\ copies <= kills + lost + late
        /\ copies' = copies + 1 /\ broken' = 0
    BY <1>15, IngestCounts DEF Store
  <2>2. AnyStored'
    BY <1>t, <1>15 DEF Store, BeginCleanup, Goto, AnyStored
  <2>3. UNCHANGED <<kills, lost, late>>
    BY <1>15 DEF Store, Ingest
  <2> QED
    BY <1>t, <2>1, <2>2, <2>3 DEF CopiesCounted
<1>16. ASSUME NEW r \in Requests, StoreRaisesLate(r)
      PROVE  CopiesCounted'
  <2>1. /\ copies <= kills + lost + late
        /\ copies' = copies + 1 /\ broken' = 0
    BY <1>16, IngestCounts DEF StoreRaisesLate
  <2>2. late' = late + 1 /\ UNCHANGED <<kills, lost>>
    BY <1>16 DEF StoreRaisesLate, Ingest
  <2> QED
    BY <1>t, <2>1, <2>2 DEF CopiesCounted
<1>17. ASSUME NEW r \in Requests, StoreFails(r)
      PROVE  CopiesCounted'
  <2>1. AnyStored' <=> AnyStored
    BY <1>t, <1>17 DEF StoreFails, BeginCleanup, Goto, AnyStored
  <2>2. UNCHANGED <<copies, broken, kills, lost, late, done>>
    BY <1>17 DEF StoreFails, archive, client, faults
  <2> QED
    BY <1>t, <2>1, <2>2, CountStands
<1>18. ASSUME NEW r \in Requests, NEW k \in listed[r], CleanFile(r, k)
      PROVE  CopiesCounted'
  <2>1. AnyStored' <=> AnyStored
    BY <1>t, <1>18 DEF CleanFile, AnyStored
  <2>2. UNCHANGED <<copies, broken, kills, lost, late, done>>
    BY <1>18 DEF CleanFile, archive, client, faults
  <2> QED
    BY <1>t, <2>1, <2>2, CountStands
<1>19. ASSUME NEW r \in Requests, Conclude(r)
      PROVE  CopiesCounted'
  <2>1. r \in Live /\ UNCHANGED <<copies, broken>>
    BY <1>19 DEF Conclude, Live
  <2>2. CASE pc[r] = "stored"
    <3>1. Answer(r, acked, TRUE, FALSE)
      BY <1>19, <2>2 DEF Conclude
    <3> QED
      BY <2>1, <3>1, AnswerCounts
  <2>3. CASE pc[r] # "stored"
    <3>1. Answer(r, {}, FALSE, TRUE)
      BY <1>19, <2>3 DEF Conclude, StartOver
    <3> QED
      BY <2>1, <2>3, <3>1, AnswerCounts
  <2> QED
    BY <2>2, <2>3
<1>20. ASSUME Age
      PROVE  CopiesCounted'
  <2>1. AnyStored' <=> AnyStored
    BY <1>t, <1>20 DEF Age, AnyStored, thread
  <2>2. UNCHANGED <<copies, broken, kills, lost, late, done>>
    BY <1>20 DEF Age, archive, client, faults
  <2> QED
    BY <1>t, <2>1, <2>2, CountStands
<1>21. ASSUME NEW p \in Procs, ReapBegin(p)
      PROVE  CopiesCounted'
  <2>1. AnyStored' <=> AnyStored
    BY <1>t, <1>21 DEF ReapBegin, AnyStored, thread
  <2>2. UNCHANGED <<copies, broken, kills, lost, late, done>>
    BY <1>21 DEF ReapBegin, archive, client, faults
  <2> QED
    BY <1>t, <2>1, <2>2, CountStands
<1>22. ASSUME NEW p \in Procs, NEW k \in reaping[p], ReapFile(p, k)
      PROVE  CopiesCounted'
  <2>1. AnyStored' <=> AnyStored
    BY <1>t, <1>22 DEF ReapFile, AnyStored, thread
  <2>2. UNCHANGED <<copies, broken, kills, lost, late, done>>
    BY <1>22 DEF ReapFile, archive, client, faults
  <2> QED
    BY <1>t, <2>1, <2>2, CountStands
<1>23. ASSUME NEW p \in Procs, ReapEnd(p)
      PROVE  CopiesCounted'
  <2>1. AnyStored' <=> AnyStored
    BY <1>t, <1>23 DEF ReapEnd, RemoveDir, AnyStored, thread
  <2>2. UNCHANGED <<copies, broken, kills, lost, late, done>>
    BY <1>23 DEF ReapEnd, RemoveDir, archive, client, faults
  <2> QED
    BY <1>t, <2>1, <2>2, CountStands
<1>24. ASSUME NEW p \in Procs, Kill(p)
      PROVE  CopiesCounted'
  <2>1. Gone({r \in Requests : home[r] = p}) /\ kills' = kills + 1
        /\ UNCHANGED <<copies, broken, lost, late, done>>
    BY <1>24 DEF Kill, client
  <2>2. AnyStored' => AnyStored
    BY <2>1 DEF Gone, AnyStored
  <2> QED
    BY <1>t, <2>1, <2>2, CountStands
<1>25. CASE UNCHANGED vars
  <2>1. AnyStored' <=> AnyStored
    BY <1>t, <1>25 DEF vars, AnyStored, thread
  <2>2. UNCHANGED <<copies, broken, kills, lost, late, done>>
    BY <1>25 DEF vars, archive, client, faults
  <2> QED
    BY <1>t, <2>1, <2>2, CountStands
<1>26. ASSUME NEW r \in Requests, TurnAway(r)
      PROVE  CopiesCounted'
  <2>1. r \in Live /\ pc[r] = "arriving" /\ Gone({r})
    BY <1>26 DEF TurnAway, Live
  <2>2. ~AnyStored /\ ~AnyStored'
    BY <2>1 DEF AnyStored, OneInFlight, Live, Gone
  <2>3. UNCHANGED <<copies, broken, kills, lost, late, done>>
    BY <1>26 DEF TurnAway, archive, client, faults
  <2> QED
    BY <1>t, <2>2, <2>3, CountStands
<1>27. ASSUME NEW r \in Requests, NEW p \in Procs, Lookup(r, p)
      PROVE  CopiesCounted'
  <2>1. AnyStored' <=> AnyStored
    BY <1>t, <1>27, LookupFinds DEF AnyStored
  <2>2. UNCHANGED <<copies, broken, kills, lost, late, done>>
    BY <1>27, LookupFinds
  <2> QED
    BY <1>t, <2>1, <2>2, CountStands
<1> QED
  BY <1>1, <1>2, <1>3, <1>4, <1>5, <1>6, <1>7, <1>8, <1>9, <1>10, <1>11, <1>12, <1>13,
     <1>14, <1>15, <1>16, <1>17, <1>18, <1>19, <1>20, <1>21, <1>22, <1>23, <1>24, <1>25,
     <1>26, <1>27
     DEF Next, Arrive, Handle, Reap

\* A client that waits for every answer keeps the invariant of one request, through
\* kills, lost answers and late failures, on any number of processes.
THEOREM PatientInvariance ==
    ASSUME Overlap <= 1
    PROVE  Spec => []PatientInv
<1>1. Init => PatientInv
  <2> SUFFICES ASSUME Init
               PROVE  OneInFlight /\ AckedAreWhole /\ CopiesCounted
    BY InitTypes DEF PatientInv
  <2>1. Live = {}
    BY DEF Init, Live
  <2>2. ~AnyStored
    BY DEF Init, AnyStored
  <2> QED
    BY <2>1, <2>2 DEF Init, OneInFlight, AckedAreWhole, CopiesCounted
<1>2. PatientInv /\ [Next]_vars => PatientInv'
  BY TypeOKStep, SlotsStep, OneInFlightStep, AckedAreWholeStep, CopiesCountedStep
     DEF PatientInv
<1> QED
  BY <1>1, <1>2, PTL DEF Spec

\* No archive with a missing or torn chunk is ever stored for such a client ...
THEOREM PatientUploadsAreWhole ==
    ASSUME Overlap <= 1
    PROVE  Spec => []StoredWhole
<1>1. PatientInv => StoredWhole
  BY DEF PatientInv, CopiesCounted, StoredWhole
<1> QED
  BY <1>1, PatientInvariance, PTL

\* ... and each copy but one is owed to a fault that has left it without an answer.
THEOREM PatientCopiesAreOwedToFaults ==
    ASSUME Overlap <= 1
    PROVE  Spec => []CopiesAccountedFor
<1>1. PatientInv => CopiesAccountedFor
  <2> SUFFICES ASSUME PatientInv
               PROVE  copies <= 1 + kills + lost + late
    BY DEF CopiesAccountedFor
  <2>1. /\ copies \in Nat /\ kills \in Nat /\ lost \in Nat /\ late \in Nat
        /\ MaxKills \in Nat /\ MaxLost \in Nat /\ MaxLate \in Nat
    BY ChunkedUploadAssumption DEF PatientInv, TypeOK
  <2>2. copies <= kills + lost + late + IF done \/ AnyStored THEN 1 ELSE 0
    BY DEF PatientInv, CopiesCounted
  <2>3. CASE done \/ AnyStored
    BY <2>1, <2>2, <2>3
  <2>4. CASE ~(done \/ AnyStored)
    BY <2>1, <2>2, <2>4
  <2> QED
    BY <2>3, <2>4
<1> QED
  BY <1>1, PatientInvariance, PTL

\* Every step of the handlers is a step of the session or invisible to it.
LEMMA SessionStep ==
    ASSUME PatientInv, Overlap <= 1, [Next]_vars
    PROVE  [Session!Next]_(Session!vars)
<1>t. /\ TypeOK /\ done \in BOOLEAN /\ copies \in Nat /\ broken \in Nat
  BY DEF PatientInv, TypeOK
<1>1. ASSUME NEW r \in Requests, NEW k \in Chunks, SendChunk(r, k)
      PROVE  [Session!Next]_(Session!vars)
  <2>1. Send(r, k)
    BY <1>1 DEF SendChunk
  <2>2. UNCHANGED <<acked, copies, broken, done>>
    BY <1>t, <2>1, SendFinds
  <2> QED
    BY <2>2 DEF Session!vars
<1>2. ASSUME NEW r \in Requests, SendFinalize(r)
      PROVE  [Session!Next]_(Session!vars)
  <2>1. Send(r, None)
    BY <1>2 DEF SendFinalize
  <2>2. UNCHANGED <<acked, copies, broken, done>>
    BY <1>t, <2>1, SendFinds
  <2> QED
    BY <2>2 DEF Session!vars
<1>3. ASSUME NEW r \in Requests, Acquire(r)
      PROVE  [Session!Next]_(Session!vars)
  <2>1. UNCHANGED <<acked, copies, broken, done>>
    BY <1>3 DEF Acquire, client, archive
  <2> QED
    BY <2>1 DEF Session!vars
<1>4. ASSUME NEW r \in Requests, Refuse(r)
      PROVE  [Session!Next]_(Session!vars)
  <2>1. UNCHANGED <<acked, copies, broken, done>>
    BY <1>t, <1>4 DEF Refuse, Retry, Answer, Hear, archive
  <2> QED
    BY <2>1 DEF Session!vars
<1>5. ASSUME NEW r \in Requests, MakeStaging(r)
      PROVE  [Session!Next]_(Session!vars)
  <2>1. UNCHANGED <<acked, copies, broken, done>>
    BY <1>5 DEF MakeStaging, client
  <2> QED
    BY <2>1 DEF Session!vars
<1>6. ASSUME NEW r \in Requests, OpenChunk(r)
      PROVE  [Session!Next]_(Session!vars)
  <2>1. UNCHANGED <<acked, copies, broken, done>>
    BY <1>6 DEF OpenChunk, client, archive
  <2> QED
    BY <2>1 DEF Session!vars
<1>7. ASSUME NEW r \in Requests, OpenFails(r)
      PROVE  [Session!Next]_(Session!vars)
  <2>1. UNCHANGED <<acked, copies, broken, done>>
    BY <1>t, <1>7 DEF OpenFails, Retry, Answer, Hear, archive
  <2> QED
    BY <2>1 DEF Session!vars
<1>8. ASSUME NEW r \in Requests, SaveChunk(r)
      PROVE  [Session!Next]_(Session!vars)
  <2>1. UNCHANGED <<acked, copies, broken, done>>
    BY <1>8 DEF SaveChunk, client, archive
  <2> QED
    BY <2>1 DEF Session!vars
<1>9. ASSUME NEW r \in Requests, SaveFails(r)
      PROVE  [Session!Next]_(Session!vars)
  <2>1. UNCHANGED <<acked, copies, broken, done>>
    BY <1>t, <1>9 DEF SaveFails, Retry, Answer, Hear
  <2> QED
    BY <2>1 DEF Session!vars
<1>10. ASSUME NEW r \in Requests, AcceptChunk(r)
      PROVE  [Session!Next]_(Session!vars)
  <2>1. /\ UNCHANGED <<copies, broken, done>>
        /\ (acked' = acked \/ acked' = acked \cup {index[r]})
    BY <1>t, <1>10 DEF AcceptChunk, Answer, Hear, archive
  <2>2. index[r] \in Chunks
    BY <1>10 DEF AcceptChunk, PatientInv, Slots, Served, ChunkSteps
  <2> QED
    BY <2>1, <2>2 DEF Session!vars, Session!Next, Session!Receive
<1>11. ASSUME NEW r \in Requests, RejectChunk(r)
      PROVE  [Session!Next]_(Session!vars)
  <2>1. UNCHANGED <<acked, copies, broken, done>>
    BY <1>t, <1>11 DEF RejectChunk, Retry, Answer, Hear, archive
  <2> QED
    BY <2>1 DEF Session!vars
<1>12. ASSUME NEW r \in Requests, FinalizeRefused(r)
      PROVE  [Session!Next]_(Session!vars)
  <2>1. UNCHANGED <<copies, broken, done>> /\ acked' \in {acked, {}}
    BY <1>t, <1>12 DEF FinalizeRefused, StartOver, Answer, Hear, archive
  <2> QED
    BY <2>1 DEF Session!vars, Session!Next, Session!Restart
<1>13. ASSUME NEW r \in Requests, Validate(r)
      PROVE  [Session!Next]_(Session!vars)
  <2>1. UNCHANGED <<acked, copies, broken, done>>
    BY <1>13 DEF Validate, client, archive
  <2> QED
    BY <2>1 DEF Session!vars
<1>14. ASSUME NEW r \in Requests, ReadChunk(r)
      PROVE  [Session!Next]_(Session!vars)
  <2>1. UNCHANGED <<acked, copies, broken, done>>
    BY <1>14 DEF ReadChunk, client, archive
  <2> QED
    BY <2>1 DEF Session!vars
<1>15. ASSUME NEW r \in Requests, Store(r)
      PROVE  [Session!Next]_(Session!vars)
  <2>1. Ingest(r) /\ UNCHANGED client
    BY <1>15 DEF Store, Ingest
  <2>2. copies' = copies + 1 /\ broken' = 0 /\ broken = 0
    BY <2>1, IngestCounts DEF PatientInv, CopiesCounted
  <2>3. acked = Chunks /\ ~done
    BY <2>1 DEF Ingest, PatientInv, OneInFlight, Slots, Served, Live,
        FinalizeSteps
  <2> QED
    BY <1>t, <2>1, <2>2, <2>3 DEF client, Session!Next, Session!Store
<1>16. ASSUME NEW r \in Requests, StoreRaisesLate(r)
      PROVE  [Session!Next]_(Session!vars)
  <2>1. Ingest(r) /\ UNCHANGED client
    BY <1>16 DEF StoreRaisesLate, Ingest
  <2>2. copies' = copies + 1 /\ broken' = 0 /\ broken = 0
    BY <2>1, IngestCounts DEF PatientInv, CopiesCounted
  <2>3. acked = Chunks /\ ~done
    BY <2>1 DEF Ingest, PatientInv, OneInFlight, Slots, Served, Live,
        FinalizeSteps
  <2> QED
    BY <1>t, <2>1, <2>2, <2>3 DEF client, Session!Next, Session!Store
<1>17. ASSUME NEW r \in Requests, StoreFails(r)
      PROVE  [Session!Next]_(Session!vars)
  <2>1. UNCHANGED <<acked, copies, broken, done>>
    BY <1>17 DEF StoreFails, BeginCleanup, client, archive
  <2> QED
    BY <2>1 DEF Session!vars
<1>18. ASSUME NEW r \in Requests, NEW k \in listed[r], CleanFile(r, k)
      PROVE  [Session!Next]_(Session!vars)
  <2>1. UNCHANGED <<acked, copies, broken, done>>
    BY <1>18 DEF CleanFile, client, archive
  <2> QED
    BY <2>1 DEF Session!vars
<1>19. ASSUME NEW r \in Requests, Conclude(r)
      PROVE  [Session!Next]_(Session!vars)
  <2>1. UNCHANGED <<copies, broken>>
    BY <1>19 DEF Conclude
  <2>2. CASE pc[r] = "stored"
    <3>1. copies + broken > 0
      BY <1>t, <2>2 DEF PatientInv, CopiesCounted, AnyStored
    <3>2. acked' = acked /\ (done' = done \/ done' = TRUE)
      BY <1>t, <1>19, <2>2 DEF Conclude, Answer, Hear
    <3> QED
      BY <2>1, <3>1, <3>2 DEF Session!vars, Session!Next, Session!Tell
  <2>3. CASE pc[r] # "stored"
    <3>1. done' = done /\ acked' \in {acked, {}}
      BY <1>t, <1>19, <2>3 DEF Conclude, StartOver, Answer, Hear
    <3> QED
      BY <2>1, <3>1 DEF Session!vars, Session!Next, Session!Restart
  <2> QED
    BY <2>2, <2>3
<1>20. ASSUME Age
      PROVE  [Session!Next]_(Session!vars)
  <2>1. UNCHANGED <<acked, copies, broken, done>>
    BY <1>20 DEF Age, client, archive
  <2> QED
    BY <2>1 DEF Session!vars
<1>21. ASSUME NEW p \in Procs, ReapBegin(p)
      PROVE  [Session!Next]_(Session!vars)
  <2>1. UNCHANGED <<acked, copies, broken, done>>
    BY <1>21 DEF ReapBegin, client, archive
  <2> QED
    BY <2>1 DEF Session!vars
<1>22. ASSUME NEW p \in Procs, NEW k \in reaping[p], ReapFile(p, k)
      PROVE  [Session!Next]_(Session!vars)
  <2>1. UNCHANGED <<acked, copies, broken, done>>
    BY <1>22 DEF ReapFile, client, archive
  <2> QED
    BY <2>1 DEF Session!vars
<1>23. ASSUME NEW p \in Procs, ReapEnd(p)
      PROVE  [Session!Next]_(Session!vars)
  <2>1. UNCHANGED <<acked, copies, broken, done>>
    BY <1>23 DEF ReapEnd, RemoveDir, client, archive
  <2> QED
    BY <2>1 DEF Session!vars
<1>24. ASSUME NEW p \in Procs, Kill(p)
      PROVE  [Session!Next]_(Session!vars)
  BY <1>24 DEF Kill, client, Session!vars
<1>25. CASE UNCHANGED vars
  <2>1. UNCHANGED <<acked, copies, broken, done>>
    BY <1>25 DEF vars, client, archive
  <2> QED
    BY <2>1 DEF Session!vars
<1>26. ASSUME NEW r \in Requests, TurnAway(r)
      PROVE  [Session!Next]_(Session!vars)
  <2>1. UNCHANGED <<acked, copies, broken, done>>
    BY <1>26 DEF TurnAway, client, archive
  <2> QED
    BY <2>1 DEF Session!vars
<1>27. ASSUME NEW r \in Requests, NEW p \in Procs, Lookup(r, p)
      PROVE  [Session!Next]_(Session!vars)
  <2>1. UNCHANGED <<acked, copies, broken, done>>
    BY <1>t, <1>27, LookupFinds
  <2> QED
    BY <2>1 DEF Session!vars
<1> QED
  BY <1>1, <1>2, <1>3, <1>4, <1>5, <1>6, <1>7, <1>8, <1>9, <1>10, <1>11, <1>12, <1>13,
     <1>14, <1>15, <1>16, <1>17, <1>18, <1>19, <1>20, <1>21, <1>22, <1>23, <1>24, <1>25,
     <1>26, <1>27
     DEF Next, Arrive, Handle, Reap

\* For a client that waits for every answer the handlers implement UploadSession: what is
\* stored was acknowledged chunk by chunk, it is told of only when it is stored, and
\* nothing is stored any more after that.
THEOREM PatientUploadIsASession ==
    ASSUME Overlap <= 1
    PROVE  Spec => ImplementsSession
<1>1. Init => Session!Init
  BY DEF Init, Session!Init
<1>2. PatientInv /\ [Next]_vars => [Session!Next]_(Session!vars)
  BY SessionStep
<1> QED
  BY <1>1, <1>2, PatientInvariance, PTL DEF Spec, ImplementsSession, Session!Spec

-----------------------------------------------------------------------------
(* One worker process *)

\* With one process that is one request at all.
LEMMA AloneInside ==
    ASSUME LockInv, ~orphaned, \A p, q \in Procs : p = q
    PROVE  \A q, r \in Requests : InCriticalSection(q) /\ InCriticalSection(r) => q = r
<1> SUFFICES ASSUME NEW q \in Requests, NEW r \in Requests,
                    InCriticalSection(q), InCriticalSection(r)
             PROVE  q = r
  OBVIOUS
<1>1. home[q] \in Procs /\ home[r] \in Procs
  BY DEF LockInv, Slots, InCriticalSection, Served
<1> QED
  BY <1>1, LockAdmitsOne DEF LockExcludes

\* A request that is not writing leaves nothing half written.
LEMMA GoneWritesNothing ==
    ASSUME TypeOK, Slots, WritersAreInside, NEW r \in Requests, Gone({r}), file' = file,
           \A k \in Chunks : file[k] # r
    PROVE  WritersAreInside'
  BY DEF Gone, WritersAreInside, Served, TypeOK, Slots, ChunkSteps

\* Unlinking files leaves the others as they are.
LEMMA UnlinkingWritesNothing ==
    ASSUME TypeOK, Slots, WritersAreInside, UNCHANGED <<pc, index>>,
           \A k \in Chunks : file'[k] \in {file[k], "none"}
    PROVE  WritersAreInside'
  BY ChunkedUploadAssumption DEF WritersAreInside, Served, TypeOK, Slots, ChunkSteps

\* What is half written is being written by the request that holds the lock.
LEMMA WritersAreInsideStep ==
    ASSUME TypeOK, Slots, WritersAreInside, LockInv, ~orphaned,
           \A p, q \in Procs : p = q, [Next]_vars
    PROVE  WritersAreInside'
<1>t. /\ pc \in [Requests -> Steps] /\ index \in [Requests -> Chunks \cup {None}]
      /\ file \in [Chunks -> {"none", "whole", "torn"} \cup Requests]
      /\ Requests \cap {"none", "whole", "torn"} = {}
  BY ChunkedUploadAssumption DEF TypeOK
<1>a. \A q, r \in Requests : InCriticalSection(q) /\ InCriticalSection(r) => q = r
  BY AloneInside
<1>1. ASSUME NEW r \in Requests, NEW k \in Chunks, SendChunk(r, k)
      PROVE  WritersAreInside'
  <2>1. Send(r, k)
    BY <1>1 DEF SendChunk
  <2>2. /\ pc[r] = "idle" /\ pc'[r] = "arriving" /\ file' = file
        /\ \A q \in Requests \ {r} : pc'[q] = pc[q] /\ index'[q] = index[q]
    BY <2>1, SendFinds
  <2> QED
    BY <1>t, <2>2 DEF WritersAreInside
<1>2. ASSUME NEW r \in Requests, SendFinalize(r)
      PROVE  WritersAreInside'
  <2>1. Send(r, None)
    BY <1>2 DEF SendFinalize
  <2>2. /\ pc[r] = "idle" /\ pc'[r] = "arriving" /\ file' = file
        /\ \A q \in Requests \ {r} : pc'[q] = pc[q] /\ index'[q] = index[q]
    BY <2>1, SendFinds
  <2> QED
    BY <1>t, <2>2 DEF WritersAreInside
<1>3. ASSUME NEW r \in Requests, Acquire(r)
      PROVE  WritersAreInside'
  <2>1. /\ UNCHANGED <<file, index>>
        /\ \A q \in Requests :
               pc'[q] = pc[q] \/ {pc[q], pc'[q]} \cap {"saving", "checking"} = {}
    BY <1>t, <1>3 DEF Acquire, Goto, staging
  <2> QED
    BY <1>t, <2>1 DEF WritersAreInside, Live
<1>4. ASSUME NEW r \in Requests, Refuse(r)
      PROVE  WritersAreInside'
  <2>1. pc[r] # "saving" /\ file' = file
    BY <1>4 DEF Refuse, staging
  <2>2. Gone({r})
    BY <1>4 DEF Refuse, Retry, Answer
  <2>3. \A k \in Chunks : file[k] # r
    BY <2>1 DEF WritersAreInside
  <2> QED
    BY <2>1, <2>2, <2>3, GoneWritesNothing
<1>5. ASSUME NEW r \in Requests, MakeStaging(r)
      PROVE  WritersAreInside'
  <2>1. /\ UNCHANGED <<file, index>>
        /\ \A q \in Requests :
               pc'[q] = pc[q] \/ {pc[q], pc'[q]} \cap {"saving", "checking"} = {}
    BY <1>t, <1>5 DEF MakeStaging, Goto
  <2> QED
    BY <1>t, <2>1 DEF WritersAreInside, Live
<1>6. ASSUME NEW r \in Requests, OpenChunk(r)
      PROVE  WritersAreInside'
  <2>1. r \in Live /\ index[r] \in Chunks /\ InCriticalSection(r)
    BY <1>6 DEF OpenChunk, Slots, Served, Live, ChunkSteps, InCriticalSection
  <2>2. /\ file' = [file EXCEPT ![index[r]] = r]
        /\ pc' = [pc EXCEPT ![r] = "saving"] /\ index' = index
    BY <1>6 DEF OpenChunk, Goto
  <2>3. \A q \in Requests : q # r => pc[q] \in {"idle", "arriving", "waiting"}
    BY <1>a, <2>1 DEF InCriticalSection
  <2>4. \A k \in Chunks : file[k] \in Requests => file[k] = r /\ k = index[r]
    BY <1>t, <2>3 DEF WritersAreInside
  <2> QED
    BY <1>t, <2>1, <2>2, <2>3, <2>4 DEF WritersAreInside, Live
<1>7. ASSUME NEW r \in Requests, OpenFails(r)
      PROVE  WritersAreInside'
  <2>1. pc[r] # "saving" /\ file' = file
    BY <1>7 DEF OpenFails, staging
  <2>2. Gone({r})
    BY <1>7 DEF OpenFails, Retry, Answer
  <2>3. \A k \in Chunks : file[k] # r
    BY <2>1 DEF WritersAreInside
  <2> QED
    BY <2>1, <2>2, <2>3, GoneWritesNothing
<1>8. ASSUME NEW r \in Requests, SaveChunk(r)
      PROVE  WritersAreInside'
  <2>1. r \in Live /\ index[r] \in Chunks /\ InCriticalSection(r)
    BY <1>8 DEF SaveChunk, Slots, Served, Live, ChunkSteps, InCriticalSection
  <2>a. file[index[r]] = r
    BY <1>8, <2>1 DEF SaveChunk, WritersAreInside
  <2>2. /\ file' = [file EXCEPT ![index[r]] = "whole"]
        /\ pc' = [pc EXCEPT ![r] = "checking"] /\ index' = index
    BY <1>8, <2>a DEF SaveChunk, Goto
  <2>3. \A q \in Requests : q # r => pc[q] \in {"idle", "arriving", "waiting"}
    BY <1>a, <2>1 DEF InCriticalSection
  <2>4. \A k \in Chunks : file[k] \in Requests => file[k] = r /\ k = index[r]
    BY <1>t, <2>3 DEF WritersAreInside
  <2> QED
    BY <1>t, <2>1, <2>2, <2>3, <2>4 DEF WritersAreInside, Live
<1>9. ASSUME NEW r \in Requests, SaveFails(r)
      PROVE  WritersAreInside'
  <2>1. InCriticalSection(r) /\ pc[r] = "saving"
    BY <1>9 DEF SaveFails, InCriticalSection
  <2>2. file' = [file EXCEPT ![index[r]] = IF @ = r THEN "torn" ELSE @] /\ Gone({r})
    BY <1>9 DEF SaveFails, Retry, Answer
  <2>3. \A q \in Requests : pc'[q] \in {"idle", "arriving", "waiting"}
    BY <1>a, <2>1, <2>2 DEF InCriticalSection, Gone
  <2>4. \A k \in Chunks : file[k] \in Requests => file[k] = r /\ k = index[r]
    BY <1>a, <2>1 DEF WritersAreInside, InCriticalSection
  <2>5. \A k \in Chunks : file'[k] \notin Requests
    BY <1>t, <2>2, <2>4
  <2> QED
    BY <2>3, <2>5 DEF WritersAreInside
<1>10. ASSUME NEW r \in Requests, AcceptChunk(r)
      PROVE  WritersAreInside'
  <2>1. pc[r] # "saving" /\ file' = file
    BY <1>10 DEF AcceptChunk, staging
  <2>2. Gone({r})
    BY <1>10 DEF AcceptChunk, Answer
  <2>3. \A k \in Chunks : file[k] # r
    BY <2>1 DEF WritersAreInside
  <2> QED
    BY <2>1, <2>2, <2>3, GoneWritesNothing
<1>11. ASSUME NEW r \in Requests, RejectChunk(r)
      PROVE  WritersAreInside'
  <2>1. Gone({r}) /\ pc[r] = "checking"
    BY <1>11 DEF RejectChunk, Retry, Answer
  <2>2. \A k \in Chunks : file'[k] \in {file[k], "none"}
    BY <1>t, <1>11 DEF RejectChunk
  <2>3. \A q \in Live' : /\ q \in Live /\ q # r
                        /\ pc'[q] = pc[q] /\ index'[q] = index[q]
    BY <1>t, <2>1 DEF Gone, Live
  <2>4. \A k \in Chunks : file[k] # r
    BY <2>1 DEF WritersAreInside
  <2>5. \A q \in Requests : q # r => pc'[q] = pc[q] /\ index'[q] = index[q]
    BY <2>1 DEF Gone
  <2> QED
    BY <1>t, <2>1, <2>2, <2>3, <2>4, <2>5
       DEF WritersAreInside, Slots, Served, Gone, ChunkSteps
<1>12. ASSUME NEW r \in Requests, FinalizeRefused(r)
      PROVE  WritersAreInside'
  <2>1. pc[r] # "saving" /\ file' = file
    BY <1>12 DEF FinalizeRefused, staging
  <2>2. Gone({r})
    BY <1>12 DEF FinalizeRefused, StartOver, Answer
  <2>3. \A k \in Chunks : file[k] # r
    BY <2>1 DEF WritersAreInside
  <2> QED
    BY <2>1, <2>2, <2>3, GoneWritesNothing
<1>13. ASSUME NEW r \in Requests, Validate(r)
      PROVE  WritersAreInside'
  <2>1. /\ UNCHANGED <<file, index>>
        /\ \A q \in Requests :
               pc'[q] = pc[q] \/ {pc[q], pc'[q]} \cap {"saving", "checking"} = {}
    BY <1>t, <1>13 DEF Validate, Goto, staging
  <2> QED
    BY <1>t, <2>1 DEF WritersAreInside, Live
<1>14. ASSUME NEW r \in Requests, ReadChunk(r)
      PROVE  WritersAreInside'
  <2>1. /\ UNCHANGED <<file, index>>
        /\ \A q \in Requests :
               pc'[q] = pc[q] \/ {pc[q], pc'[q]} \cap {"saving", "checking"} = {}
    BY <1>t, <1>14 DEF ReadChunk, staging
  <2> QED
    BY <1>t, <2>1 DEF WritersAreInside, Live
<1>15. ASSUME NEW r \in Requests, Store(r)
      PROVE  WritersAreInside'
  <2>1. /\ UNCHANGED <<file, index>>
        /\ \A q \in Requests :
               pc'[q] = pc[q] \/ {pc[q], pc'[q]} \cap {"saving", "checking"} = {}
    BY <1>t, <1>15 DEF Store, Ingest, BeginCleanup, Goto, staging
  <2> QED
    BY <1>t, <2>1 DEF WritersAreInside, Live
<1>16. ASSUME NEW r \in Requests, StoreRaisesLate(r)
      PROVE  WritersAreInside'
  <2>1. /\ UNCHANGED <<file, index>>
        /\ \A q \in Requests :
               pc'[q] = pc[q] \/ {pc[q], pc'[q]} \cap {"saving", "checking"} = {}
    BY <1>t, <1>16 DEF StoreRaisesLate, Ingest, BeginCleanup, Goto, staging
  <2> QED
    BY <1>t, <2>1 DEF WritersAreInside, Live
<1>17. ASSUME NEW r \in Requests, StoreFails(r)
      PROVE  WritersAreInside'
  <2>1. /\ UNCHANGED <<file, index>>
        /\ \A q \in Requests :
               pc'[q] = pc[q] \/ {pc[q], pc'[q]} \cap {"saving", "checking"} = {}
    BY <1>t, <1>17 DEF StoreFails, BeginCleanup, Goto, staging
  <2> QED
    BY <1>t, <2>1 DEF WritersAreInside, Live
<1>18. ASSUME NEW r \in Requests, NEW k \in listed[r], CleanFile(r, k)
      PROVE  WritersAreInside'
  <2>1. (\A c \in Chunks : file'[c] \in {file[c], "none"}) /\ UNCHANGED <<pc, index>>
    BY <1>t, <1>18 DEF CleanFile
  <2> QED
    BY <2>1, UnlinkingWritesNothing
<1>19. ASSUME NEW r \in Requests, Conclude(r)
      PROVE  WritersAreInside'
  <2>1. pc[r] # "saving" /\ file' = file
    BY <1>19 DEF Conclude
  <2>2. Gone({r})
    BY <1>19 DEF Conclude, StartOver, Answer
  <2>3. \A k \in Chunks : file[k] # r
    BY <2>1 DEF WritersAreInside
  <2> QED
    BY <2>1, <2>2, <2>3, GoneWritesNothing
<1>20. ASSUME Age
      PROVE  WritersAreInside'
  <2>1. /\ UNCHANGED <<file, index>>
        /\ \A q \in Requests :
               pc'[q] = pc[q] \/ {pc[q], pc'[q]} \cap {"saving", "checking"} = {}
    BY <1>t, <1>20 DEF Age, thread
  <2> QED
    BY <1>t, <2>1 DEF WritersAreInside, Live
<1>21. ASSUME NEW p \in Procs, ReapBegin(p)
      PROVE  WritersAreInside'
  <2>1. /\ UNCHANGED <<file, index>>
        /\ \A q \in Requests :
               pc'[q] = pc[q] \/ {pc[q], pc'[q]} \cap {"saving", "checking"} = {}
    BY <1>t, <1>21 DEF ReapBegin, thread, staging
  <2> QED
    BY <1>t, <2>1 DEF WritersAreInside, Live
<1>22. ASSUME NEW p \in Procs, NEW k \in reaping[p], ReapFile(p, k)
      PROVE  WritersAreInside'
  <2>1. (\A c \in Chunks : file'[c] \in {file[c], "none"}) /\ UNCHANGED <<pc, index>>
    BY <1>t, <1>22 DEF ReapFile, thread
  <2> QED
    BY <2>1, UnlinkingWritesNothing
<1>23. ASSUME NEW p \in Procs, ReapEnd(p)
      PROVE  WritersAreInside'
  <2>1. /\ UNCHANGED <<file, index>>
        /\ \A q \in Requests :
               pc'[q] = pc[q] \/ {pc[q], pc'[q]} \cap {"saving", "checking"} = {}
    BY <1>t, <1>23 DEF ReapEnd, RemoveDir, thread
  <2> QED
    BY <1>t, <2>1 DEF WritersAreInside, Live
<1>24. ASSUME NEW p \in Procs, Kill(p)
      PROVE  WritersAreInside'
  <2>1. \A q \in Requests : pc'[q] \in {"idle", "arriving"}
    <3>1. \A q \in Served : home[q] = p
      BY DEF Slots
    <3> QED
      BY <1>24, <3>1 DEF Kill, Gone, Served
  <2>2. \A k \in Chunks : file[k] \in Requests => home[file[k]] = p
    BY <1>t DEF WritersAreInside, Slots, Served
  <2>3. \A k \in Chunks : file'[k] \notin Requests
    BY <1>t, <1>24, <2>2 DEF Kill
  <2> QED
    BY <2>1, <2>3 DEF WritersAreInside
<1>25. CASE UNCHANGED vars
  <2>1. /\ UNCHANGED <<file, index>>
        /\ \A q \in Requests :
               pc'[q] = pc[q] \/ {pc[q], pc'[q]} \cap {"saving", "checking"} = {}
    BY <1>t, <1>25 DEF vars, thread, staging
  <2> QED
    BY <1>t, <2>1 DEF WritersAreInside, Live
<1>26. ASSUME NEW r \in Requests, TurnAway(r)
      PROVE  WritersAreInside'
  <2>1. pc[r] # "saving" /\ file' = file /\ Gone({r})
    BY <1>26 DEF TurnAway, staging
  <2>2. \A k \in Chunks : file[k] # r
    BY <2>1 DEF WritersAreInside
  <2> QED
    BY <2>1, <2>2, GoneWritesNothing
<1>27. ASSUME NEW r \in Requests, NEW p \in Procs, Lookup(r, p)
      PROVE  WritersAreInside'
  <2>1. /\ pc[r] = "arriving" /\ pc'[r] = "waiting" /\ UNCHANGED <<file, index>>
        /\ \A q \in Requests \ {r} : pc'[q] = pc[q]
    BY <1>27, LookupFinds
  <2> QED
    BY <1>t, <2>1 DEF WritersAreInside
<1> QED
  BY <1>1, <1>2, <1>3, <1>4, <1>5, <1>6, <1>7, <1>8, <1>9, <1>10, <1>11, <1>12, <1>13,
     <1>14, <1>15, <1>16, <1>17, <1>18, <1>19, <1>20, <1>21, <1>22, <1>23, <1>24, <1>25,
     <1>26, <1>27
     DEF Next, Arrive, Handle, Reap

\* What the client knows after a step that neither tears a file nor starts a finalize.
LEMMA TornStands ==
    ASSUME TypeOK, TornAreUndone, UNCHANGED <<undone, broken, sound>>,
           \A k \in Chunks : file'[k] = "torn" =>
               file[k] = "torn" /\ (k \in acked' => k \in acked),
           \A r \in Live' : index'[r] = None => \E q \in Live : index[q] = None
    PROVE  TornAreUndone'
  BY DEF TornAreUndone, CountedOn, Live

\* An answer acknowledges at most what the handler has looked at.
LEMMA AnswerTearsNothing ==
    ASSUME TypeOK, TornAreUndone, NEW r \in Requests, Gone({r}),
           UNCHANGED <<undone, broken>>,
           \A k \in Chunks : file'[k] = "torn" =>
               file[k] = "torn" /\ (k \in acked' => k \in acked)
    PROVE  TornAreUndone'
<1>1. undone \/ sound' = [q \in Requests |-> TRUE]
  BY DEF Gone, TornAreUndone
<1>2. \A q \in Live' : q \in Live /\ index'[q] = index[q]
  BY DEF Gone, Live
<1> QED
  BY <1>1, <1>2 DEF TornAreUndone, CountedOn

\* A torn file is seen by no finalize, unless a write was cut short that was counted on.
LEMMA TornAreUndoneStep ==
    ASSUME TypeOK, Slots, WritersAreInside, TornAreUndone, LockInv, ~orphaned,
           \A p, q \in Procs : p = q, [Next]_vars
    PROVE  TornAreUndone'
<1>t. /\ pc \in [Requests -> Steps] /\ index \in [Requests -> Chunks \cup {None}]
      /\ file \in [Chunks -> {"none", "whole", "torn"} \cup Requests]
      /\ acked \in SUBSET Chunks /\ None \notin Chunks
      /\ Requests \cap {"none", "whole", "torn"} = {}
  BY ChunkedUploadAssumption DEF TypeOK, Chunks
<1>a. \A q, r \in Requests : InCriticalSection(q) /\ InCriticalSection(r) => q = r
  BY AloneInside
<1>1. ASSUME NEW r \in Requests, NEW k \in Chunks, SendChunk(r, k)
      PROVE  TornAreUndone'
  <2>1. Send(r, k) /\ k # None
    BY <1>t, <1>1 DEF SendChunk
  <2>2. /\ index'[r] = k
        /\ \A q \in Requests \ {r} : pc'[q] = pc[q] /\ index'[q] = index[q]
        /\ UNCHANGED <<file, undone, broken, sound, acked>>
    BY <2>1, SendFinds
  <2> QED
    BY <1>t, <2>1, <2>2, TornStands DEF Live
<1>2. ASSUME NEW r \in Requests, SendFinalize(r)
      PROVE  TornAreUndone'
  <2>1. Send(r, None) /\ acked = Chunks
    BY <1>t, <1>2 DEF SendFinalize
  <2>2. UNCHANGED <<file, undone, broken, sound, acked>>
    BY <2>1, SendFinds
  <2>3. \A k \in Chunks : CountedOn(k, Requests)
    BY <2>1 DEF CountedOn
  <2> QED
    BY <2>2, <2>3 DEF TornAreUndone
<1>3. ASSUME NEW r \in Requests, Acquire(r)
      PROVE  TornAreUndone'
  <2>1. \A c \in Chunks : file'[c] = "torn" => file[c] = "torn"
    BY <1>t, <1>3 DEF Acquire, staging
  <2>2. UNCHANGED <<undone, broken, sound, acked, index>>
    BY <1>3 DEF Acquire, archive, client
  <2>3. Live' \subseteq Live
    BY <1>t, <1>3 DEF Acquire, Goto, Live
  <2> QED
    BY <2>1, <2>2, <2>3, TornStands
<1>4. ASSUME NEW r \in Requests, Refuse(r)
      PROVE  TornAreUndone'
  <2>1. Gone({r}) /\ acked' \subseteq acked
    BY <1>4 DEF Refuse, Retry, Answer, Hear
  <2>2. UNCHANGED <<undone, broken>> /\ file' = file
    BY <1>t, <1>4 DEF Refuse, archive, staging
  <2> QED
    BY <2>1, <2>2, AnswerTearsNothing
<1>5. ASSUME NEW r \in Requests, MakeStaging(r)
      PROVE  TornAreUndone'
  <2>1. \A c \in Chunks : file'[c] = "torn" => file[c] = "torn"
    BY <1>t, <1>5 DEF MakeStaging
  <2>2. UNCHANGED <<undone, broken, sound, acked, index>>
    BY <1>5 DEF MakeStaging, client
  <2>3. Live' \subseteq Live
    BY <1>t, <1>5 DEF MakeStaging, Goto, Live
  <2> QED
    BY <2>1, <2>2, <2>3, TornStands
<1>6. ASSUME NEW r \in Requests, OpenChunk(r)
      PROVE  TornAreUndone'
  <2>1. \A c \in Chunks : file'[c] = "torn" => file[c] = "torn"
    BY <1>t, <1>6 DEF OpenChunk
  <2>2. UNCHANGED <<undone, broken, sound, acked, index>>
    BY <1>6 DEF OpenChunk, archive, client
  <2>3. Live' \subseteq Live
    BY <1>t, <1>6 DEF OpenChunk, Goto, Live
  <2> QED
    BY <2>1, <2>2, <2>3, TornStands
<1>7. ASSUME NEW r \in Requests, OpenFails(r)
      PROVE  TornAreUndone'
  <2>1. Gone({r}) /\ acked' \subseteq acked
    BY <1>7 DEF OpenFails, Retry, Answer, Hear
  <2>2. UNCHANGED <<undone, broken>> /\ file' = file
    BY <1>t, <1>7 DEF OpenFails, archive, staging
  <2> QED
    BY <2>1, <2>2, AnswerTearsNothing
<1>8. ASSUME NEW r \in Requests, SaveChunk(r)
      PROVE  TornAreUndone'
  <2>1. \A c \in Chunks : file'[c] = "torn" => file[c] = "torn"
    BY <1>t, <1>8 DEF SaveChunk
  <2>2. UNCHANGED <<undone, broken, sound, acked, index>>
    BY <1>8 DEF SaveChunk, archive, client
  <2>3. Live' \subseteq Live
    BY <1>t, <1>8 DEF SaveChunk, Goto, Live
  <2> QED
    BY <2>1, <2>2, <2>3, TornStands
<1>9. ASSUME NEW r \in Requests, SaveFails(r)
      PROVE  TornAreUndone'
  <2>1. Gone({r}) /\ acked' \subseteq acked /\ broken' = broken
    BY <1>9 DEF SaveFails, Retry, Answer, Hear
  <2>2. \A k \in Chunks : CountedOn(k, Requests)' => CountedOn(k, Requests)
    BY <2>1 DEF CountedOn, Gone, Live
  <2>3. \A k \in Chunks :
            file'[k] = "torn" => file[k] = "torn" \/ (k = index[r] /\ file[index[r]] = r)
    BY <1>t, <1>9 DEF SaveFails
  <2>4. undone' <=> undone \/ (file[index[r]] = r /\ CountedOn(index[r], Requests))
    BY <1>9 DEF SaveFails
  <2>5. undone' \/ sound' = [q \in Requests |-> TRUE]
    BY <2>1, <2>4 DEF Gone, TornAreUndone
  <2> QED
    BY <2>1, <2>2, <2>3, <2>4, <2>5 DEF TornAreUndone
<1>10. ASSUME NEW r \in Requests, AcceptChunk(r)
      PROVE  TornAreUndone'
  <2>1. Gone({r}) /\ acked' \subseteq acked \cup {index[r]}
    BY <1>10 DEF AcceptChunk, Answer, Hear
  <2>2. UNCHANGED <<undone, broken>> /\ file' = file
    BY <1>t, <1>10 DEF AcceptChunk, archive, staging
  <2>3. file[index[r]] # "torn"
    BY <1>t, <1>10 DEF AcceptChunk, WritersAreInside, Live
  <2> QED
    BY <2>1, <2>2, <2>3, AnswerTearsNothing
<1>11. ASSUME NEW r \in Requests, RejectChunk(r)
      PROVE  TornAreUndone'
  <2>1. Gone({r}) /\ acked' \subseteq acked
    BY <1>11 DEF RejectChunk, Retry, Answer, Hear
  <2>2. /\ UNCHANGED <<undone, broken>>
        /\ \A k \in Chunks : file'[k] = "torn" => file[k] = "torn"
    BY <1>t, <1>11 DEF RejectChunk, archive
  <2> QED
    BY <2>1, <2>2, AnswerTearsNothing
<1>12. ASSUME NEW r \in Requests, FinalizeRefused(r)
      PROVE  TornAreUndone'
  <2>1. Gone({r}) /\ acked' \subseteq acked
    BY <1>12 DEF FinalizeRefused, StartOver, Answer, Hear
  <2>2. UNCHANGED <<undone, broken>> /\ file' = file
    BY <1>t, <1>12 DEF FinalizeRefused, archive, staging
  <2> QED
    BY <2>1, <2>2, AnswerTearsNothing
<1>13. ASSUME NEW r \in Requests, Validate(r)
      PROVE  TornAreUndone'
  <2>1. \A c \in Chunks : file'[c] = "torn" => file[c] = "torn"
    BY <1>t, <1>13 DEF Validate, staging
  <2>2. UNCHANGED <<undone, broken, sound, acked, index>>
    BY <1>13 DEF Validate, archive, client
  <2>3. Live' \subseteq Live
    BY <1>t, <1>13 DEF Validate, Goto, Live
  <2> QED
    BY <2>1, <2>2, <2>3, TornStands
<1>14. ASSUME NEW r \in Requests, ReadChunk(r)
      PROVE  TornAreUndone'
  <2>1. InCriticalSection(r) /\ r \in Live /\ index[r] = None /\ next[r] \in Chunks
    BY <1>14 DEF ReadChunk, InCriticalSection, Live, Served, Slots, FinalizeSteps, Present
  <2>2. file[next[r]] \notin Requests
    BY <1>a, <1>14, <2>1 DEF ReadChunk, WritersAreInside, InCriticalSection
  <2>3. file[next[r]] = "torn" => undone
    BY <2>1 DEF TornAreUndone, CountedOn
  <2>4. undone \/ file[next[r]] = "whole"
    BY <1>t, <1>14, <2>1, <2>2, <2>3 DEF ReadChunk, Present
  <2>5. undone \/ sound' = [q \in Requests |-> TRUE]
    BY <1>14, <2>4 DEF ReadChunk, TornAreUndone
  <2>6. UNCHANGED <<undone, broken, file, acked, index, pc>>
    BY <1>14 DEF ReadChunk, archive, client, staging
  <2> QED
    BY <2>5, <2>6 DEF TornAreUndone, CountedOn, Live
<1>15. ASSUME NEW r \in Requests, Store(r)
      PROVE  TornAreUndone'
  <2>1. UNCHANGED <<undone, file, acked, index, sound>> /\ Live' = Live
    BY <1>t, <1>15 DEF Store, Ingest, BeginCleanup, Goto, Live, client, staging
  <2>2. undone \/ broken' = broken + 0
    BY <1>15 DEF Store, Ingest, TornAreUndone
  <2>3. broken \in Nat
    BY DEF TypeOK
  <2> QED
    BY <2>1, <2>2, <2>3 DEF TornAreUndone, CountedOn
<1>16. ASSUME NEW r \in Requests, StoreRaisesLate(r)
      PROVE  TornAreUndone'
  <2>1. UNCHANGED <<undone, file, acked, index, sound>> /\ Live' = Live
    BY <1>t, <1>16 DEF StoreRaisesLate, Ingest, BeginCleanup, Goto, Live, client, staging
  <2>2. undone \/ broken' = broken + 0
    BY <1>16 DEF StoreRaisesLate, Ingest, TornAreUndone
  <2>3. broken \in Nat
    BY DEF TypeOK
  <2> QED
    BY <2>1, <2>2, <2>3 DEF TornAreUndone, CountedOn
<1>17. ASSUME NEW r \in Requests, StoreFails(r)
      PROVE  TornAreUndone'
  <2>1. \A c \in Chunks : file'[c] = "torn" => file[c] = "torn"
    BY <1>t, <1>17 DEF StoreFails, BeginCleanup, staging
  <2>2. UNCHANGED <<undone, broken, sound, acked, index>>
    BY <1>17 DEF StoreFails, BeginCleanup, archive, client
  <2>3. Live' \subseteq Live
    BY <1>t, <1>17 DEF StoreFails, BeginCleanup, Goto, Live
  <2> QED
    BY <2>1, <2>2, <2>3, TornStands
<1>18. ASSUME NEW r \in Requests, NEW k \in listed[r], CleanFile(r, k)
      PROVE  TornAreUndone'
  <2>1. \A c \in Chunks : file'[c] = "torn" => file[c] = "torn"
    BY <1>t, <1>18 DEF CleanFile
  <2>2. UNCHANGED <<undone, broken, sound, acked, index>>
    BY <1>18 DEF CleanFile, archive, client
  <2>3. Live' \subseteq Live
    BY <1>t, <1>18 DEF CleanFile, Live
  <2> QED
    BY <2>1, <2>2, <2>3, TornStands
<1>19. ASSUME NEW r \in Requests, Conclude(r)
      PROVE  TornAreUndone'
  <2>1. UNCHANGED <<undone, broken, file>>
    BY <1>19 DEF Conclude
  <2>2. Gone({r}) /\ acked' \subseteq acked
    <3>1. CASE pc[r] = "stored"
      BY <1>19, <3>1 DEF Conclude, Answer, Hear
    <3>2. CASE pc[r] # "stored"
      BY <1>19, <3>2 DEF Conclude, StartOver, Answer, Hear
    <3> QED
      BY <3>1, <3>2
  <2> QED
    BY <2>1, <2>2, AnswerTearsNothing
<1>20. ASSUME Age
      PROVE  TornAreUndone'
  <2>1. \A c \in Chunks : file'[c] = "torn" => file[c] = "torn"
    BY <1>t, <1>20 DEF Age
  <2>2. UNCHANGED <<undone, broken, sound, acked, index>>
    BY <1>20 DEF Age, archive, thread, client
  <2>3. Live' \subseteq Live
    BY <1>t, <1>20 DEF Age, Live, thread
  <2> QED
    BY <2>1, <2>2, <2>3, TornStands
<1>21. ASSUME NEW p \in Procs, ReapBegin(p)
      PROVE  TornAreUndone'
  <2>1. \A c \in Chunks : file'[c] = "torn" => file[c] = "torn"
    BY <1>t, <1>21 DEF ReapBegin, staging
  <2>2. UNCHANGED <<undone, broken, sound, acked, index>>
    BY <1>21 DEF ReapBegin, archive, thread, client
  <2>3. Live' \subseteq Live
    BY <1>t, <1>21 DEF ReapBegin, Live, thread
  <2> QED
    BY <2>1, <2>2, <2>3, TornStands
<1>22. ASSUME NEW p \in Procs, NEW k \in reaping[p], ReapFile(p, k)
      PROVE  TornAreUndone'
  <2>1. \A c \in Chunks : file'[c] = "torn" => file[c] = "torn"
    BY <1>t, <1>22 DEF ReapFile
  <2>2. UNCHANGED <<undone, broken, sound, acked, index>>
    BY <1>22 DEF ReapFile, archive, thread, client
  <2>3. Live' \subseteq Live
    BY <1>t, <1>22 DEF ReapFile, Live, thread
  <2> QED
    BY <2>1, <2>2, <2>3, TornStands
<1>23. ASSUME NEW p \in Procs, ReapEnd(p)
      PROVE  TornAreUndone'
  <2>1. \A c \in Chunks : file'[c] = "torn" => file[c] = "torn"
    BY <1>t, <1>23 DEF ReapEnd, RemoveDir
  <2>2. UNCHANGED <<undone, broken, sound, acked, index>>
    BY <1>23 DEF ReapEnd, RemoveDir, archive, thread, client
  <2>3. Live' \subseteq Live
    BY <1>t, <1>23 DEF ReapEnd, RemoveDir, Live, thread
  <2> QED
    BY <2>1, <2>2, <2>3, TornStands
<1>24. ASSUME NEW p \in Procs, Kill(p)
      PROVE  TornAreUndone'
  <2> DEFINE dead == {q \in Requests : home[q] = p}
  <2>1. Gone(dead) /\ UNCHANGED <<acked, broken>>
    BY <1>24 DEF Kill, client
  <2>2. \A k \in Chunks : file'[k] = "torn" => file[k] = "torn" \/ file[k] \in dead
    BY <1>t, <1>24 DEF Kill
  <2>3. undone' <=> undone \/ \E k \in Chunks :
                                file[k] \in dead /\ CountedOn(k, Requests \ dead)
    BY <1>24 DEF Kill
  <2> HIDE DEF dead
  <2>4. \A k \in Chunks : CountedOn(k, Requests)' =>
            CountedOn(k, Requests) /\ CountedOn(k, Requests \ dead)
    BY <2>1 DEF CountedOn, Gone, Live
  <2>5. undone' \/ sound' = [q \in Requests |-> TRUE]
    BY <2>1, <2>3 DEF Gone, TornAreUndone
  <2> QED
    BY <2>1, <2>2, <2>3, <2>4, <2>5 DEF TornAreUndone
<1>25. CASE UNCHANGED vars
  <2>1. \A c \in Chunks : file'[c] = "torn" => file[c] = "torn"
    BY <1>t, <1>25 DEF vars, staging
  <2>2. UNCHANGED <<undone, broken, sound, acked, index>>
    BY <1>25 DEF vars, archive, thread, client
  <2>3. Live' \subseteq Live
    BY <1>t, <1>25 DEF vars, Live, thread
  <2> QED
    BY <2>1, <2>2, <2>3, TornStands
<1>26. ASSUME NEW r \in Requests, TurnAway(r)
      PROVE  TornAreUndone'
  <2>1. Gone({r}) /\ UNCHANGED <<file, undone, broken, acked>>
    BY <1>26 DEF TurnAway, staging, archive, client
  <2> QED
    BY <2>1, AnswerTearsNothing
<1>27. ASSUME NEW r \in Requests, NEW p \in Procs, Lookup(r, p)
      PROVE  TornAreUndone'
  <2>1. Live' \subseteq Live /\ UNCHANGED <<file, undone, broken, sound, acked, index>>
    BY <1>27, LookupFinds DEF Live
  <2> QED
    BY <2>1, TornStands
<1> QED
  BY <1>1, <1>2, <1>3, <1>4, <1>5, <1>6, <1>7, <1>8, <1>9, <1>10, <1>11, <1>12, <1>13,
     <1>14, <1>15, <1>16, <1>17, <1>18, <1>19, <1>20, <1>21, <1>22, <1>23, <1>24, <1>25,
     <1>26, <1>27
     DEF Next, Arrive, Handle, Reap

\* While a stored upload is not settled the directory has one owner: nobody else inside
\* finds it.
LEMMA OthersFindNoDir ==
    ASSUME LockInv, ~orphaned, StoredIsCleaned, \A p, q \in Procs : p = q,
           NEW r \in Requests, InCriticalSection(r), pc[r] # "stored", Settled
    PROVE  ~dir
<1>1. \A q \in Requests : pc[q] = "stored" => q = r
  BY AloneInside DEF InCriticalSection
<1> QED
  BY <1>1 DEF StoredIsCleaned

\* What goes on while the directory of a stored upload is taken away.
LEMMA CleaningGoesOn ==
    ASSUME StoredIsCleaned, Settled' => Settled, UNCHANGED <<copies, broken>>,
           Settled => \A r \in Requests : pc'[r] = "assembling" => pc[r] = "assembling",
           Settled /\ ~dir => ~dir',
           Settled => \A r \in Requests :
               pc[r] = "stored" /\ Present \subseteq listed[r] =>
                   ~dir' \/ (pc'[r] = "stored" /\ Present' \subseteq listed'[r])
    PROVE  StoredIsCleaned'
  BY DEF StoredIsCleaned

\* Once stored, an upload is off the staging directory before anybody may look again.
LEMMA StoredIsCleanedStep ==
    ASSUME TypeOK, LockInv, ~orphaned, StoredIsCleaned, \A p, q \in Procs : p = q,
           [Next]_vars
    PROVE  StoredIsCleaned'
<1>t. /\ pc \in [Requests -> Steps] /\ listed \in [Requests -> SUBSET Chunks]
      /\ file \in [Chunks -> {"none", "whole", "torn"} \cup Requests]
      /\ Requests \cap {"none", "whole", "torn"} = {}
  BY ChunkedUploadAssumption DEF TypeOK
<1>a. \A q, r \in Requests : InCriticalSection(q) /\ InCriticalSection(r) => q = r
  BY AloneInside
<1>n. /\ copies \in Nat /\ broken \in Nat /\ kills \in Nat /\ late \in Nat
        /\ MaxKills \in Nat /\ MaxLate \in Nat
  BY ChunkedUploadAssumption DEF TypeOK
<1>1. ASSUME NEW r \in Requests, NEW k \in Chunks, SendChunk(r, k)
      PROVE  StoredIsCleaned'
  <2>1. Send(r, k)
    BY <1>1 DEF SendChunk
  <2>2. /\ pc[r] = "idle" /\ pc'[r] = "arriving" /\ \A q \in Requests \ {r} : pc'[q] = pc[q]
        /\ UNCHANGED <<dir, file, listed, copies, broken, kills, late, revived>>
    BY <2>1, SendFinds
  <2> QED
    BY <2>2, CleaningGoesOn DEF Settled, Present
<1>2. ASSUME NEW r \in Requests, SendFinalize(r)
      PROVE  StoredIsCleaned'
  <2>1. Send(r, None)
    BY <1>2 DEF SendFinalize
  <2>2. /\ pc[r] = "idle" /\ pc'[r] = "arriving" /\ \A q \in Requests \ {r} : pc'[q] = pc[q]
        /\ UNCHANGED <<dir, file, listed, copies, broken, kills, late, revived>>
    BY <2>1, SendFinds
  <2> QED
    BY <2>2, CleaningGoesOn DEF Settled, Present
<1>3. ASSUME NEW r \in Requests, Acquire(r)
      PROVE  StoredIsCleaned'
  <2>1. /\ UNCHANGED <<copies, broken, kills, late, revived>>
        /\ \A q \in Requests : pc'[q] = "assembling" => pc[q] = "assembling"
        /\ ~dir => ~dir'
    BY <1>t, <1>3 DEF Acquire, Goto, archive, faults, staging
  <2>2. \A q \in Requests : pc[q] = "stored" =>
            pc'[q] = "stored" /\ listed'[q] = listed[q]
    BY <1>t, <1>3 DEF Acquire, Goto
  <2>3. Present' = Present
    BY <1>t, <1>3 DEF Acquire, Present, staging
  <2> QED
    BY <2>1, <2>2, <2>3, CleaningGoesOn DEF Settled
<1>4. ASSUME NEW r \in Requests, Refuse(r)
      PROVE  StoredIsCleaned'
  <2>1. /\ InCriticalSection(r) /\ pc[r] # "stored" /\ Gone({r})
        /\ UNCHANGED <<dir, copies, broken, kills, late, revived>>
    BY <1>4 DEF Refuse, Retry, Answer, InCriticalSection, archive, staging
  <2>2. Settled => ~dir
    BY <2>1, OthersFindNoDir
  <2>3. \A q \in Requests : pc'[q] = "assembling" => pc[q] = "assembling"
    BY <2>1 DEF Gone
  <2> QED
    BY <2>1, <2>2, <2>3, CleaningGoesOn DEF Settled
<1>5. ASSUME NEW r \in Requests, MakeStaging(r)
      PROVE  StoredIsCleaned'
  <2>1. CASE copies + broken > 0
    BY <1>5, <2>1 DEF MakeStaging, StoredIsCleaned, Settled
  <2>2. CASE ~(copies + broken > 0)
    BY <1>5, <2>2 DEF MakeStaging, StoredIsCleaned, Settled
  <2> QED
    BY <2>1, <2>2
<1>6. ASSUME NEW r \in Requests, OpenChunk(r)
      PROVE  StoredIsCleaned'
  <2>1. /\ InCriticalSection(r) /\ pc[r] # "stored" /\ dir
        /\ UNCHANGED <<copies, broken, kills, late, revived>>
    BY <1>6 DEF OpenChunk, InCriticalSection, archive, faults
  <2>2. ~Settled
    BY <2>1, OthersFindNoDir
  <2> QED
    BY <2>1, <2>2 DEF StoredIsCleaned, Settled
<1>7. ASSUME NEW r \in Requests, OpenFails(r)
      PROVE  StoredIsCleaned'
  <2>1. /\ InCriticalSection(r) /\ pc[r] # "stored" /\ Gone({r})
        /\ UNCHANGED <<dir, copies, broken, kills, late, revived>>
    BY <1>7 DEF OpenFails, Retry, Answer, InCriticalSection, archive, staging
  <2>2. Settled => ~dir
    BY <2>1, OthersFindNoDir
  <2>3. \A q \in Requests : pc'[q] = "assembling" => pc[q] = "assembling"
    BY <2>1 DEF Gone
  <2> QED
    BY <2>1, <2>2, <2>3, CleaningGoesOn DEF Settled
<1>8. ASSUME NEW r \in Requests, SaveChunk(r)
      PROVE  StoredIsCleaned'
  <2>1. /\ UNCHANGED <<copies, broken, kills, late, revived>>
        /\ \A q \in Requests : pc'[q] = "assembling" => pc[q] = "assembling"
        /\ ~dir => ~dir'
    BY <1>t, <1>8 DEF SaveChunk, Goto, archive, faults
  <2>2. \A q \in Requests : pc[q] = "stored" =>
            pc'[q] = "stored" /\ listed'[q] = listed[q]
    BY <1>t, <1>8 DEF SaveChunk, Goto
  <2>3. Present' = Present
    BY <1>t, <1>8 DEF SaveChunk, Present
  <2> QED
    BY <2>1, <2>2, <2>3, CleaningGoesOn DEF Settled
<1>9. ASSUME NEW r \in Requests, SaveFails(r)
      PROVE  StoredIsCleaned'
  <2>1. /\ InCriticalSection(r) /\ pc[r] # "stored" /\ Gone({r})
        /\ UNCHANGED <<dir, copies, broken, kills, late, revived>>
    BY <1>9 DEF SaveFails, Retry, Answer, InCriticalSection
  <2>2. Settled => ~dir
    BY <2>1, OthersFindNoDir
  <2>3. \A q \in Requests : pc'[q] = "assembling" => pc[q] = "assembling"
    BY <2>1 DEF Gone
  <2> QED
    BY <2>1, <2>2, <2>3, CleaningGoesOn DEF Settled
<1>10. ASSUME NEW r \in Requests, AcceptChunk(r)
      PROVE  StoredIsCleaned'
  <2>1. /\ InCriticalSection(r) /\ pc[r] # "stored" /\ Gone({r})
        /\ UNCHANGED <<dir, copies, broken, kills, late, revived>>
    BY <1>10 DEF AcceptChunk, Answer, InCriticalSection, archive, staging
  <2>2. Settled => ~dir
    BY <2>1, OthersFindNoDir
  <2>3. \A q \in Requests : pc'[q] = "assembling" => pc[q] = "assembling"
    BY <2>1 DEF Gone
  <2> QED
    BY <2>1, <2>2, <2>3, CleaningGoesOn DEF Settled
<1>11. ASSUME NEW r \in Requests, RejectChunk(r)
      PROVE  StoredIsCleaned'
  <2>1. /\ InCriticalSection(r) /\ pc[r] # "stored" /\ Gone({r})
        /\ UNCHANGED <<dir, copies, broken, kills, late, revived>>
    BY <1>11 DEF RejectChunk, Retry, Answer, InCriticalSection, archive
  <2>2. Settled => ~dir
    BY <2>1, OthersFindNoDir
  <2>3. \A q \in Requests : pc'[q] = "assembling" => pc[q] = "assembling"
    BY <2>1 DEF Gone
  <2> QED
    BY <2>1, <2>2, <2>3, CleaningGoesOn DEF Settled
<1>12. ASSUME NEW r \in Requests, FinalizeRefused(r)
      PROVE  StoredIsCleaned'
  <2>1. /\ InCriticalSection(r) /\ pc[r] # "stored" /\ Gone({r})
        /\ UNCHANGED <<dir, copies, broken, kills, late, revived>>
    BY <1>12 DEF FinalizeRefused, StartOver, Answer, InCriticalSection, archive, staging
  <2>2. Settled => ~dir
    BY <2>1, OthersFindNoDir
  <2>3. \A q \in Requests : pc'[q] = "assembling" => pc[q] = "assembling"
    BY <2>1 DEF Gone
  <2> QED
    BY <2>1, <2>2, <2>3, CleaningGoesOn DEF Settled
<1>13. ASSUME NEW r \in Requests, Validate(r)
      PROVE  StoredIsCleaned'
  <2>1. /\ InCriticalSection(r) /\ pc[r] # "stored" /\ dir
        /\ UNCHANGED <<copies, broken, kills, late, revived>>
    BY <1>13 DEF Validate, InCriticalSection, archive, faults
  <2>2. ~Settled
    BY <2>1, OthersFindNoDir
  <2> QED
    BY <2>1, <2>2 DEF StoredIsCleaned, Settled
<1>14. ASSUME NEW r \in Requests, ReadChunk(r)
      PROVE  StoredIsCleaned'
  <2>1. /\ UNCHANGED <<copies, broken, kills, late, revived>>
        /\ \A q \in Requests : pc'[q] = "assembling" => pc[q] = "assembling"
        /\ ~dir => ~dir'
    BY <1>t, <1>14 DEF ReadChunk, archive, faults, staging
  <2>2. \A q \in Requests : pc[q] = "stored" =>
            pc'[q] = "stored" /\ listed'[q] = listed[q]
    BY <1>t, <1>14 DEF ReadChunk
  <2>3. Present' = Present
    BY <1>t, <1>14 DEF ReadChunk, Present, staging
  <2> QED
    BY <2>1, <2>2, <2>3, CleaningGoesOn DEF Settled
<1>15. ASSUME NEW r \in Requests, Store(r)
      PROVE  StoredIsCleaned'
  <2>1. pc[r] = "assembling" /\ InCriticalSection(r)
    BY <1>15 DEF Store, Ingest, InCriticalSection
  <2>2. /\ UNCHANGED <<kills, late, revived, file>>
        /\ copies' + broken' = copies + broken + 1
    BY <1>15, <1>n DEF Store, Ingest, staging
  <2>3. pc' = [pc EXCEPT ![r] = "stored"] /\ listed' = [listed EXCEPT ![r] = Present]
    BY <1>15 DEF Store, BeginCleanup, Goto
  <2>4. Present' = Present
    BY <2>2 DEF Present
  <2>5. \A q \in Requests : pc'[q] # "assembling"
    BY <1>t, <1>a, <2>1, <2>3 DEF InCriticalSection
  <2>6. pc'[r] = "stored" /\ Present' \subseteq listed'[r]
    BY <1>t, <2>3, <2>4
  <2>7. Settled' => copies + broken = 0
    BY <1>n, <2>1, <2>2 DEF StoredIsCleaned, Settled
  <2> QED
    BY <1>n, <2>2, <2>5, <2>6, <2>7 DEF StoredIsCleaned
<1>16. ASSUME NEW r \in Requests, StoreRaisesLate(r)
      PROVE  StoredIsCleaned'
  <2>1. ~Settled'
    BY <1>16, <1>n DEF StoreRaisesLate, Ingest, Settled
  <2> QED
    BY <2>1 DEF StoredIsCleaned
<1>17. ASSUME NEW r \in Requests, StoreFails(r)
      PROVE  StoredIsCleaned'
  <2>1. /\ UNCHANGED <<copies, broken, kills, late, revived>>
        /\ \A q \in Requests : pc'[q] = "assembling" => pc[q] = "assembling"
        /\ ~dir => ~dir'
    BY <1>t, <1>17 DEF StoreFails, BeginCleanup, Goto, archive, faults, staging
  <2>2. \A q \in Requests : pc[q] = "stored" =>
            pc'[q] = "stored" /\ listed'[q] = listed[q]
    BY <1>t, <1>17 DEF StoreFails, BeginCleanup, Goto
  <2>3. Present' = Present
    BY <1>t, <1>17 DEF StoreFails, BeginCleanup, Present, staging
  <2> QED
    BY <2>1, <2>2, <2>3, CleaningGoesOn DEF Settled
<1>18. ASSUME NEW r \in Requests, NEW k \in listed[r], CleanFile(r, k)
      PROVE  StoredIsCleaned'
  <2>1. /\ UNCHANGED <<copies, broken, kills, late, revived, pc, dir>>
        /\ listed' = [listed EXCEPT ![r] = @ \ {k}] /\ file' = [file EXCEPT ![k] = "none"]
    BY <1>18 DEF CleanFile, archive, faults
  <2>2. Present' = Present \ {k}
    BY <1>t, <2>1 DEF Present
  <2>3. \A q \in Requests : Present \subseteq listed[q] => Present' \subseteq listed'[q]
    BY <1>t, <2>1, <2>2
  <2> QED
    BY <2>1, <2>3, CleaningGoesOn DEF Settled
<1>19. ASSUME NEW r \in Requests, Conclude(r)
      PROVE  StoredIsCleaned'
  <2>1. /\ InCriticalSection(r) /\ listed[r] = {} /\ dir' = (dir /\ Present # {})
        /\ UNCHANGED <<copies, broken, revived>>
    BY <1>19 DEF Conclude, RemoveDir, InCriticalSection
  <2>2. Gone({r}) /\ UNCHANGED <<kills, late>>
    BY <1>19 DEF Conclude, StartOver, Answer
  <2>3. \A q \in Requests : pc'[q] = "assembling" => pc[q] = "assembling"
    BY <2>2 DEF Gone
  <2>4. ASSUME NEW q \in Requests, pc[q] = "stored", Present \subseteq listed[q]
        PROVE  ~dir'
    <3>1. q = r
      BY <1>a, <2>1, <2>4 DEF InCriticalSection
    <3> QED
      BY <2>1, <2>4, <3>1
  <2> QED
    BY <2>1, <2>2, <2>3, <2>4, CleaningGoesOn DEF Settled
<1>20. ASSUME Age
      PROVE  StoredIsCleaned'
  <2>1. /\ UNCHANGED <<copies, broken, kills, late, revived>>
        /\ \A q \in Requests : pc'[q] = "assembling" => pc[q] = "assembling"
        /\ ~dir => ~dir'
    BY <1>t, <1>20 DEF Age, archive, faults, thread
  <2>2. \A q \in Requests : pc[q] = "stored" =>
            pc'[q] = "stored" /\ listed'[q] = listed[q]
    BY <1>t, <1>20 DEF Age, thread
  <2>3. Present' = Present
    BY <1>t, <1>20 DEF Age, Present
  <2> QED
    BY <2>1, <2>2, <2>3, CleaningGoesOn DEF Settled
<1>21. ASSUME NEW p \in Procs, ReapBegin(p)
      PROVE  StoredIsCleaned'
  <2>1. /\ UNCHANGED <<copies, broken, kills, late, revived>>
        /\ \A q \in Requests : pc'[q] = "assembling" => pc[q] = "assembling"
        /\ ~dir => ~dir'
    BY <1>t, <1>21 DEF ReapBegin, archive, faults, thread, staging
  <2>2. \A q \in Requests : pc[q] = "stored" =>
            pc'[q] = "stored" /\ listed'[q] = listed[q]
    BY <1>t, <1>21 DEF ReapBegin, thread
  <2>3. Present' = Present
    BY <1>t, <1>21 DEF ReapBegin, Present, staging
  <2> QED
    BY <2>1, <2>2, <2>3, CleaningGoesOn DEF Settled
<1>22. ASSUME NEW p \in Procs, NEW k \in reaping[p], ReapFile(p, k)
      PROVE  StoredIsCleaned'
  <2>1. /\ UNCHANGED <<copies, broken, kills, late, revived, pc, dir, listed>>
        /\ file' = [file EXCEPT ![k] = "none"]
    BY <1>22 DEF ReapFile, archive, faults, thread
  <2>2. Present' \subseteq Present
    BY <1>t, <2>1 DEF Present
  <2> QED
    BY <2>1, <2>2, CleaningGoesOn DEF Settled
<1>23. ASSUME NEW p \in Procs, ReapEnd(p)
      PROVE  StoredIsCleaned'
  <2>1. /\ UNCHANGED <<copies, broken, kills, late, revived>>
        /\ \A q \in Requests : pc'[q] = "assembling" => pc[q] = "assembling"
        /\ ~dir => ~dir'
    BY <1>t, <1>23 DEF ReapEnd, RemoveDir, archive, faults, thread
  <2>2. \A q \in Requests : pc[q] = "stored" =>
            pc'[q] = "stored" /\ listed'[q] = listed[q]
    BY <1>t, <1>23 DEF ReapEnd, RemoveDir, thread
  <2>3. Present' = Present
    BY <1>t, <1>23 DEF ReapEnd, RemoveDir, Present
  <2> QED
    BY <2>1, <2>2, <2>3, CleaningGoesOn DEF Settled
<1>24. ASSUME NEW p \in Procs, Kill(p)
      PROVE  StoredIsCleaned'
  <2>1. ~Settled'
    BY <1>24, <1>n DEF Kill, Settled
  <2> QED
    BY <2>1 DEF StoredIsCleaned
<1>25. CASE UNCHANGED vars
  <2>1. /\ UNCHANGED <<copies, broken, kills, late, revived>>
        /\ \A q \in Requests : pc'[q] = "assembling" => pc[q] = "assembling"
        /\ ~dir => ~dir'
    BY <1>t, <1>25 DEF vars, archive, faults, thread, staging
  <2>2. \A q \in Requests : pc[q] = "stored" =>
            pc'[q] = "stored" /\ listed'[q] = listed[q]
    BY <1>t, <1>25 DEF vars, thread
  <2>3. Present' = Present
    BY <1>t, <1>25 DEF vars, Present, staging
  <2> QED
    BY <2>1, <2>2, <2>3, CleaningGoesOn DEF Settled
<1>26. ASSUME NEW r \in Requests, TurnAway(r)
      PROVE  StoredIsCleaned'
  <2>1. /\ pc[r] = "arriving" /\ Gone({r})
        /\ UNCHANGED <<dir, file, copies, broken, kills, late, revived>>
    BY <1>26 DEF TurnAway, staging, archive, faults
  <2> QED
    BY <2>1, CleaningGoesOn DEF Settled, Present, Gone
<1>27. ASSUME NEW r \in Requests, NEW p \in Procs, Lookup(r, p)
      PROVE  StoredIsCleaned'
  <2>1. /\ pc[r] = "arriving" /\ pc'[r] = "waiting"
        /\ \A q \in Requests \ {r} : pc'[q] = pc[q]
        /\ UNCHANGED <<dir, file, listed, copies, broken, kills, late, revived>>
    BY <1>27, LookupFinds
  <2> QED
    BY <2>1, CleaningGoesOn DEF Settled, Present
<1> QED
  BY <1>1, <1>2, <1>3, <1>4, <1>5, <1>6, <1>7, <1>8, <1>9, <1>10, <1>11, <1>12, <1>13,
     <1>14, <1>15, <1>16, <1>17, <1>18, <1>19, <1>20, <1>21, <1>22, <1>23, <1>24, <1>25,
     <1>26, <1>27
     DEF Next, Arrive, Handle, Reap

\* A lock that has been orphaned stays so.
LEMMA OrphanedForGood ==
    ASSUME [Next]_vars, orphaned
    PROVE  orphaned'
<1>1. ASSUME NEW r \in Requests, Handle(r)
      PROVE  orphaned'
  BY <1>1
     DEF Handle, TurnAway, Lookup, Enter, Acquire, Refuse, MakeStaging, OpenChunk, OpenFails,
         SaveChunk, SaveFails, AcceptChunk, RejectChunk, FinalizeRefused, Validate, ReadChunk,
         Store, StoreRaisesLate, Ingest, StoreFails, CleanFile, Conclude, DropLock, archive
<1>2. CASE Arrive
  BY <1>2 DEF Arrive, SendChunk, SendFinalize, Send, archive
<1>3. ASSUME NEW p \in Procs, Reap(p) \/ Kill(p)
      PROVE  orphaned'
  BY <1>3 DEF Reap, ReapBegin, ReapFile, ReapEnd, Kill, archive
<1>4. CASE Age
  BY <1>4 DEF Age, archive
<1>5. CASE UNCHANGED vars
  BY <1>5 DEF vars, archive
<1> QED
  BY <1>1, <1>2, <1>3, <1>4, <1>5 DEF Next

\* With one worker process the lock guards the staging directory as the handlers mean it,
\* until it is dropped with a request waiting for it.
THEOREM SingleInvariance ==
    ASSUME \A p, q \in Procs : p = q
    PROVE  Spec => []SingleInv
<1> DEFINE Orderly == ~orphaned => WritersAreInside /\ TornAreUndone /\ StoredIsCleaned
<1>1. Init => Orderly
  BY ChunkedUploadAssumption
     DEF Init, WritersAreInside, TornAreUndone, StoredIsCleaned, Settled
<1>2. LockInv /\ Orderly /\ [Next]_vars => Orderly'
  <2> SUFFICES ASSUME LockInv, Orderly, [Next]_vars, ~orphaned'
               PROVE  (WritersAreInside /\ TornAreUndone /\ StoredIsCleaned)'
    OBVIOUS
  <2>1. ~orphaned /\ WritersAreInside /\ TornAreUndone /\ StoredIsCleaned
    BY OrphanedForGood
  <2>2. TypeOK /\ Slots
    BY DEF LockInv
  <2> QED
    BY <2>1, <2>2, WritersAreInsideStep, TornAreUndoneStep, StoredIsCleanedStep
<1>3. SingleInv <=> LockInv /\ Orderly
  BY DEF SingleInv
<1> QED
  BY <1>1, <1>2, <1>3, LockInvariance, PTL DEF Spec

\* Whatever overlaps in one process, no archive is stored with a missing or torn chunk,
\* unless a write was cut short of a chunk that was counted on, or a finalize dropped the
\* lock with another request waiting for it ...
THEOREM SingleProcessStoresWhole ==
    ASSUME \A p, q \in Procs : p = q
    PROVE  Spec => []StoredWhole
<1>1. SingleInv => StoredWhole
  BY DEF SingleInv, TornAreUndone, StoredWhole
<1> QED
  BY <1>1, SingleInvariance, PTL

\* ... and "two concurrent finalize POSTs for one upload_id" store it once.
THEOREM SingleProcessStoresOnce ==
    ASSUME \A p, q \in Procs : p = q
    PROVE  Spec => []StoredOnce
<1>1. SingleInv => StoredOnce
  <2> SUFFICES ASSUME SingleInv, kills + lost + late = 0, ~revived, ~orphaned
               PROVE  copies + broken <= 1
    BY DEF StoredOnce
  <2>1. /\ copies \in Nat /\ broken \in Nat
        /\ kills \in Nat /\ lost \in Nat /\ late \in Nat
        /\ MaxKills \in Nat /\ MaxLost \in Nat /\ MaxLate \in Nat
    BY ChunkedUploadAssumption DEF SingleInv, LockInv, TypeOK
  <2>2. kills + late = 0
    BY <2>1
  <2>3. copies + broken > 0 => copies + broken = 1
    BY <2>2 DEF SingleInv, StoredIsCleaned, Settled
  <2> QED
    BY <2>1, <2>3
<1> QED
  BY <1>1, SingleInvariance, PTL
=============================================================================
