------------------------- MODULE AdmissionGateProofs -------------------------
(* Proofs about AdmissionGate, for any keys, work and number of generations. *)
EXTENDS AdmissionGate, TLAPS

-----------------------------------------------------------------------------
\* The inductive invariant, in parts.

\* A generation in use has been created, none is ahead of its key's.
Created ==
  \A k \in Key : entry[k].generation < next /\ lastSealed[k] <= entry[k].generation

NotAhead ==
  \A w \in Work : work[w].generation <= entry[work[w].key].generation

\* The key's generation outlives the last sealed fence, unless that is up.
Fresh ==
  \A k \in Key :
    /\ entry[k].phase \in {"open", "draining"} => entry[k].generation > lastSealed[k]
    /\ entry[k].phase = "draining" => entry[k].previous > lastSealed[k]

\* A fence waits for exactly what is active behind it.
Waits ==
  ~disposed => \A k \in Key : Fenced(k) => entry[k].tracked = Active(k)

\* A seal is waiting only while the fence drains.
WaitsDraining == \A k \in Key : entry[k].sealing => entry[k].phase = "draining"

IInv ==
  /\ TypeOK /\ Created /\ NotAhead /\ Fresh
  /\ Waits /\ WaitsDraining
  /\ SealedIsQuiet /\ AuthorityEnds

\* The invariant holds initially.
LEMMA InitIInv == Init => IInv
<1> SUFFICES ASSUME Init PROVE IInv
  OBVIOUS
<1> USE DEF Init, Default
<1>1. entry \in [Key -> Entry]
  BY DEF Entry
<1>2. work \in [Work -> Item] /\ \A w \in Work : work[w].status = "new" /\ work[w].generation = 1
  BY DEF Item
<1>3. TypeOK
  <2>1. next \in Nat
    OBVIOUS
  <2>2. disposed \in BOOLEAN
    OBVIOUS
  <2>3. lastSealed \in [Key -> Nat]
    OBVIOUS
  <2> QED  BY <1>1, <1>2, <2>1, <2>2, <2>3 DEF TypeOK
<1>4. Created /\ NotAhead /\ Fresh /\ Waits /\ WaitsDraining
  BY <1>2, <1>3 DEF Created, NotAhead, Fresh, Waits, WaitsDraining, Fenced, TypeOK, Item
<1>5. SealedIsQuiet /\ AuthorityEnds
  BY <1>2 DEF SealedIsQuiet, AuthorityEnds, Running
<1> QED  BY <1>3, <1>4, <1>5 DEF IInv

\* A key's new entry is an entry.
LEMMA EntryTyped ==
  ASSUME TypeOK, NEW k \in Key, NEW e \in Entry, entry' = [entry EXCEPT ![k] = e]
  PROVE  entry' \in [Key -> Entry]
BY DEF TypeOK

\* Every step keeps the types.
LEMMA TypeStep == TypeOK /\ [Next]_vars => TypeOK'
<1> SUFFICES ASSUME TypeOK, [Next]_vars PROVE TypeOK'
  OBVIOUS
<1>1. ASSUME NEW w \in Work, NEW k \in Key, Capture(w, k) PROVE TypeOK'
  BY <1>1 DEF Capture, TypeOK, Entry, Item
<1>2. ASSUME NEW w \in Work, Enrol(w) PROVE TypeOK'
  <2> DEFINE k == work[w].key
             e == [entry[k] EXCEPT !.tracked = IF Fenced(k) THEN @ \cup {w} ELSE @]
  <2>1. k \in Key
    BY DEF TypeOK, Item
  <2>2. e \in Entry
    BY <2>1 DEF TypeOK, Entry
  <2>3. entry' = [entry EXCEPT ![k] = e]
    BY <1>2, <2>1 DEF Enrol, TypeOK, Entry
  <2>4. entry' \in [Key -> Entry]
    BY <2>1, <2>2, <2>3 DEF TypeOK
  <2> QED  BY <1>2, <2>4 DEF Enrol, TypeOK, Item
<1>3. ASSUME NEW w \in Work, Settle(w) PROVE TypeOK'
  BY <1>3 DEF Settle, TypeOK, Item
<1>4. ASSUME NEW w \in Work, Cleanup(w) PROVE TypeOK'
  <2> DEFINE k == work[w].key
             e == [entry[k] EXCEPT !.tracked = Untracked(k, w), !.awaited = @ \ {w},
                                   !.generation = Kept(k, w)]
  <2>1. k \in Key /\ entry[k] \in Entry
    BY DEF TypeOK, Item
  <2>2. Kept(k, w) \in Nat /\ Untracked(k, w) \in SUBSET Work
    BY <2>1 DEF Kept, Untracked, Entry, Default
  <2>3. e \in Entry
    BY <2>1, <2>2 DEF Entry
  <2>4. entry' = [entry EXCEPT ![k] = e]
    BY <1>4, <2>1 DEF Cleanup, TypeOK, Entry
  <2>5. entry' \in [Key -> Entry]
    BY <2>1, <2>3, <2>4 DEF TypeOK
  <2> QED  BY <1>4, <2>5 DEF Cleanup, TypeOK, Item
<1>5. ASSUME NEW k \in Key, BeginFence(k) PROVE TypeOK'
  <2> DEFINE e == [generation |-> next, phase |-> "draining",
                   previous |-> entry[k].generation, tracked |-> Active(k),
                   sealing |-> FALSE, awaited |-> {}]
  <2>1. e \in Entry
    BY DEF TypeOK, Entry, Active
  <2>2. entry' = [entry EXCEPT ![k] = e]
    BY <1>5 DEF BeginFence
  <2> QED  BY <1>5, <2>1, <2>2, EntryTyped DEF BeginFence, TypeOK
<1>6. ASSUME NEW k \in Key, SealRound(k) PROVE TypeOK'
  <2> DEFINE e == [entry[k] EXCEPT !.phase = IF Quiet(k) THEN "sealed" ELSE @,
                                   !.sealing = ~Quiet(k),
                                   !.awaited = IF Quiet(k) THEN {} ELSE @ \cup entry[k].tracked]
  <2>1. e \in Entry
    BY DEF TypeOK, Entry
  <2>2. entry' = [entry EXCEPT ![k] = e]
    BY <1>6 DEF SealRound
  <2>3. lastSealed' \in [Key -> Nat]
    BY <1>6 DEF SealRound, TypeOK, Entry
  <2> QED  BY <1>6, <2>1, <2>2, <2>3, EntryTyped DEF SealRound, TypeOK
<1>7. ASSUME NEW k \in Key, SealRejects(k) \/ Commit(k) PROVE TypeOK'
  <2> DEFINE e == [entry[k] EXCEPT !.sealing = FALSE]
             c == [entry[k] EXCEPT !.phase = "committed"]
  <2>1. e \in Entry /\ c \in Entry
    BY DEF TypeOK, Entry
  <2>2. CASE SealRejects(k)
    <3>1. entry' = [entry EXCEPT ![k] = e]
      BY <2>2 DEF SealRejects
    <3> QED  BY <2>1, <2>2, <3>1, EntryTyped DEF SealRejects, TypeOK
  <2>3. CASE Commit(k)
    <3>1. entry' = [entry EXCEPT ![k] = c]
      BY <2>3 DEF Commit
    <3> QED  BY <2>1, <2>3, <3>1, EntryTyped DEF Commit, TypeOK
  <2> QED  BY <1>7, <2>2, <2>3
<1>8. ASSUME NEW k \in Key, Reopen(k) PROVE TypeOK'
  BY <1>8, EntryTyped DEF Reopen, TypeOK, Entry, Default
<1>9. CASE Dispose
  <2>1. \A k \in Key : [entry[k] EXCEPT !.tracked = {}, !.awaited = {}] \in Entry
    BY DEF TypeOK, Entry
  <2> QED  BY <1>9, <2>1 DEF Dispose, TypeOK
<1>10. CASE UNCHANGED vars
  BY <1>10 DEF vars, TypeOK
<1> QED
  BY <1>1, <1>2, <1>3, <1>4, <1>5, <1>6, <1>7, <1>8, <1>9, <1>10
  DEF Next, Dispatch, Create, Seal, SealResumes, Abort, Release

-----------------------------------------------------------------------------
\* The state of a key after a step: what the conjuncts of the invariant read.
LEMMA Applied ==
  ASSUME TypeOK, NEW k \in Key, NEW e, entry' = [entry EXCEPT ![k] = e]
  PROVE  /\ entry'[k] = e
         /\ \A j \in Key : j # k => entry'[j] = entry[j]
BY DEF TypeOK

\* No generation a key moves on to is behind what was captured.
LEMMA Ahead ==
  ASSUME TypeOK, Created, NotAhead, NEW w \in Work
  PROVE  work[w].generation < next /\ work[w].generation \in Nat /\ work[w].key \in Key
BY DEF TypeOK, Item, Entry, Created, NotAhead

\* What is enrolled is authorised by a generation later than the last seal.
LEMMA Authorised ==
  ASSUME IInv, NEW w \in Work, Current(w) \/ Draining(w),
         entry[work[w].key].phase \in {"open", "draining"}
  PROVE  work[w].generation > lastSealed[work[w].key]
BY DEF IInv, TypeOK, Item, Fresh, Current, Draining

\* The parts about generations and waiting survive what happens to work.
LEMMA WorkSteps ==
  ASSUME IInv, TypeOK', NEW w \in Work,
         \/ \E k \in Key : Capture(w, k)
         \/ Enrol(w) \/ Settle(w) \/ Cleanup(w)
  PROVE  IInv'
<1> USE DEF IInv
<1> PICK k \in Key : k = work[w].key
  BY DEF TypeOK, Item
<1>0. entry[k] \in Entry /\ work[w] \in Item
  BY DEF TypeOK
<1>1. ASSUME NEW j \in Key, Capture(w, j) PROVE IInv'
  <2>1. work'[w] = [status |-> "captured", key |-> j, generation |-> entry[j].generation]
    BY <1>1 DEF Capture, TypeOK
  <2>2. \A v \in Work : v # w => work'[v] = work[v]
    BY <1>1 DEF Capture, TypeOK
  <2>3. /\ work[w].status = "new" /\ entry' = entry /\ next' = next
        /\ disposed' = disposed /\ lastSealed' = lastSealed
    BY <1>1 DEF Capture
  <2>4. (Created /\ Fresh /\ WaitsDraining)'
    BY <2>3 DEF Created, Fresh, WaitsDraining
  <2>5. NotAhead'
    BY <2>1, <2>2, <2>3 DEF NotAhead, TypeOK, Entry
  <2>6. \A i \in Key : Active(i)' = Active(i)
    BY <2>1, <2>2, <2>3 DEF Active
  <2>7. Waits'
    BY <2>3, <2>6 DEF Waits, Fenced
  <2>8. (SealedIsQuiet /\ AuthorityEnds)'
    BY <2>1, <2>2, <2>3 DEF SealedIsQuiet, AuthorityEnds, Running
  <2> QED  BY <2>4, <2>5, <2>7, <2>8
<1>2. CASE Enrol(w)
  <2>1. work' = [work EXCEPT ![w].status = "running"]
    BY <1>2 DEF Enrol
  <2>2. work'[w].status = "running" /\ work[w].status = "captured"
    BY <1>2, <2>1 DEF Enrol, TypeOK, Item
  <2>3. \A v \in Work : v # w => work'[v] = work[v]
    BY <2>1 DEF TypeOK
  <2>4. \A v \in Work : work'[v].key = work[v].key /\ work'[v].generation = work[v].generation
    BY <2>1 DEF TypeOK, Item
  <2>5. next' = next /\ ~disposed /\ disposed' = disposed /\ lastSealed' = lastSealed
    BY <1>2 DEF Enrol
  <2>6. entry' = [entry EXCEPT ![k].tracked = IF Fenced(k) THEN @ \cup {w} ELSE @]
    BY <1>2 DEF Enrol
  <2>7. \A j \in Key : /\ entry'[j].generation = entry[j].generation
                       /\ entry'[j].phase = entry[j].phase
                       /\ entry'[j].previous = entry[j].previous
                       /\ entry'[j].sealing = entry[j].sealing
    BY <2>6 DEF TypeOK, Entry
  <2>8. entry'[k].tracked = IF Fenced(k) THEN entry[k].tracked \cup {w} ELSE entry[k].tracked
    BY <1>0, <2>6 DEF TypeOK, Entry
  <2>9. \A j \in Key : j # k => entry'[j].tracked = entry[j].tracked
    BY <2>6 DEF TypeOK, Entry
  <2>10. Active(k)' = Active(k) \cup {w} /\ \A j \in Key : j # k => Active(j)' = Active(j)
    BY <2>2, <2>3, <2>4 DEF Active
  <2>11. (Created /\ Fresh /\ WaitsDraining)'
    BY <2>5, <2>7 DEF Created, Fresh, WaitsDraining
  <2>17. NotAhead'
    BY <2>4, <2>7, Ahead DEF NotAhead
  <2>12. Waits'
    <3>1. ASSUME ~disposed, NEW j \in Key, Fenced(j)' PROVE entry'[j].tracked = Active(j)'
      <4>1. Fenced(j) /\ entry[j].tracked = Active(j)
        BY <3>1, <2>7 DEF Waits, Fenced
      <4>2. CASE j = k
        BY <4>1, <4>2, <2>8, <2>10
      <4>3. CASE j # k
        BY <4>1, <4>3, <2>9, <2>10
      <4> QED  BY <4>2, <4>3
    <3> QED  BY <3>1, <2>5 DEF Waits
  <2>13. entry[k].phase \in {"open", "draining"} /\ (Current(w) \/ Draining(w))
    BY <1>2 DEF Enrol
  <2>14. work[w].generation > lastSealed[k]
    BY <2>13, Authorised
  <2>15. SealedIsQuiet'
    BY <2>2, <2>3, <2>4, <2>7, <2>13 DEF SealedIsQuiet, Running
  <2>16. AuthorityEnds'
    BY <2>3, <2>4, <2>5, <2>14 DEF AuthorityEnds, Running
  <2> QED  BY <2>11, <2>12, <2>15, <2>16, <2>17
<1>3. CASE Settle(w)
  <2>1. work' = [work EXCEPT ![w].status = "settled"] /\ work[w].status = "running"
    BY <1>3 DEF Settle
  <2>2. \A v \in Work : /\ work'[v].key = work[v].key
                        /\ work'[v].generation = work[v].generation
                        /\ v # w => work'[v].status = work[v].status
    BY <2>1 DEF TypeOK, Item
  <2>3. work'[w].status = "settled"
    BY <2>1 DEF TypeOK, Item
  <2>4. entry' = entry /\ next' = next /\ disposed' = disposed /\ lastSealed' = lastSealed
    BY <1>3 DEF Settle
  <2>5. \A j \in Key : Active(j)' = Active(j)
    BY <2>1, <2>2, <2>3 DEF Active
  <2>6. (Created /\ NotAhead /\ Fresh /\ WaitsDraining)'
    BY <2>2, <2>4 DEF Created, NotAhead, Fresh, WaitsDraining
  <2>7. Waits'
    BY <2>4, <2>5 DEF Waits, Fenced
  <2>8. (SealedIsQuiet /\ AuthorityEnds)'
    BY <2>2, <2>3, <2>4 DEF SealedIsQuiet, AuthorityEnds, Running
  <2> QED  BY <2>6, <2>7, <2>8
<1>4. CASE Cleanup(w)
  <2>1. work' = [work EXCEPT ![w].status = "done"] /\ work[w].status = "settled"
    BY <1>4 DEF Cleanup
  <2>2. \A v \in Work : /\ work'[v].key = work[v].key
                        /\ work'[v].generation = work[v].generation
                        /\ v # w => work'[v].status = work[v].status
    BY <2>1 DEF TypeOK, Item
  <2>3. work'[w].status = "done"
    BY <2>1 DEF TypeOK, Item
  <2>4. next' = next /\ disposed' = disposed /\ lastSealed' = lastSealed
    BY <1>4 DEF Cleanup
  <2>5. Kept(k, w) = entry[k].generation
    BY DEF Kept
  <2>6. entry' = [entry EXCEPT ![k].tracked = Untracked(k, w), ![k].awaited = @ \ {w},
                               ![k].generation = entry[k].generation]
    BY <1>4, <2>5 DEF Cleanup
  <2>7. \A j \in Key : /\ entry'[j].generation = entry[j].generation
                       /\ entry'[j].phase = entry[j].phase
                       /\ entry'[j].previous = entry[j].previous
                       /\ entry'[j].sealing = entry[j].sealing
                       /\ j # k => entry'[j].tracked = entry[j].tracked
    BY <2>6 DEF TypeOK, Entry
  <2>8. entry'[k].tracked = entry[k].tracked \ {w}
    BY <1>0, <2>6 DEF TypeOK, Entry, Untracked
  <2>9. Active(k)' = Active(k) \ {w} /\ \A j \in Key : j # k => Active(j)' = Active(j)
    BY <2>2, <2>3 DEF Active
  <2>10. (Created /\ Fresh /\ WaitsDraining)'
    BY <2>4, <2>7 DEF Created, Fresh, WaitsDraining
  <2>13. NotAhead'
    BY <2>2, <2>7, Ahead DEF NotAhead
  <2>11. Waits'
    <3>1. ASSUME ~disposed, NEW j \in Key, Fenced(j)' PROVE entry'[j].tracked = Active(j)'
      <4>1. Fenced(j) /\ entry[j].tracked = Active(j)
        BY <3>1, <2>7 DEF Waits, Fenced
      <4>2. CASE j = k
        BY <4>1, <4>2, <2>8, <2>9
      <4>3. CASE j # k
        BY <4>1, <4>3, <2>7, <2>9
      <4> QED  BY <4>2, <4>3
    <3> QED  BY <3>1, <2>4 DEF Waits
  <2>12. (SealedIsQuiet /\ AuthorityEnds)'
    BY <2>2, <2>3, <2>4, <2>7 DEF SealedIsQuiet, AuthorityEnds, Running
  <2> QED  BY <2>10, <2>11, <2>12, <2>13
<1> QED  BY <1>1, <1>2, <1>3, <1>4

\* What a fence does to one key, when the work stays as it is.
LEMMA FenceSteps ==
  ASSUME IInv, TypeOK', NEW k \in Key, UNCHANGED work,
         \/ BeginFence(k) \/ Seal(k) \/ SealResumes(k) \/ SealRejects(k)
         \/ Commit(k) \/ Abort(k) \/ Release(k)
  PROVE  IInv'
<1> USE DEF IInv
<1>0. /\ entry[k] \in Entry /\ next \in Nat
      /\ \A j \in Key : Active(j)' = Active(j)
      /\ \A w \in Work : work[w] \in Item /\ (Running(w)' <=> Running(w))
  BY DEF TypeOK, Active, Running
<1>1. CASE BeginFence(k)
  <2> DEFINE e == [generation |-> next, phase |-> "draining",
                   previous |-> entry[k].generation, tracked |-> Active(k),
                   sealing |-> FALSE, awaited |-> {}]
  <2>1. entry'[k] = e /\ \A j \in Key : j # k => entry'[j] = entry[j]
    <3>1. entry' = [entry EXCEPT ![k] = e]
      BY <1>1 DEF BeginFence
    <3> QED  BY <3>1, Applied
  <2>2. /\ next' = next + 1 /\ disposed' = disposed /\ lastSealed' = lastSealed
        /\ entry[k].phase = "open"
    BY <1>1 DEF BeginFence, Unfenced, Fenced
  <2>3. Created'
    BY <1>0, <2>1, <2>2 DEF Created, TypeOK, Entry
  <2>4. (Fresh /\ WaitsDraining)'
    BY <1>0, <2>1, <2>2 DEF Fresh, WaitsDraining, Created, TypeOK, Entry
  <2>7. NotAhead'
    BY <1>0, <2>1, Ahead DEF NotAhead
  <2>5. Waits'
    BY <1>0, <2>1, <2>2 DEF Waits, Fenced
  <2>6. (SealedIsQuiet /\ AuthorityEnds)'
    BY <1>0, <2>1, <2>2 DEF SealedIsQuiet, AuthorityEnds
  <2> QED  BY <2>3, <2>4, <2>5, <2>6, <2>7
<1>2. CASE Seal(k) \/ SealResumes(k)
  <2>1. /\ SealRound(k) /\ ~disposed /\ disposed' = disposed /\ next' = next
        /\ entry[k].phase = "draining"
    BY <1>2 DEF Seal, SealResumes, SealRound, WaitsDraining
  <2>2. CASE Quiet(k)
    <3>1. \A j \in Key : /\ entry'[j].generation = entry[j].generation
                         /\ entry'[j].tracked = entry[j].tracked
                         /\ j # k => /\ entry'[j].phase = entry[j].phase
                                     /\ entry'[j].sealing = entry[j].sealing
                         /\ entry'[j].previous = entry[j].previous
      BY <2>1 DEF SealRound, TypeOK, Entry
    <3>2. entry'[k].phase = "sealed" /\ ~entry'[k].sealing
      BY <2>1, <2>2 DEF SealRound, TypeOK, Entry
    <3>3. lastSealed'[k] = entry[k].generation /\ \A j \in Key : j # k => lastSealed'[j] = lastSealed[j]
      BY <2>1, <2>2 DEF SealRound, TypeOK
    <3>4. \A w \in Work : Running(w) => work[w].key # k
      <4>1. Active(k) = {}
        BY <2>1, <2>2 DEF Waits, Quiet, Fenced
      <4> QED  BY <4>1 DEF Active, Running
    <3>5. Created'
      BY <2>1, <3>1, <3>3 DEF Created, TypeOK, Entry
    <3>9. NotAhead'
      BY <1>0, <3>1, Ahead DEF NotAhead
    <3>10. (Fresh /\ WaitsDraining)'
      BY <3>1, <3>2, <3>3 DEF Fresh, WaitsDraining
    <3>6. Waits'
      BY <1>0, <2>1, <3>1, <3>2 DEF Waits, Fenced
    <3>7. SealedIsQuiet'
      BY <1>0, <3>1, <3>4 DEF SealedIsQuiet
    <3>8. AuthorityEnds'
      BY <1>0, <3>3, <3>4 DEF AuthorityEnds, TypeOK, Item
    <3> QED  BY <3>5, <3>6, <3>7, <3>8, <3>9, <3>10
  <2>3. CASE ~Quiet(k)
    <3>1. \A j \in Key : /\ entry'[j].generation = entry[j].generation
                         /\ entry'[j].tracked = entry[j].tracked
                         /\ entry'[j].phase = entry[j].phase
                         /\ entry'[j].previous = entry[j].previous
                         /\ j # k => entry'[j].sealing = entry[j].sealing
      BY <2>1, <2>3 DEF SealRound, TypeOK, Entry
    <3>2. lastSealed' = lastSealed
      BY <2>1, <2>3 DEF SealRound, TypeOK
    <3>3. (Created /\ NotAhead /\ Fresh /\ WaitsDraining)'
      BY <1>0, <2>1, <3>1, <3>2 DEF Created, NotAhead, Fresh, WaitsDraining, TypeOK, Item
    <3>4. Waits'
      BY <1>0, <2>1, <3>1 DEF Waits, Fenced
    <3>5. (SealedIsQuiet /\ AuthorityEnds)'
      BY <1>0, <3>1, <3>2 DEF SealedIsQuiet, AuthorityEnds
    <3> QED  BY <3>3, <3>4, <3>5
  <2> QED  BY <2>2, <2>3
<1>3. CASE SealRejects(k)
  <2>1. \A j \in Key : /\ entry'[j].generation = entry[j].generation
                       /\ entry'[j].tracked = entry[j].tracked
                       /\ entry'[j].phase = entry[j].phase
                       /\ entry'[j].previous = entry[j].previous
                       /\ entry'[j].sealing => entry[j].sealing
    BY <1>3 DEF SealRejects, TypeOK, Entry
  <2>2. lastSealed' = lastSealed /\ next' = next /\ disposed' = disposed
    BY <1>3 DEF SealRejects
  <2>3. (Created /\ NotAhead /\ Fresh /\ WaitsDraining)'
    BY <1>0, <2>1, <2>2 DEF Created, NotAhead, Fresh, WaitsDraining, TypeOK, Item
  <2>4. Waits'
    BY <1>0, <2>1, <2>2 DEF Waits, Fenced
  <2>5. (SealedIsQuiet /\ AuthorityEnds)'
    BY <1>0, <2>1, <2>2 DEF SealedIsQuiet, AuthorityEnds
  <2> QED  BY <2>3, <2>4, <2>5
<1>4. CASE Commit(k)
  <2>1. \A j \in Key : /\ entry'[j].generation = entry[j].generation
                       /\ entry'[j].tracked = entry[j].tracked
                       /\ j # k => entry'[j].phase = entry[j].phase
                       /\ entry'[j].previous = entry[j].previous
                       /\ entry'[j].sealing = entry[j].sealing
    BY <1>4 DEF Commit, TypeOK, Entry
  <2>2. entry'[k].phase = "committed" /\ entry[k].phase = "sealed"
    BY <1>4 DEF Commit, TypeOK, Entry
  <2>3. lastSealed' = lastSealed /\ next' = next /\ disposed' = disposed
    BY <1>4 DEF Commit
  <2>4. (Created /\ NotAhead /\ Fresh /\ WaitsDraining)'
    BY <1>0, <2>1, <2>2, <2>3 DEF Created, NotAhead, Fresh, WaitsDraining, TypeOK, Item
  <2>5. Waits'
    BY <1>0, <2>1, <2>2, <2>3 DEF Waits, Fenced
  <2>6. (SealedIsQuiet /\ AuthorityEnds)'
    BY <1>0, <2>1, <2>2, <2>3 DEF SealedIsQuiet, AuthorityEnds
  <2> QED  BY <2>4, <2>5, <2>6
<1>5. CASE Abort(k) \/ Release(k)
  <2> DEFINE e == [generation |-> next, phase |-> "open", previous |-> Default,
                   tracked |-> {}, sealing |-> FALSE, awaited |-> {}]
  <2>1. entry'[k] = e /\ \A j \in Key : j # k => entry'[j] = entry[j]
    <3>1. entry' = [entry EXCEPT ![k] = e]
      BY <1>5 DEF Abort, Release, Reopen
    <3> QED  BY <3>1, Applied
  <2>2. next' = next + 1 /\ disposed' = disposed /\ lastSealed' = lastSealed
    BY <1>5 DEF Abort, Release, Reopen
  <2>3. Created'
    BY <1>0, <2>1, <2>2 DEF Created, TypeOK, Entry
  <2>4. (Fresh /\ WaitsDraining)'
    BY <1>0, <2>1, <2>2 DEF Fresh, WaitsDraining, Created, TypeOK, Entry
  <2>7. NotAhead'
    BY <1>0, <2>1, Ahead DEF NotAhead
  <2>5. Waits'
    BY <1>0, <2>1, <2>2 DEF Waits, Fenced
  <2>6. (SealedIsQuiet /\ AuthorityEnds)'
    BY <1>0, <2>1, <2>2 DEF SealedIsQuiet, AuthorityEnds
  <2> QED  BY <2>3, <2>4, <2>5, <2>6, <2>7
<1> QED  BY <1>1, <1>2, <1>3, <1>4, <1>5

\* The invariant is inductive.
LEMMA NextIInv == IInv /\ [Next]_vars => IInv'
<1> SUFFICES ASSUME IInv, [Next]_vars PROVE IInv'
  OBVIOUS
<1>0. TypeOK'
  BY TypeStep DEF IInv
<1>1. ASSUME NEW w \in Work,
             \/ \E k \in Key : Capture(w, k)
             \/ Enrol(w) \/ Settle(w) \/ Cleanup(w)
      PROVE  IInv'
  BY <1>0, <1>1, WorkSteps
<1>2. ASSUME NEW k \in Key,
             \/ BeginFence(k) \/ Seal(k) \/ SealResumes(k) \/ SealRejects(k)
             \/ Commit(k) \/ Abort(k) \/ Release(k)
      PROVE  IInv'
  <2>1. UNCHANGED work
    BY <1>2 DEF BeginFence, Seal, SealResumes, SealRejects, SealRound, Commit, Abort, Release, Reopen
  <2> QED  BY <1>0, <1>2, <2>1, FenceSteps
<1>3. CASE Dispose
  <2>1. \A k \in Key : /\ entry'[k].generation = entry[k].generation
                       /\ entry'[k].phase = entry[k].phase
                       /\ entry'[k].previous = entry[k].previous
                       /\ entry'[k].sealing = entry[k].sealing
    BY <1>3 DEF Dispose, IInv, TypeOK, Entry
  <2>2. disposed' /\ work' = work /\ next' = next /\ lastSealed' = lastSealed
    BY <1>3 DEF Dispose
  <2>3. \A w \in Work : work[w].key \in Key
    BY DEF IInv, TypeOK, Item
  <2> QED  BY <1>0, <2>1, <2>2, <2>3
    DEF IInv, Created, NotAhead, Fresh, Waits, WaitsDraining, SealedIsQuiet, AuthorityEnds, Running
<1>4. CASE UNCHANGED vars
  <2>1. /\ entry' = entry /\ work' = work /\ next' = next
        /\ disposed' = disposed /\ lastSealed' = lastSealed
    BY <1>4 DEF vars
  <2> QED  BY <1>0, <2>1 DEF IInv, Created, NotAhead, Fresh, Waits, WaitsDraining, Fenced, Active,
                            SealedIsQuiet, AuthorityEnds, Running
<1> QED  BY <1>1, <1>2, <1>3, <1>4 DEF Next, Dispatch, Create

\* The gate's state keeps its types.
THEOREM TypeCorrect == Spec => []TypeOK
<1>1. Init => TypeOK
  BY InitIInv DEF IInv
<1> QED  BY <1>1, TypeStep, PTL DEF Spec

\* Behind a sealed fence nothing admitted is running.
THEOREM SealedIsQuietHolds == Spec => []SealedIsQuiet
<1>1. IInv => SealedIsQuiet
  BY DEF IInv
<1> QED  BY <1>1, InitIInv, NextIInv, PTL DEF Spec

\* Authority captured before a seal starts nothing after it.
THEOREM AuthorityEndsHolds == Spec => []AuthorityEnds
<1>1. IInv => AuthorityEnds
  BY DEF IInv
<1> QED  BY <1>1, InitIInv, NextIInv, PTL DEF Spec

\* Only an abort takes running work's right to report.
THEOREM ReportsUntilAbortedHolds == Spec => ReportsUntilAborted
<1> DEFINE Keeps(w) ==
      LET k == work[w].key
      IN Running(w) /\ Running(w)' /\ MayReport(w) /\ ~MayReport(w)'
           => Fenced(k) /\ entry'[k].phase = "open"
<1>1. ASSUME IInv, [Next]_vars, NEW w \in Work, Running(w), MayReport(w), Running(w)',
             ~(Fenced(work[w].key) /\ entry'[work[w].key].phase = "open")
      PROVE  MayReport(w)'
  <2> PICK k \in Key : k = work[w].key
    BY <1>1 DEF IInv, TypeOK, Item
  <2>1. work[w].status = "running" /\ work'[w].status = "running" /\ w \in Active(k)
    BY <1>1 DEF Running, Active
  <2>2. MayReport(w) <=> \/ work[w].generation = entry[k].generation
                         \/ entry[k].phase = "draining" /\ work[w].generation = entry[k].previous
    BY DEF MayReport, Current, Draining
  <2>3. work'[w] = work[w] => (MayReport(w)' <=>
          \/ work[w].generation = entry'[k].generation
          \/ entry'[k].phase = "draining" /\ work[w].generation = entry'[k].previous)
    BY DEF MayReport, Current, Draining
  <2>4. ASSUME NEW v \in Work,
               \/ \E j \in Key : Capture(v, j)
               \/ Enrol(v) \/ Settle(v) \/ Cleanup(v)
        PROVE  MayReport(w)'
    <3>1. v # w
      BY <2>1, <2>4, <1>1 DEF Capture, Enrol, Settle, Cleanup, IInv, TypeOK, Item
    <3>2. work'[w] = work[w]
      BY <3>1, <2>4, <1>1 DEF Capture, Enrol, Settle, Cleanup, IInv, TypeOK
    <3>3. /\ entry'[k].generation = entry[k].generation
          /\ entry'[k].phase = entry[k].phase
          /\ entry'[k].previous = entry[k].previous
      <4>1. CASE Cleanup(v)
        <5>1. Kept(work[v].key, v) = entry[work[v].key].generation
          BY DEF Kept
        <5>2. PICK tracked, awaited :
                entry' = [entry EXCEPT ![work[v].key].tracked = tracked, ![work[v].key].awaited = awaited,
                                       ![work[v].key].generation = entry[work[v].key].generation]
          BY <4>1, <5>1 DEF Cleanup
        <5>3. entry[k] \in Entry
          BY <1>1 DEF IInv, TypeOK
        <5> QED  BY <5>2, <5>3, <1>1 DEF IInv, TypeOK, Entry
      <4>2. CASE Enrol(v)
        <5>1. PICK tracked : entry' = [entry EXCEPT ![work[v].key].tracked = tracked]
          BY <4>2 DEF Enrol
        <5>2. entry[k] \in Entry
          BY <1>1 DEF IInv, TypeOK
        <5> QED  BY <5>1, <5>2, <1>1 DEF IInv, TypeOK, Entry
      <4>3. CASE Settle(v) \/ \E j \in Key : Capture(v, j)
        BY <4>3 DEF Settle, Capture
      <4> QED  BY <4>1, <4>2, <4>3, <2>4
    <3> QED  BY <1>1, <2>2, <2>3, <3>2, <3>3
  <2>5. ASSUME NEW j \in Key,
               \/ BeginFence(j) \/ Seal(j) \/ SealResumes(j) \/ SealRejects(j)
               \/ Commit(j) \/ Abort(j) \/ Release(j)
        PROVE  MayReport(w)'
    <3>1. work'[w] = work[w]
      BY <2>5 DEF BeginFence, Seal, SealResumes, SealRejects, SealRound, Commit, Abort, Release, Reopen
    <3>2. CASE j # k
      <4>1. entry'[k] = entry[k]
        BY <2>5, <3>2, <1>1 DEF BeginFence, Seal, SealResumes, SealRejects, SealRound, Commit,
           Abort, Release, Reopen, IInv, TypeOK
      <4> QED  BY <1>1, <2>2, <2>3, <3>1, <4>1
    <3>3. CASE j = k /\ BeginFence(j)
      <4>1. entry[k].phase = "open" /\ entry'[k].phase = "draining"
            /\ entry'[k].previous = entry[k].generation
        BY <3>3, <1>1 DEF BeginFence, Unfenced, Fenced, IInv, TypeOK
      <4> QED  BY <1>1, <2>2, <2>3, <3>1, <4>1
    <3>4. CASE j = k /\ (Seal(j) \/ SealResumes(j))
      <4>1. entry[k].phase = "draining" /\ ~disposed /\ SealRound(k)
        BY <3>4, <1>1 DEF Seal, SealResumes, IInv, WaitsDraining
      <4>2. ~Quiet(k)
        BY <4>1, <2>1, <1>1 DEF IInv, Waits, Fenced, Quiet
      <4>3. /\ entry'[k].phase = entry[k].phase /\ entry'[k].previous = entry[k].previous
            /\ entry'[k].generation = entry[k].generation
        BY <4>1, <4>2, <1>1 DEF SealRound, IInv, TypeOK, Entry
      <4> QED  BY <1>1, <2>2, <2>3, <3>1, <4>3
    <3>5. CASE j = k /\ SealRejects(j)
      <4>1. /\ entry'[k].phase = entry[k].phase /\ entry'[k].previous = entry[k].previous
            /\ entry'[k].generation = entry[k].generation
        BY <3>5, <1>1 DEF SealRejects, IInv, TypeOK, Entry
      <4> QED  BY <1>1, <2>2, <2>3, <3>1, <4>1
    <3>6. CASE j = k /\ Commit(j)
      <4>1. entry[k].phase = "sealed"
        BY <3>6 DEF Commit
      <4> QED  BY <4>1, <1>1 DEF IInv, SealedIsQuiet
    <3>7. CASE j = k /\ (Abort(j) \/ Release(j))
      <4>1. entry[k].phase # "open" /\ entry'[k].phase = "open"
        BY <3>7, <1>1 DEF Abort, Release, Reopen, IInv, TypeOK
      <4> QED  BY <4>1, <1>1 DEF Fenced
    <3> QED  BY <2>5, <3>2, <3>3, <3>4, <3>5, <3>6, <3>7
  <2>6. CASE Dispose
    <3>1. work'[w] = work[w]
      BY <2>6 DEF Dispose
    <3>2. /\ entry'[k].phase = entry[k].phase /\ entry'[k].previous = entry[k].previous
          /\ entry'[k].generation = entry[k].generation
      BY <2>6, <1>1 DEF Dispose, IInv, TypeOK, Entry
    <3> QED  BY <1>1, <2>2, <2>3, <3>1, <3>2
  <2>7. CASE UNCHANGED vars
    BY <1>1, <2>7 DEF vars, MayReport, Current, Draining
  <2> QED  BY <1>1, <2>4, <2>5, <2>6, <2>7 DEF Next, Dispatch, Create
<1>2. IInv /\ [Next]_vars => [\A w \in Work : Keeps(w)]_vars
  <2> SUFFICES ASSUME IInv, [Next]_vars, NEW w \in Work PROVE Keeps(w)
    OBVIOUS
  <2> SUFFICES ASSUME Running(w), MayReport(w), Running(w)', ~MayReport(w)'
               PROVE  Fenced(work[w].key) /\ entry'[work[w].key].phase = "open"
    OBVIOUS
  <2> QED  BY <1>1
<1> QED  BY <1>2, InitIInv, NextIInv, PTL DEF Spec, ReportsUntilAborted

-----------------------------------------------------------------------------
\* A step of one piece of work leaves the others, and the fences, where they are.
LEMMA OthersStay ==
  ASSUME TypeOK, NEW w \in Work, \A v \in Work \ {w} : work'[v] = work[v], disposed' = disposed,
         \A j \in Key : /\ entry'[j].generation = entry[j].generation
                        /\ entry'[j].phase = entry[j].phase /\ entry'[j].previous = entry[j].previous
  PROVE  \A j \in Key :
           /\ Closed(j)' = Closed(j)
           /\ \A v \in Work \ {w} : /\ v \in Granted(j)' <=> v \in Granted(j)
                                    /\ v \in RunningOn(j)' <=> v \in RunningOn(j)
<1>1. \A v \in Work : work[v].key \in Key
  BY DEF TypeOK, Item
<1>2. \A j \in Key : Closed(j)' = Closed(j)
  BY DEF Closed
<1>3. ASSUME NEW v \in Work \ {w} PROVE MayReport(v)' <=> MayReport(v)
  BY <1>1 DEF MayReport, Current, Draining
<1> QED  BY <1>2, <1>3 DEF Granted, RunningOn, Running

\* A step of one key's fence leaves the other keys where they are, and what runs.
LEMMA KeysStay ==
  ASSUME TypeOK, NEW k \in Key, \A j \in Key \ {k} : entry'[j] = entry[j],
         UNCHANGED <<work, disposed>>
  PROVE  /\ \A j \in Key : RunningOn(j)' = RunningOn(j)
         /\ \A j \in Key \ {k} : Closed(j)' = Closed(j) /\ Granted(j)' = Granted(j)
<1>1. \A j \in Key : RunningOn(j)' = RunningOn(j)
  BY DEF RunningOn, Running
<1>2. ASSUME NEW j \in Key \ {k} PROVE Closed(j)' = Closed(j) /\ Granted(j)' = Granted(j)
  BY DEF Closed, Granted, MayReport, Current, Draining
<1> QED  BY <1>1, <1>2

\* The steps of work grant, start and end.
LEMMA WorkGates ==
  ASSUME IInv, NEW w \in Work,
         \/ \E k \in Key : Capture(w, k)
         \/ Enrol(w) \/ Settle(w) \/ Cleanup(w)
  PROVE  [Gate!Next]_Gate!vars
<1>0. /\ TypeOK /\ work \in [Work -> Item] /\ entry \in [Key -> Entry]
      /\ work[w].key \in Key
  BY DEF IInv, TypeOK, Item
<1>a. \A j \in Key : /\ Granted(j) \subseteq Work /\ Granted(j)' \subseteq Work
                     /\ RunningOn(j) \subseteq Work /\ RunningOn(j)' \subseteq Work
  BY DEF Granted, RunningOn
<1>1. ASSUME NEW k \in Key, Capture(w, k) PROVE [Gate!Next]_Gate!vars
  <2>1. /\ work[w].status = "new" /\ work'[w].status = "captured" /\ work'[w].key = k
        /\ work'[w].generation = entry[k].generation /\ entry' = entry
        /\ ~disposed /\ disposed' = disposed /\ \A v \in Work \ {w} : work'[v] = work[v]
    BY <1>0, <1>1 DEF Capture, Item
  <2>2. \A j \in Key :
           /\ Closed(j)' = Closed(j)
           /\ \A v \in Work \ {w} : /\ v \in Granted(j)' <=> v \in Granted(j)
                                    /\ v \in RunningOn(j)' <=> v \in RunningOn(j)
    BY <1>0, <2>1, OthersStay
  <2>3. \A j \in Key : w \notin Granted(j) /\ w \notin RunningOn(j) /\ w \notin RunningOn(j)'
    BY <2>1 DEF Granted, RunningOn, Running
  <2>4. \A j \in Key : w \in Granted(j)' <=> j = k /\ ~Closed(k)
    BY <2>1, <2>2 DEF Granted, MayReport, Current
  <2>5. \A j \in Key : RunningOn(j)' = RunningOn(j)
    BY <1>a, <2>2, <2>3
  <2>6. \A j \in Key : Granted(j)' = IF j = k /\ ~Closed(k) THEN Granted(j) \cup {w} ELSE Granted(j)
    BY <1>a, <2>2, <2>3, <2>4
  <2>7. CASE Closed(k)
    BY <2>2, <2>5, <2>6, <2>7 DEF Gate!vars
  <2>8. CASE ~Closed(k)
    <3>1. Gate!Grant(w, k)
      BY <2>2, <2>5, <2>6, <2>8 DEF Gate!Grant
    <3> QED  BY <3>1 DEF Gate!Next
  <2> QED  BY <2>7, <2>8
<1>2. CASE Enrol(w)
  <2>0. PICK k \in Key : work[w].key = k
    BY <1>0
  <2>1. /\ work[w].status = "captured" /\ work'[w].status = "running" /\ work'[w].key = k
        /\ ~disposed /\ disposed' = disposed /\ \A v \in Work \ {w} : work'[v] = work[v]
        /\ MayReport(w) /\ ~Closed(k)
    BY <1>0, <1>2, <2>0 DEF Enrol, Item, MayReport, Closed
  <2>2. \A j \in Key : /\ entry'[j].generation = entry[j].generation
                       /\ entry'[j].phase = entry[j].phase /\ entry'[j].previous = entry[j].previous
    BY <1>0, <1>2 DEF Enrol, Entry
  <2>3. \A j \in Key :
           /\ Closed(j)' = Closed(j)
           /\ \A v \in Work \ {w} : /\ v \in Granted(j)' <=> v \in Granted(j)
                                    /\ v \in RunningOn(j)' <=> v \in RunningOn(j)
    BY <1>0, <2>1, <2>2, OthersStay
  <2>4. \A j \in Key : /\ (w \in Granted(j) <=> j = k) /\ w \notin Granted(j)'
                       /\ w \notin RunningOn(j) /\ (w \in RunningOn(j)' <=> j = k)
    BY <2>0, <2>1 DEF Granted, RunningOn, Running
  <2>5. ASSUME NEW j \in Key
        PROVE  /\ Granted(j)' = IF j = k THEN Granted(j) \ {w} ELSE Granted(j)
               /\ RunningOn(j)' = IF j = k THEN RunningOn(j) \cup {w} ELSE RunningOn(j)
    <3>1. CASE j = k
      <4>1. Granted(j)' = Granted(j) \ {w}
        BY <1>a, <2>3, <2>4, <3>1
      <4>2. RunningOn(j)' = RunningOn(j) \cup {w}
        BY <1>a, <2>3, <2>4, <3>1
      <4> QED  BY <3>1, <4>1, <4>2
    <3>2. CASE j # k
      <4>1. Granted(j)' = Granted(j)
        BY <1>a, <2>3, <2>4, <3>2
      <4>2. w \notin RunningOn(j) /\ w \notin RunningOn(j)'
        BY <2>4, <3>2
      <4>3. \A v \in Work : v \in RunningOn(j)' <=> v \in RunningOn(j)
        BY <2>3, <4>2
      <4>4. RunningOn(j)' = RunningOn(j)
        BY <1>a, <4>3
      <4> QED  BY <3>2, <4>1, <4>4
    <3> QED  BY <3>1, <3>2
  <2>6. Gate!Start(w, k)
    BY <1>0, <2>3, <2>4, <2>5 DEF Gate!Start
  <2> QED  BY <1>0, <2>6 DEF Gate!Next
<1>3. CASE Settle(w) \/ Cleanup(w)
  <2>0. PICK k \in Key : work[w].key = k
    BY <1>0
  <2>1. /\ work[w].status \in {"running", "settled"} /\ work'[w].status \in {"settled", "done"}
        /\ work'[w].key = k /\ disposed' = disposed /\ \A v \in Work \ {w} : work'[v] = work[v]
    BY <1>0, <1>3, <2>0 DEF Settle, Cleanup, Item
  <2>2. \A j \in Key : /\ entry'[j].generation = entry[j].generation
                       /\ entry'[j].phase = entry[j].phase /\ entry'[j].previous = entry[j].previous
    BY <1>0, <1>3 DEF Settle, Cleanup, Kept, Entry
  <2>3. \A j \in Key :
           /\ Closed(j)' = Closed(j)
           /\ \A v \in Work \ {w} : /\ v \in Granted(j)' <=> v \in Granted(j)
                                    /\ v \in RunningOn(j)' <=> v \in RunningOn(j)
    BY <1>0, <2>1, <2>2, OthersStay
  <2>4. \A j \in Key : /\ w \notin Granted(j) /\ w \notin Granted(j)' /\ w \notin RunningOn(j)'
                       /\ w \in RunningOn(j) <=> j = k /\ Running(w)
    BY <2>0, <2>1 DEF Granted, RunningOn, Running
  <2>5. \A j \in Key : /\ Granted(j)' = Granted(j)
                       /\ RunningOn(j)' = IF j = k THEN RunningOn(j) \ {w} ELSE RunningOn(j)
    BY <1>a, <2>3, <2>4
  <2>6. CASE Running(w)
    <3>1. Gate!End(w, k)
      BY <1>0, <2>3, <2>4, <2>5, <2>6 DEF Gate!End
    <3> QED  BY <1>0, <3>1 DEF Gate!Next
  <2>7. CASE ~Running(w)
    <3>1. \A j \in Key : RunningOn(j)' = RunningOn(j)
      BY <2>4, <2>5, <2>7
    <3> QED  BY <2>3, <2>5, <3>1 DEF Gate!vars
  <2> QED  BY <2>6, <2>7
<1> QED  BY <1>1, <1>2, <1>3

\* What a fence grants depends on it and on the work alone: under a new generation,
\* which nobody holds, nothing but what the fence before it still lets report.
LEMMA GrantedAfter ==
  ASSUME IInv, NEW k \in Key, UNCHANGED work, entry'[k].generation = next,
         entry'[k].phase \in {"open", "draining"}, ~disposed, ~disposed',
         entry'[k].phase = "draining" => /\ entry[k].phase = "open"
                                         /\ entry'[k].previous = entry[k].generation
  PROVE  Granted(k)' = IF entry'[k].phase = "draining" THEN Granted(k) ELSE {}
<1>1. \A w \in Work : work[w].generation < next /\ work[w].generation \in Nat /\ next \in Nat
  BY Ahead DEF IInv, TypeOK
<1>2. ASSUME NEW w \in Work, work[w].key = k
      PROVE  /\ entry'[k].phase = "open" => ~MayReport(w)'
             /\ entry'[k].phase = "draining" => (MayReport(w)' <=> MayReport(w))
  BY <1>1, <1>2 DEF MayReport, Current, Draining
<1>3. ~Closed(k)' /\ (entry'[k].phase = "draining" => ~Closed(k))
  BY DEF Closed
<1> QED  BY <1>2, <1>3 DEF Granted

\* The steps of a fence close and open its key, or give up; the others show nothing.
LEMMA FenceGates ==
  ASSUME IInv, NEW k \in Key, UNCHANGED work,
         \/ BeginFence(k) \/ Seal(k) \/ SealResumes(k) \/ SealRejects(k)
         \/ Commit(k) \/ Abort(k) \/ Release(k)
  PROVE  [Gate!Next]_Gate!vars
<1>0. TypeOK /\ entry[k] \in Entry
  BY DEF IInv, TypeOK
<1>1. disposed' = disposed /\ \A j \in Key \ {k} : entry'[j] = entry[j]
  BY <1>0 DEF BeginFence, Seal, SealResumes, SealRejects, SealRound, Commit, Abort, Release, Reopen,
              TypeOK
<1>2. /\ \A j \in Key : RunningOn(j)' = RunningOn(j)
      /\ \A j \in Key \ {k} : Closed(j)' = Closed(j) /\ Granted(j)' = Granted(j)
  BY <1>0, <1>1, KeysStay
<1>3. Closed(k) => Granted(k) = {}
  BY DEF Granted
<1>4. ASSUME Closed(k)' = Closed(k), Granted(k)' = Granted(k) PROVE UNCHANGED Gate!vars
  BY <1>2, <1>4 DEF Gate!vars
<1>5. CASE BeginFence(k)
  <2>1. /\ entry'[k].generation = next /\ entry'[k].phase = "draining" /\ entry[k].phase = "open"
        /\ entry'[k].previous = entry[k].generation /\ ~disposed
    BY <1>0, <1>5 DEF BeginFence, Unfenced, Fenced, TypeOK
  <2>2. Granted(k)' = Granted(k)
    BY <1>1, <2>1, GrantedAfter
  <2> QED  BY <1>4, <2>1, <2>2 DEF Closed
<1>6. CASE Abort(k) \/ Release(k)
  <2>1. /\ entry'[k].generation = next /\ entry'[k].phase = "open" /\ ~disposed
    BY <1>0, <1>6 DEF Abort, Release, Reopen, TypeOK
  <2>2. Granted(k)' = {}
    BY <1>1, <2>1, GrantedAfter
  <2>5. Closed(k)' = FALSE /\ Closed(k) \in BOOLEAN
    BY <2>1 DEF Closed
  <2>3. CASE Closed(k)
    <3>1. Gate!Open(k)
      <4>1. \A j \in Key : Granted(j)' = Granted(j)
        BY <1>2, <1>3, <2>2, <2>3
      <4>2. \A j \in Key : Closed(j)' = IF j = k THEN FALSE ELSE Closed(j)
        BY <1>2, <2>5
      <4> QED  BY <1>2, <4>1, <4>2 DEF Gate!Open
    <3> QED  BY <3>1 DEF Gate!Next
  <2>4. CASE ~Closed(k)
    <3>1. Gate!Revoke(k)
      <4>1. \A j \in Key : Granted(j)' = IF j = k THEN {} ELSE Granted(j)
        BY <1>2, <2>2
      <4>2. Closed(k)' = Closed(k)
        BY <2>1, <2>4 DEF Closed
      <4>3. \A j \in Key : Closed(j)' = Closed(j)
        BY <1>2, <4>2
      <4> QED  BY <1>2, <4>1, <4>3 DEF Gate!Revoke
    <3> QED  BY <3>1 DEF Gate!Next
  <2> QED  BY <2>3, <2>4
<1>7. CASE SealRejects(k) \/ Commit(k)
  <2>1. /\ entry'[k].generation = entry[k].generation /\ entry'[k].previous = entry[k].previous
        /\ Closed(k)' = Closed(k) /\ (entry'[k].phase = "draining" <=> entry[k].phase = "draining")
    BY <1>0, <1>7 DEF SealRejects, Commit, Closed, Entry, TypeOK
  <2>2. Granted(k)' = Granted(k)
    BY <1>1, <2>1 DEF Granted, MayReport, Current, Draining
  <2> QED  BY <1>4, <2>1, <2>2
<1>8. CASE Seal(k) \/ SealResumes(k)
  <2>1. /\ SealRound(k) /\ ~disposed /\ entry[k].phase = "draining"
    BY <1>8 DEF Seal, SealResumes, IInv, WaitsDraining
  <2>2. /\ entry'[k].generation = entry[k].generation /\ entry'[k].previous = entry[k].previous
        /\ entry'[k].phase = IF Quiet(k) THEN "sealed" ELSE "draining"
    BY <1>0, <2>1 DEF SealRound, Entry, TypeOK
  <2>3. CASE Quiet(k)
    <3>1. RunningOn(k) = {}
      BY <2>1, <2>3 DEF IInv, Waits, Fenced, Quiet, Active, RunningOn, Running
    <3>2. Closed(k)' /\ Granted(k)' = {}
      BY <2>2, <2>3 DEF Closed, Granted
    <3>3. Gate!Close(k)
      BY <1>2, <3>1, <3>2 DEF Gate!Close
    <3> QED  BY <3>3 DEF Gate!Next
  <2>4. CASE ~Quiet(k)
    <3>1. Closed(k)' = Closed(k)
      BY <2>1, <2>2, <2>4 DEF Closed
    <3>2. Granted(k)' = Granted(k)
      BY <1>1, <2>1, <2>2, <2>4, <3>1 DEF Granted, MayReport, Current, Draining
    <3> QED  BY <1>4, <3>1, <3>2
  <2> QED  BY <2>3, <2>4
<1> QED  BY <1>5, <1>6, <1>7, <1>8

\* Every step of the gate is a step of the gate it promises to be, or none.
LEMMA StepGates == IInv /\ [Next]_vars => [Gate!Next]_Gate!vars
<1> SUFFICES ASSUME IInv, [Next]_vars PROVE [Gate!Next]_Gate!vars
  OBVIOUS
<1>1. ASSUME NEW w \in Work,
             \/ \E k \in Key : Capture(w, k)
             \/ Enrol(w) \/ Settle(w) \/ Cleanup(w)
      PROVE  [Gate!Next]_Gate!vars
  BY <1>1, WorkGates
<1>2. ASSUME NEW k \in Key,
             \/ BeginFence(k) \/ Seal(k) \/ SealResumes(k) \/ SealRejects(k)
             \/ Commit(k) \/ Abort(k) \/ Release(k)
      PROVE  [Gate!Next]_Gate!vars
  <2>1. UNCHANGED work
    BY <1>2 DEF BeginFence, Seal, SealResumes, SealRejects, SealRound, Commit, Abort, Release, Reopen
  <2> QED  BY <1>2, <2>1, FenceGates
<1>3. CASE Dispose
  <2>1. /\ \A k \in Key : Closed(k)' = Closed(k)
        /\ work' = work /\ disposed'
    BY <1>3 DEF Dispose, Closed, IInv, TypeOK, Entry
  <2>2. \A k \in Key : Granted(k)' = {} /\ RunningOn(k)' = RunningOn(k)
    BY <2>1 DEF Granted, RunningOn, Running
  <2>3. Gate!Shut
    BY <2>1, <2>2 DEF Gate!Shut
  <2> QED  BY <2>3 DEF Gate!Next
<1>4. CASE UNCHANGED vars
  <2>1. \A k \in Key : /\ Closed(k)' = Closed(k) /\ RunningOn(k)' = RunningOn(k)
                       /\ Granted(k)' = Granted(k)
    BY <1>4 DEF vars, Closed, Granted, RunningOn, Running, MayReport, Current, Draining
  <2> QED  BY <2>1 DEF Gate!vars
<1> QED  BY <1>1, <1>2, <1>3, <1>4 DEF Next, Dispatch, Create

\* Generations, fences, seals that wait, aborts and dropped entries are a gate: work
\* starts on authority granted while its key was open, and a seal ends all of it
\* (keyed_admission_gate.ts).
THEOREM ImplementsGateHolds == Spec => ImplementsGate
<1>1. Init => Gate!Init
  <2> SUFFICES ASSUME Init PROVE Gate!Init
    OBVIOUS
  <2>1. \A w \in Work : work[w].status = "new"
    BY DEF Init
  <2>2. \A k \in Key : Granted(k) = {} /\ RunningOn(k) = {}
    BY <2>1 DEF Granted, RunningOn, Running
  <2>3. ASSUME NEW k \in Key PROVE Closed(k) = FALSE
    <3>1. entry[k].phase = "open"
      BY DEF Init
    <3> QED  BY <3>1 DEF Closed
  <2> QED  BY <2>2, <2>3 DEF Gate!Init
<1> QED  BY <1>1, InitIInv, NextIInv, StepGates, PTL DEF Spec, Gate!Spec, ImplementsGate
=============================================================================
