--------------------------- MODULE AuditChain_proofs ---------------------------
(***************************************************************************)
(* What holds of AuditChain for any number of tasks, connections and       *)
(* invocations, whatever overlaps, fails or crashes: its types, that the   *)
(* rows of a task descend from rows stored before them, that nothing is    *)
(* logged twice, and what the seal of a task covers; and that the log is   *)
(* the one TaskLog promises, whose orderly chains verify.                  *)
(***************************************************************************)
EXTENDS AuditChain, TLAPS

-----------------------------------------------------------------------------
(***************************************************************************)
(* What the operations are built from.                                     *)
(***************************************************************************)
\* The stamp a row starts from is one.
LEMMA BlankOK == Blank \in Stamps
  BY AuditAssumption DEF Blank, Stamps, Hashes

\* get_last_step_hash gives the genesis or the hash of a stored row.
LEMMA LastHashStored ==
  ASSUME NEW t \in Tasks, NEW h \in LastHashes(t)
  PROVE  h = Genesis \/ \E j \in DOMAIN audit[t] : h = audit[t][j].result
  BY Zenon DEF LastHashes

\* It gives a hash.
LEMMA LastHashOK ==
  ASSUME AuditTypeOK, NEW t \in Tasks, NEW h \in LastHashes(t)
  PROVE  h \in Hashes
<1>1. audit[t] \in Seq(Rows)
  BY DEF AuditTypeOK
<1>2. \A j \in DOMAIN audit[t] : audit[t][j].result \in Calls
  <2>1. \A j \in DOMAIN audit[t] : audit[t][j] \in Rows
    BY <1>1
  <2> QED  BY <2>1 DEF Rows
<1> QED  BY <1>2, LastHashStored DEF Hashes

\* next_step_index gives a number, and so does the count of seal_task.
LEMMA NextStepOK ==
  ASSUME AuditTypeOK, NEW t \in Tasks
  PROVE  NextStep(t) \in Nat /\ Len(audit[t]) \in Nat
<1>1. audit[t] \in Seq(Rows)
  BY DEF AuditTypeOK
<1> QED  BY <1>1 DEF NextStep

\* Closed connections have the variables of such that did not begin.
LEMMA CloseOK ==
  ASSUME AuditTypeOK, NEW S \in SUBSET Conns, Close(S),
         UNCHANGED <<audit, clock, faults>>, crashes' \in 0..MaxCrashes,
         status' \in [Tasks -> {"none", "running", "awaiting_confirmation", "done"}],
         seal' \in [Tasks -> Seals \cup {NoSeal}],
         anchors' \in [Conns -> Anchors \cup {NoAnchor}]
  PROVE  AuditTypeOK'
<1>1. NoLoop \in Loops
  BY AuditAssumption DEF NoLoop, Loops, LoopRecords
<1>2. <<>> \in Seq(Events)
  OBVIOUS
<1> QED  BY <1>1, <1>2 DEF AuditTypeOK, Close, Hashes, LivePCs, LoggingPCs

-----------------------------------------------------------------------------
(***************************************************************************)
(* Types.                                                                  *)
(***************************************************************************)
\* The initial state has the types.
LEMMA TypeInit == Init => AuditTypeOK
<1>1. NoLoop \in Loops
  BY AuditAssumption DEF NoLoop, Loops, LoopRecords
<1>2. <<>> \in Seq(Events) /\ <<>> \in Seq(Rows)
  OBVIOUS
<1> QED  BY <1>1, <1>2, AuditAssumption DEF Init, AuditTypeOK, Hashes, LivePCs, LoggingPCs

\* The events a loop sends are events.
LEMMA SendOK ==
  ASSUME AuditTypeOK, NEW c \in Conns, NEW type \in {"action", "result"}, NEW n \in Nat,
         NEW numbers \in [1..n -> 1..MaxCalls], Send(c, type, numbers)
  PROVE  queue' \in [Conns -> Seq(Events)]
<1> DEFINE sent == [i \in DOMAIN numbers |-> [type |-> type, call |-> <<c, numbers[i]>>]]
<1>1. sent \in Seq(Events)
  <2>1. \A i \in 1..n : sent[i] \in Events
    BY AuditAssumption DEF Events, Calls
  <2>2. DOMAIN sent = 1..n
    OBVIOUS
  <2> QED  BY <2>1, <2>2
<1>2. queue[c] \o sent \in Seq(Events)
  <2>1. queue[c] \in Seq(Events)
    BY DEF AuditTypeOK
  <2> HIDE DEF sent
  <2> QED  BY <1>1, <2>1
<1>3. CASE pc[c] = "wait"
  BY <1>3 DEF Send, AuditTypeOK
<1>4. CASE pc[c] # "wait"
  BY <1>2, <1>4 DEF Send, AuditTypeOK
<1> QED  BY <1>3, <1>4

\* What is ready of a batch are numbers of its actions.
LEMMA ReadyOK ==
  ASSUME NEW n \in Nat \ {0}, NEW ready \in Ready(n)
  PROVE  \E m \in Nat : ready \in [1..m -> 1..n]
<1>1. CASE n = 1
  BY <1>1 DEF Ready
<1>2. CASE n # 1
  BY <1>2 DEF Ready
<1> QED  BY <1>1, <1>2

\* What the loop does keeps the types.
LEMMA LoopType ==
  ASSUME AuditTypeOK, NEW c \in Conns, Loop(c)
  PROVE  AuditTypeOK'
<1> USE DEF tables, bounds, locals
<1>0. loop[c] \in Loops
  BY DEF AuditTypeOK
<1>1. CASE ClearPending(c)
  <2>1. [loop[c] EXCEPT !.at = "turn"] \in Loops
    BY <1>0 DEF Loops, LoopRecords
  <2> QED  BY <1>1, <2>1 DEF ClearPending, LoopAt, AuditTypeOK
<1>2. CASE Act(c)
  <2>1. PICK n \in BatchSizes :
          /\ loop[c].calls + n <= MaxCalls
          /\ loop' = [loop EXCEPT ![c] = [at |-> "run", calls |-> loop[c].calls + n, running |-> n]]
          /\ \E ready \in Ready(n) :
               Send(c, "action", [i \in DOMAIN ready |-> loop[c].calls + ready[i]])
    BY <1>2 DEF Act
  <2>2. n \in Nat \ {0} /\ loop[c].calls \in Nat
    BY <1>0, AuditAssumption DEF Loops, LoopRecords
  <2>3. PICK ready \in Ready(n) :
          Send(c, "action", [i \in DOMAIN ready |-> loop[c].calls + ready[i]])
    BY <2>1
  <2>4. PICK m \in Nat : ready \in [1..m -> 1..n]
    BY <2>2, ReadyOK
  <2>5. [at |-> "run", calls |-> loop[c].calls + n, running |-> n] \in Loops
    BY <2>1, <2>2, AuditAssumption DEF Loops, LoopRecords
  <2>6. [i \in DOMAIN ready |-> loop[c].calls + ready[i]] \in [1..m -> 1..MaxCalls]
    <3>1. \A i \in 1..m : loop[c].calls + ready[i] \in 1..MaxCalls
      <4>1. \A i \in 1..m : ready[i] \in 1..n
        BY <2>4
      <4> QED  BY <2>1, <2>2, <4>1, AuditAssumption
    <3> QED  BY <2>4, <3>1
  <2>7. queue' \in [Conns -> Seq(Events)]
    BY <2>3, <2>6, SendOK
  <2> QED  BY <1>2, <2>1, <2>5, <2>7 DEF Act, AuditTypeOK
<1>3. CASE Observe(c)
  <2>1. [at |-> "turn", calls |-> loop[c].calls, running |-> 0] \in Loops
    BY <1>0, AuditAssumption DEF Loops, LoopRecords
  <2>2. /\ loop[c].calls \in Nat /\ loop[c].running \in Nat
        /\ loop[c].running <= loop[c].calls /\ loop[c].calls <= MaxCalls
    BY <1>0, AuditAssumption DEF Loops, LoopRecords
  <2>3. [i \in 1..loop[c].running |-> loop[c].calls - loop[c].running + i]
          \in [1..loop[c].running -> 1..MaxCalls]
    BY <2>2, AuditAssumption
  <2>4. queue' \in [Conns -> Seq(Events)]
    BY <1>3, <2>2, <2>3, SendOK DEF Observe
  <2> QED  BY <1>3, <2>1, <2>4 DEF Observe, AuditTypeOK
<1>4. CASE Park(c)
  <2>1. [loop[c] EXCEPT !.at = "over"] \in Loops
    BY <1>0 DEF Loops, LoopRecords
  <2> QED  BY <1>4, <2>1 DEF Park, LoopAt, AuditTypeOK
<1>5. CASE LoopEnds(c)
  <2>1. [loop[c] EXCEPT !.at = "over"] \in Loops
    BY <1>0 DEF Loops, LoopRecords
  <2> QED  BY <1>5, <2>1 DEF LoopEnds, LoopAt, AuditTypeOK
<1> QED  BY <1>1, <1>2, <1>3, <1>4, <1>5 DEF Loop

\* A connection that begins gets its task, and the types hold of it.
LEMMA EnterType ==
  ASSUME AuditTypeOK, NEW c \in Conns, NEW t \in Tasks, Start(c, t) \/ Resume(c, t)
  PROVE  AuditTypeOK'
<1> USE DEF tables, bounds
<1>0. loop[c] \in Loops
  BY DEF AuditTypeOK
<1>1. CASE Start(c, t)
  <2>1. [loop[c] EXCEPT !.at = "turn"] \in Loops
    BY <1>0 DEF Loops, LoopRecords
  <2> QED  BY <1>1, <2>1 DEF Start, Enter, Goto, LoopAt, AuditTypeOK, LivePCs, LoggingPCs
<1>2. CASE Resume(c, t)
  <2>1. [loop[c] EXCEPT !.at = "resume"] \in Loops
    BY <1>0 DEF Loops, LoopRecords
  <2> QED  BY <1>2, <2>1 DEF Resume, Enter, Goto, LoopAt, AuditTypeOK, LivePCs, LoggingPCs
<1> QED  BY <1>1, <1>2

\* A handler that logs has a row of an action, a result and two stamps.
LEMMA EntryOK ==
  ASSUME AuditTypeOK, NEW c \in Conns
  PROVE  /\ pc[c] \in LivePCs => task[c] \in Tasks
         /\ pc[c] \in LoggingPCs =>
              /\ task[c] \in Tasks
              /\ entry[c] \in Rows /\ entry[c].signed \in Stamps /\ entry[c].stamp \in Stamps
              /\ entry[c].signed.step \in Nat /\ entry[c].stamp.step \in Nat
<1>1. pc[c] \in LoggingPCs => entry[c] \in Rows /\ task[c] \in Tasks
  BY DEF AuditTypeOK, LivePCs
<1> QED  BY <1>1 DEF AuditTypeOK, Rows, Stamps

\* What draining an event does keeps the types.
LEMMA DrainType ==
  ASSUME AuditTypeOK, NEW c \in Conns, DrainAction(c) \/ DrainResult(c)
  PROVE  AuditTypeOK'
<1> USE DEF tables, bounds
<1>1. PICK type \in {"action", "result"} : Receives(c, type) /\ Drained(c)
  BY DEF DrainAction, DrainResult
<1>2. queue[c] \in Seq(Events) /\ queue[c] # <<>> /\ pc[c] = "drain" /\ task[c] \in Tasks
  BY <1>1 DEF AuditTypeOK, Receives, LivePCs
<1>3. Head(queue[c]) \in Events /\ Tail(queue[c]) \in Seq(Events)
  BY <1>2
<1>4. Head(queue[c]).call \in Calls
  BY <1>3 DEF Events
<1>5. queue' \in [Conns -> Seq(Events)]
  BY <1>1, <1>3 DEF Drained, AuditTypeOK
<1>6. CASE DrainAction(c)
  BY <1>4, <1>5, <1>6 DEF DrainAction, AuditTypeOK
<1>7. CASE DrainResult(c)
  <2>1. CASE last[c] = NoCall
    BY <1>5, <1>7, <2>1 DEF DrainResult, AuditTypeOK
  <2>2. CASE last[c] # NoCall
    <3> DEFINE row == [skill |-> last[c], result |-> Head(queue[c]).call,
                       signed |-> [step |-> NextStep(task[c]), prev |-> Genesis, time |-> 0],
                       stamp |-> Blank]
    <3>1. last[c] \in Calls
      BY <2>2 DEF AuditTypeOK
    <3>2. [step |-> NextStep(task[c]), prev |-> Genesis, time |-> 0] \in Stamps
      BY <1>2, NextStepOK, AuditAssumption DEF Stamps, Hashes
    <3>3. row \in Rows
      BY <1>4, <3>1, <3>2, BlankOK DEF Rows
    <3>4. /\ pc' = [pc EXCEPT ![c] = "peek"] /\ entry' = [entry EXCEPT ![c] = row]
          /\ last' = [last EXCEPT ![c] = NoCall]
      BY <1>7, <2>2 DEF DrainResult, Log, Goto
    <3> HIDE DEF row
    <3> QED  BY <1>2, <1>5, <1>7, <3>3, <3>4 DEF DrainResult, AuditTypeOK, LivePCs, LoggingPCs
  <2> QED  BY <2>1, <2>2
<1> QED  BY <1>6, <1>7

\* What logging a result does keeps the types.
LEMMA LoggingType ==
  ASSUME AuditTypeOK, NEW c \in Conns,
         Peek(c) \/ Sign(c) \/ LogStep(c) \/ LinkStep(c) \/ InsertStep(c)
  PROVE  AuditTypeOK'
<1> USE DEF tables, bounds, sending
<1>1. CASE Peek(c)
  <2>1. pc[c] \in LoggingPCs
    BY <1>1 DEF Peek, LoggingPCs
  <2>2. PICK h \in LastHashes(task[c]) :
          entry' = [entry EXCEPT ![c].signed =
                      [step |-> entry[c].signed.step, prev |-> h, time |-> clock]]
    BY <1>1 DEF Peek
  <2>3. [step |-> entry[c].signed.step, prev |-> h, time |-> clock] \in Stamps
    BY <2>1, EntryOK, LastHashOK DEF Stamps, AuditTypeOK
  <2>4. [entry[c] EXCEPT !.signed =
           [step |-> entry[c].signed.step, prev |-> h, time |-> clock]] \in Rows
    BY <2>1, <2>3, EntryOK DEF Rows
  <2> QED  BY <1>1, <2>1, <2>2, <2>4 DEF Peek, Goto, AuditTypeOK, LivePCs, LoggingPCs
<1>2. CASE Sign(c)
  <2>1. pc[c] \in LoggingPCs
    BY <1>2 DEF Sign, LoggingPCs
  <2>2. faults' \in 0..MaxFaults
    BY <1>2, AuditAssumption DEF Sign, AuditTypeOK
  <2>3. CASE Goto(c, "log") /\ UNCHANGED entry
    BY <1>2, <2>1, <2>2, <2>3 DEF Sign, Goto, AuditTypeOK, LivePCs, LoggingPCs
  <2>4. CASE Goto(c, "drain") /\ entry' = [entry EXCEPT ![c] = NoRow]
    BY <1>2, <2>1, <2>2, <2>4 DEF Sign, Goto, AuditTypeOK, LivePCs, LoggingPCs
  <2> QED  BY <1>2, <2>3, <2>4 DEF Sign
<1>3. CASE LogStep(c)
  <2>1. pc[c] \in LoggingPCs
    BY <1>3 DEF LogStep, LoggingPCs
  <2>2. [step |-> NextStep(task[c]), prev |-> Genesis, time |-> clock] \in Stamps
    BY <2>1, EntryOK, NextStepOK DEF Stamps, Hashes, AuditTypeOK
  <2>3. [entry[c] EXCEPT !.stamp =
           [step |-> NextStep(task[c]), prev |-> Genesis, time |-> clock]] \in Rows
    BY <2>1, <2>2, EntryOK DEF Rows
  <2> QED  BY <1>3, <2>1, <2>3 DEF LogStep, Goto, AuditTypeOK, LivePCs, LoggingPCs
<1>4. CASE LinkStep(c)
  <2>1. pc[c] \in LoggingPCs
    BY <1>4 DEF LinkStep, LoggingPCs
  <2>2. PICK h \in LastHashes(task[c]) : LinkTo(c, h)
    BY <1>4 DEF LinkStep
  <2>3. [entry[c].stamp EXCEPT !.prev = h] \in Stamps
    BY <2>1, EntryOK, LastHashOK DEF Stamps
  <2>4. [entry[c] EXCEPT !.stamp = [entry[c].stamp EXCEPT !.prev = h]] \in Rows
    BY <2>1, <2>3, EntryOK DEF Rows
  <2>5. entry' = [entry EXCEPT ![c] = [entry[c] EXCEPT !.stamp = [entry[c].stamp EXCEPT !.prev = h]]]
    BY <2>2 DEF LinkTo
  <2> QED  BY <1>4, <2>1, <2>4, <2>5 DEF LinkStep, Goto, AuditTypeOK, LivePCs, LoggingPCs
<1>5. CASE InsertStep(c)
  <2>1. pc[c] \in LoggingPCs
    BY <1>5 DEF InsertStep, LoggingPCs
  <2>2. Append(audit[task[c]], entry[c]) \in Seq(Rows)
    BY <2>1, EntryOK DEF AuditTypeOK
  <2> QED  BY <1>5, <2>1, <2>2, EntryOK DEF InsertStep, Goto, AuditTypeOK, LivePCs, LoggingPCs
<1> QED  BY <1>1, <1>2, <1>3, <1>4, <1>5

\* What sealing and anchoring do keeps the types.
LEMMA SealType ==
  ASSUME AuditTypeOK, NEW c \in Conns,
         ClientLeaves(c) \/ EndTask(c) \/ SealHash(c) \/ SealRow(c) \/ AnchorHash(c) \/ Publish(c)
  PROVE  AuditTypeOK'
<1> USE DEF tables, bounds, sending, locals
<1>0. UNCHANGED <<audit, clock, faults, crashes>>
  BY DEF ClientLeaves, EndTask, SealHash, SealRow, WriteSeal, AnchorHash, Publish
<1>1. CASE ClientLeaves(c)
  <2>1. <<>> \in Seq(Events)
    OBVIOUS
  <2> QED  BY <1>1, <2>1 DEF ClientLeaves, Goto, AuditTypeOK, LivePCs, LoggingPCs
<1>2. CASE EndTask(c)
  <2>1. CASE Close({c})
    BY <1>0, <1>2, <2>1, CloseOK DEF EndTask, AuditTypeOK
  <2>2. CASE Goto(c, "seal") /\ UNCHANGED <<sending, locals>>
    BY <1>2, <2>2 DEF EndTask, Finished, Goto, AuditTypeOK, LivePCs, LoggingPCs
  <2> QED  BY <1>2, <2>1, <2>2 DEF EndTask
<1>3. CASE SealHash(c)
  <2>1. task[c] \in Tasks
    BY <1>3, EntryOK DEF SealHash, LivePCs
  <2>2. PICK h \in LastHashes(task[c]) : final' = [final EXCEPT ![c] = h]
    BY <1>3 DEF SealHash
  <2>3. h \in Hashes
    BY <2>1, LastHashOK
  <2> QED  BY <1>3, <2>2, <2>3 DEF SealHash, Goto, AuditTypeOK, LivePCs, LoggingPCs
<1>4. CASE SealRow(c)
  <2>1. task[c] \in Tasks
    BY <1>4, EntryOK DEF SealRow, LivePCs
  <2>2. CASE Close({c}) /\ UNCHANGED <<status, seal>>
    BY <1>0, <1>4, <2>2, CloseOK DEF SealRow, AuditTypeOK
  <2>3. CASE WriteSeal(c, Len(audit[task[c]]))
    <3>1. [final |-> final[c], count |-> Len(audit[task[c]])] \in Seals
      BY <2>1, NextStepOK DEF Seals, AuditTypeOK
    <3>2. seal' \in [Tasks -> Seals \cup {NoSeal}]
      BY <2>3, <3>1 DEF WriteSeal, AuditTypeOK
    <3> QED  BY <1>4, <2>3, <3>2 DEF SealRow, WriteSeal, Goto, AuditTypeOK, LivePCs, LoggingPCs
  <2> QED  BY <1>4, <2>2, <2>3 DEF SealRow
<1>5. CASE AnchorHash(c)
  <2>1. task[c] \in Tasks
    BY <1>5, EntryOK DEF AnchorHash, LivePCs
  <2>2. CASE Close({c})
    BY <1>0, <1>5, <2>2, CloseOK DEF AnchorHash, AuditTypeOK
  <2>3. CASE ~ Close({c})
    <3>1. PICK h \in LastHashes(task[c]) : final' = [final EXCEPT ![c] = h]
      BY <1>5, <2>3 DEF AnchorHash
    <3>2. h \in Hashes
      BY <2>1, LastHashOK
    <3> QED  BY <1>5, <2>3, <3>1, <3>2 DEF AnchorHash, Goto, AuditTypeOK, LivePCs, LoggingPCs
  <2> QED  BY <2>2, <2>3
<1>6. CASE Publish(c)
  <2>1. task[c] \in Tasks
    BY <1>6, EntryOK DEF Publish, LivePCs
  <2>2. [task |-> task[c], final |-> final[c], count |-> Len(audit[task[c]])] \in Anchors
    BY <2>1, NextStepOK DEF Anchors, AuditTypeOK
  <2>3. anchors' \in [Conns -> Anchors \cup {NoAnchor}]
    BY <1>6, <2>2 DEF Publish, AuditTypeOK
  <2> QED  BY <1>0, <1>6, <2>3, CloseOK DEF Publish, AuditTypeOK
<1> QED  BY <1>1, <1>2, <1>3, <1>4, <1>5, <1>6

\* Every step keeps the types.
LEMMA TypeStep == AuditTypeOK /\ [Next]_vars => AuditTypeOK'
<1> SUFFICES ASSUME AuditTypeOK, [Next]_vars PROVE AuditTypeOK'
  OBVIOUS
<1>1. ASSUME NEW c \in Conns, Loop(c) PROVE AuditTypeOK'
  BY <1>1, LoopType
<1>2. ASSUME NEW c \in Conns, Handler(c) PROVE AuditTypeOK'
  BY <1>2, DrainType, LoggingType, SealType DEF Handler
<1>3. ASSUME NEW c \in Conns, NEW t \in Tasks, Start(c, t) \/ Resume(c, t) PROVE AuditTypeOK'
  BY <1>3, EnterType
<1>4. CASE Tick
  BY <1>4, AuditAssumption DEF Tick, AuditTypeOK, tables, sending, locals
<1>5. CASE Crash
  <2>1. crashes' \in 0..MaxCrashes
    BY <1>5, AuditAssumption DEF Crash, AuditTypeOK
  <2> QED  BY <1>5, <2>1, CloseOK DEF Crash, AuditTypeOK, tables
<1>6. CASE UNCHANGED vars
  BY <1>6 DEF vars, tables, bounds, sending, locals, AuditTypeOK
<1> QED  BY <1>1, <1>2, <1>3, <1>4, <1>5, <1>6 DEF Next

\* The tables, the loops and the handlers keep their types: in particular a row is always
\* of an action and a result, and what is sealed and anchored is a hash and a number.
THEOREM AuditTyping == Spec => []AuditTypeOK
<1> QED  BY TypeInit, TypeStep, PTL DEF Spec

-----------------------------------------------------------------------------
(***************************************************************************)
(* The rows of a task form a tree.                                         *)
(***************************************************************************)
\* What a handler is about to insert names the genesis or a row that is stored.
LinksStored ==
  \A c \in Conns :
    pc[c] = "insert" =>
      \/ entry[c].stamp.prev = Genesis
      \/ \E j \in DOMAIN audit[task[c]] : entry[c].stamp.prev = audit[task[c]][j].result

\* A link in hand names a stored row, for the row it will be part of.
DescendInv == AuditTypeOK /\ RowsDescend /\ LinksStored

\* Inserting a row that names a stored one keeps the tree and what others hold.
LEMMA InsertDescends ==
  ASSUME DescendInv, NEW c \in Conns, InsertStep(c)
  PROVE  RowsDescend' /\ LinksStored'
<1> DEFINE t0 == task[c]
<1>1. /\ pc[c] = "insert" /\ t0 \in Tasks /\ entry[c] \in Rows
      /\ \A t \in Tasks : audit[t] \in Seq(Rows)
  BY EntryOK DEF InsertStep, DescendInv, AuditTypeOK, LivePCs, LoggingPCs
<1>2. audit' = [audit EXCEPT ![t0] = Append(audit[t0], entry[c])]
  BY DEF InsertStep
<1>3. \A t \in Tasks : t # t0 => audit'[t] = audit[t]
  BY <1>2 DEF DescendInv, AuditTypeOK
<1>4. audit'[t0] = Append(audit[t0], entry[c])
  BY <1>1, <1>2 DEF DescendInv, AuditTypeOK
<1>5. /\ DOMAIN audit[t0] = 1..Len(audit[t0]) /\ Len(audit[t0]) \in Nat
      /\ DOMAIN audit'[t0] = 1..(Len(audit[t0]) + 1)
      /\ audit'[t0][Len(audit[t0]) + 1] = entry[c]
      /\ \A i \in 1..Len(audit[t0]) : audit'[t0][i] = audit[t0][i]
  BY <1>1, <1>4
<1>6. RowsDescend'
  <2> SUFFICES ASSUME NEW t \in Tasks, NEW i \in DOMAIN audit'[t]
               PROVE  \/ audit'[t][i].stamp.prev = Genesis
                      \/ \E j \in 1..(i - 1) : audit'[t][i].stamp.prev = audit'[t][j].result
    BY DEF RowsDescend
  <2>1. CASE t # t0
    BY <1>3, <2>1 DEF DescendInv, RowsDescend
  <2>2. CASE t = t0 /\ i \in 1..Len(audit[t0])
    <3>1. \/ audit[t0][i].stamp.prev = Genesis
          \/ \E j \in 1..(i - 1) : audit[t0][i].stamp.prev = audit[t0][j].result
      BY <1>1, <1>5, <2>2 DEF DescendInv, RowsDescend
    <3>2. \A j \in 1..(i - 1) : audit'[t0][j] = audit[t0][j]
      BY <1>5, <2>2
    <3> QED  BY <1>5, <2>2, <3>1, <3>2
  <2>3. CASE t = t0 /\ i = Len(audit[t0]) + 1
    <3>1. \/ entry[c].stamp.prev = Genesis
          \/ \E j \in DOMAIN audit[t0] : entry[c].stamp.prev = audit[t0][j].result
      BY <1>1 DEF DescendInv, LinksStored
    <3>2. i - 1 = Len(audit[t0])
      BY <1>5, <2>3
    <3> QED  BY <1>5, <2>3, <3>1, <3>2
  <2> QED  BY <1>5, <2>1, <2>2, <2>3
<1>7. LinksStored'
  <2> SUFFICES ASSUME NEW d \in Conns, pc'[d] = "insert"
               PROVE  \/ entry'[d].stamp.prev = Genesis
                      \/ \E j \in DOMAIN audit'[task'[d]] :
                           entry'[d].stamp.prev = audit'[task'[d]][j].result
    BY DEF LinksStored
  <2>1. d # c /\ pc[d] = "insert" /\ entry'[d] = entry[d] /\ task'[d] = task[d]
    BY DEF InsertStep, Goto, DescendInv, AuditTypeOK
  <2>2. task[d] \in Tasks
    BY <2>1, EntryOK DEF DescendInv, LivePCs, LoggingPCs
  <2>3. \/ entry[d].stamp.prev = Genesis
        \/ \E j \in DOMAIN audit[task[d]] : entry[d].stamp.prev = audit[task[d]][j].result
    BY <2>1 DEF DescendInv, LinksStored
  <2>4. \A j \in DOMAIN audit[task[d]] :
          j \in DOMAIN audit'[task[d]] /\ audit'[task[d]][j] = audit[task[d]][j]
    BY <1>3, <1>5, <2>2
  <2> QED  BY <2>1, <2>3, <2>4
<1> QED  BY <1>6, <1>7

\* log_task_step names the last hash it has read.
LEMMA LinkDescends ==
  ASSUME DescendInv, NEW c \in Conns, LinkStep(c)
  PROVE  LinksStored'
<1>1. pc[c] = "link" /\ task[c] \in Tasks /\ entry[c] \in Rows /\ entry[c].stamp \in Stamps
  BY EntryOK DEF LinkStep, DescendInv, LivePCs, LoggingPCs
<1>2. PICK h \in LastHashes(task[c]) : LinkTo(c, h)
  BY DEF LinkStep
<1>3. entry'[c].stamp.prev = h
  <2>1. entry'[c] = [entry[c] EXCEPT !.stamp = [entry[c].stamp EXCEPT !.prev = h]]
    BY <1>2 DEF LinkTo, DescendInv, AuditTypeOK
  <2> QED  BY <1>1, <2>1 DEF Rows, Stamps
<1>4. UNCHANGED <<audit, task>> /\ \A d \in Conns : d # c => pc'[d] = pc[d] /\ entry'[d] = entry[d]
  BY <1>2 DEF LinkStep, LinkTo, Goto, DescendInv, AuditTypeOK, tables
<1>5. h = Genesis \/ \E j \in DOMAIN audit[task[c]] : h = audit[task[c]][j].result
  BY <1>1, LastHashStored
<1>6. ASSUME NEW d \in Conns, pc'[d] = "insert"
      PROVE  \/ entry'[d].stamp.prev = Genesis
             \/ \E j \in DOMAIN audit'[task'[d]] : entry'[d].stamp.prev = audit'[task'[d]][j].result
  <2>1. CASE d = c
    BY <1>3, <1>4, <1>5, <2>1
  <2>2. CASE d # c
    BY <1>4, <1>6, <2>2 DEF DescendInv, LinksStored
  <2> QED  BY <2>1, <2>2
<1> QED  BY <1>6 DEF LinksStored

\* No other step inserts a row, or brings a handler to the insertion.
LEMMA OthersKeepRows ==
  ASSUME AuditTypeOK, [Next]_vars, NEW d \in Conns, pc'[d] = "insert",
         \A c \in Conns : ~ InsertStep(c) /\ ~ LinkStep(c)
  PROVE  pc[d] = "insert" /\ task'[d] = task[d] /\ entry'[d] = entry[d]
<1> USE DEF tables, bounds, sending, locals, Goto, AuditTypeOK
<1>1. ASSUME NEW c \in Conns, Loop(c)
      PROVE  pc[d] = "insert" /\ task'[d] = task[d] /\ entry'[d] = entry[d]
  BY <1>1 DEF Loop, ClearPending, Act, Observe, Park, LoopEnds
<1>2. ASSUME NEW c \in Conns, Handler(c)
      PROVE  pc[d] = "insert" /\ task'[d] = task[d] /\ entry'[d] = entry[d]
  <2>1. CASE DrainAction(c) \/ DrainResult(c) \/ Peek(c) \/ Sign(c) \/ LogStep(c) \/ ClientLeaves(c)
    BY <2>1 DEF DrainAction, DrainResult, Log, Receives, Peek, Sign, LogStep, ClientLeaves
  <2>2. CASE EndTask(c) \/ SealHash(c) \/ SealRow(c) \/ AnchorHash(c) \/ Publish(c)
    BY <2>2 DEF EndTask, SealHash, SealRow, WriteSeal, AnchorHash, Publish, Close
  <2> QED  BY <1>2, <2>1, <2>2 DEF Handler
<1>3. ASSUME NEW c \in Conns, NEW t \in Tasks, Start(c, t) \/ Resume(c, t)
      PROVE  pc[d] = "insert" /\ task'[d] = task[d] /\ entry'[d] = entry[d]
  BY <1>3 DEF Start, Resume, Enter
<1>4. CASE Tick \/ UNCHANGED vars
  BY <1>4 DEF Tick, vars
<1>5. CASE Crash
  BY <1>5 DEF Crash, Close
<1> QED  BY <1>1, <1>2, <1>3, <1>4, <1>5 DEF Next

\* Nor does any other step touch the table.
LEMMA OnlyInsertLogs ==
  ASSUME [Next]_vars, \A c \in Conns : ~ InsertStep(c)
  PROVE  UNCHANGED audit
<1> USE DEF tables, bounds, sending, locals
<1>1. ASSUME NEW c \in Conns, Loop(c) PROVE UNCHANGED audit
  BY <1>1 DEF Loop, ClearPending, Act, Observe, Park, LoopEnds
<1>2. ASSUME NEW c \in Conns, Handler(c) PROVE UNCHANGED audit
  BY <1>2 DEF Handler, DrainAction, DrainResult, Peek, Sign, LogStep, LinkStep, ClientLeaves,
              EndTask, SealHash, SealRow, AnchorHash, Publish
<1>3. ASSUME NEW c \in Conns, NEW t \in Tasks, Start(c, t) \/ Resume(c, t) PROVE UNCHANGED audit
  BY <1>3 DEF Start, Resume
<1>4. CASE Tick \/ Crash \/ UNCHANGED vars
  BY <1>4 DEF Tick, Crash, vars
<1> QED  BY <1>1, <1>2, <1>3, <1>4 DEF Next

\* However handlers overlap on a task, crash or lose their signature, the prev_hash of a row
\* is the genesis or the hash of a row inserted before it: the rows form a tree.
THEOREM Descent == Spec => []RowsDescend
<1>1. Init => DescendInv
  <2>1. Init => RowsDescend /\ LinksStored
    BY DEF Init, RowsDescend, LinksStored
  <2> QED  BY <2>1, TypeInit DEF DescendInv
<1>2. DescendInv /\ [Next]_vars => DescendInv'
  <2> SUFFICES ASSUME DescendInv, [Next]_vars PROVE DescendInv'
    OBVIOUS
  <2>1. AuditTypeOK'
    BY TypeStep DEF DescendInv
  <2>2. CASE \E c \in Conns : InsertStep(c)
    BY <2>1, <2>2, InsertDescends DEF DescendInv
  <2>3. CASE \A c \in Conns : ~ InsertStep(c)
    <3>1. UNCHANGED audit
      BY <2>3, OnlyInsertLogs
    <3>2. RowsDescend'
      BY <3>1 DEF DescendInv, RowsDescend
    <3>3. CASE \E c \in Conns : LinkStep(c)
      BY <2>1, <3>2, <3>3, LinkDescends DEF DescendInv
    <3>4. CASE \A c \in Conns : ~ LinkStep(c)
      <4>1. \A d \in Conns : pc'[d] = "insert" =>
              pc[d] = "insert" /\ task'[d] = task[d] /\ entry'[d] = entry[d]
        BY <2>3, <3>4, OthersKeepRows DEF DescendInv
      <4>2. LinksStored'
        BY <3>1, <4>1 DEF DescendInv, LinksStored
      <4> QED  BY <2>1, <3>2, <4>2 DEF DescendInv
    <3> QED  BY <3>3, <3>4
  <2> QED  BY <2>2, <2>3
<1> QED  BY <1>1, <1>2, PTL DEF Spec, DescendInv

-----------------------------------------------------------------------------
(***************************************************************************)
(* A task that awaits an answer is not sealed under it.                    *)
(***************************************************************************)
\* Only seal_task writes the seal or makes a task done, and not of a task that awaits.
LEMMA SealMinds ==
  ASSUME AuditTypeOK, NEW c \in Conns, Handler(c), NEW t \in Tasks,
         status[t] = "awaiting_confirmation"
  PROVE  status'[t] # "done" /\ seal'[t] = seal[t]
<1> USE DEF tables, bounds, sending, locals
<1>1. CASE SealRow(c)
  <2>1. CASE status[task[c]] = "awaiting_confirmation"
    BY <1>1, <2>1 DEF SealRow
  <2>2. CASE status[task[c]] # "awaiting_confirmation"
    BY <1>1, <2>2 DEF SealRow, WriteSeal, AuditTypeOK
  <2> QED  BY <2>1, <2>2
<1>2. CASE ~ SealRow(c)
  <2>1. UNCHANGED <<status, seal>>
    BY <1>2 DEF Handler, DrainAction, DrainResult, Peek, Sign, LogStep, LinkStep, InsertStep,
                ClientLeaves, EndTask, SealHash, AnchorHash, Publish
  <2> QED  BY <2>1
<1> QED  BY <1>1, <1>2

\* Whichever handlers end while a task is parked, however they overlap with the connection
\* that parked it, it is not done, and its seal is not written, before it is resumed.
THEOREM ParkedNotSealed == Spec => ParkedStaysOpen
<1> DEFINE Open == \A t \in Tasks : status[t] = "awaiting_confirmation" =>
                     status'[t] # "done" /\ seal'[t] = seal[t]
<1>1. AuditTypeOK /\ [Next]_vars => [Open]_vars
  <2> SUFFICES ASSUME AuditTypeOK, [Next]_vars, NEW t \in Tasks,
                      status[t] = "awaiting_confirmation"
               PROVE  status'[t] # "done" /\ seal'[t] = seal[t]
    OBVIOUS
  <2> USE DEF tables, bounds, sending, locals
  <2>1. ASSUME NEW c \in Conns, Loop(c) PROVE status'[t] # "done" /\ seal'[t] = seal[t]
    BY <2>1 DEF Loop, ClearPending, Act, Observe, Park, LoopEnds, AuditTypeOK
  <2>2. ASSUME NEW c \in Conns, Handler(c) PROVE status'[t] # "done" /\ seal'[t] = seal[t]
    BY <2>2, SealMinds
  <2>3. ASSUME NEW c \in Conns, NEW u \in Tasks, Start(c, u) \/ Resume(c, u)
        PROVE  status'[t] # "done" /\ seal'[t] = seal[t]
    BY <2>3 DEF Start, Resume, AuditTypeOK
  <2>4. CASE Tick \/ Crash \/ UNCHANGED vars
    BY <2>4 DEF Tick, Crash, vars
  <2> QED  BY <2>1, <2>2, <2>3, <2>4 DEF Next
<1> QED  BY <1>1, AuditTyping, PTL DEF Spec, ParkedStaysOpen

-----------------------------------------------------------------------------
(***************************************************************************)
(* No action and no result of a connection is logged twice, for any tasks, *)
(* connections and batches, whatever handlers overlap and whatever crashes.*)
(*                                                                         *)
(* An invocation travels from the loop through the queue into last_action, *)
(* then into the row in hand, then into the table.  The invariant says     *)
(* that it is in one of these places at a time, and that the numbers of a  *)
(* loop's invocations only grow.                                           *)
(***************************************************************************)

\* The events that are logged: what a skill is given, and what it gave.
Types == {"action", "result"}

\* How far the invocations of a connection have been announced, and how far their results.
Sent(c, type) == IF type = "action" THEN loop[c].calls ELSE loop[c].calls - loop[c].running

\* The event is in the queue, not yet drained.
Queued(c, type, call) ==
  \E i \in DOMAIN queue[c] : queue[c][i].type = type /\ queue[c][i].call = call

\* The handler of c has drained the event of this type for this call: it comes no more.
Passed(c, type, call) ==
  /\ call[1] = c /\ call[2] <= Sent(c, type)
  /\ ~Queued(c, type, call)

\* A row has the call as its skill, or its result.
SkillLogged(call) == \E t \in Tasks : \E i \in DOMAIN audit[t] : audit[t][i].skill = call
ResultLogged(call) == \E t \in Tasks : \E i \in DOMAIN audit[t] : audit[t][i].result = call

\* A loop ends with its handler, and is never without one.
Accompanied(c) == loop[c].at # "off" => pc[c] \in LivePCs

\* What is queued is the connection's own, announced, and queued once.
QueuedOnce(c) ==
  \A i, j \in DOMAIN queue[c] :
    /\ queue[c][i].call[1] = c
    /\ queue[c][i].call[2] <= Sent(c, queue[c][i].type)
    /\ queue[c][i].type = queue[c][j].type /\ queue[c][i].call = queue[c][j].call => i = j

\* last_action has been drained and is in no row yet; so it is with the row in hand, and
\* until that is inserted there is no last_action.
LastNew(c) ==
  last[c] # NoCall => Passed(c, "action", last[c]) /\ ~SkillLogged(last[c])

EntryNew(c) ==
  pc[c] \in LoggingPCs =>
    /\ last[c] = NoCall
    /\ Passed(c, "action", entry[c].skill) /\ ~SkillLogged(entry[c].skill)
    /\ Passed(c, "result", entry[c].result) /\ ~ResultLogged(entry[c].result)

\* Where a connection may hold a call, it is new.
ConnOnce(c) == Accompanied(c) /\ QueuedOnce(c) /\ LastNew(c) /\ EntryNew(c)

\* A call that is in a row has been drained, by a connection that has begun.
Begun(type, call) ==
  /\ pc[call[1]] # "idle"
  /\ pc[call[1]] \in LivePCs => Passed(call[1], type, call)

\* No row is about a call that is yet to come.
RowsBegun ==
  \A t \in Tasks : \A i \in DOMAIN audit[t] :
    Begun("action", audit[t][i].skill) /\ Begun("result", audit[t][i].result)

\* LoggedOnce is inductive with where the calls that are not logged yet may be.
OnceInv == AuditTypeOK /\ (\A c \in Conns : ConnOnce(c)) /\ RowsBegun /\ LoggedOnce

-----------------------------------------------------------------------------
(***************************************************************************)
(* What a step does to the places of one connection.                       *)
(***************************************************************************)

\* Numbers grow, and what is new in the queue is new.
Forward(c) ==
  \A type \in Types :
    /\ Sent(c, type) <= Sent(c, type)'
    /\ \A call \in Calls : Queued(c, type, call)' => Queued(c, type, call) \/ call[2] > Sent(c, type)

\* A connection goes on, or closes and loses what it held.
GoesOn(c) ==
  /\ pc'[c] = "idle" => pc[c] = "idle"
  /\ pc'[c] \in LivePCs => pc[c] \in LivePCs \cup {"idle"}

Closes(c) ==
  /\ pc'[c] = "closed" /\ loop'[c] = NoLoop /\ queue'[c] = <<>> /\ last'[c] = NoCall

\* It may drop its queue, change its place and sign its row; what it holds is the same.
Steady(c) ==
  /\ GoesOn(c)
  /\ loop'[c].calls = loop[c].calls /\ loop'[c].running = loop[c].running
  /\ loop'[c].at # "off" => pc'[c] \in LivePCs
  /\ queue'[c] = queue[c] \/ queue'[c] = <<>>
  /\ last'[c] = last[c]
  /\ pc'[c] \in LoggingPCs =>
       /\ pc[c] \in LoggingPCs
       /\ entry'[c].skill = entry[c].skill /\ entry'[c].result = entry[c].result

Quiet(c) == Closes(c) \/ Steady(c)

\* The numbers of a loop are naturals, and so is how far they were sent.
LEMMA Numbers ==
  ASSUME AuditTypeOK, NEW c \in Conns
  PROVE  /\ loop[c].calls \in Nat /\ loop[c].running \in Nat
         /\ loop[c].running <= loop[c].calls /\ loop[c].calls <= MaxCalls
         /\ \A type \in Types : Sent(c, type) \in Nat
<1>1. loop[c] \in Loops
  BY DEF AuditTypeOK
<1>2. /\ loop[c].calls \in Nat /\ loop[c].running \in Nat
      /\ loop[c].running <= loop[c].calls /\ loop[c].calls <= MaxCalls
  BY <1>1, AuditAssumption DEF Loops, LoopRecords
<1> QED BY <1>2 DEF Sent

\* The calls that are held, queued or stored are calls.
LEMMA HeldCalls ==
  ASSUME AuditTypeOK
  PROVE  /\ \A c \in Conns : \A i \in DOMAIN queue[c] :
              queue[c][i] \in Events /\ queue[c][i].type \in Types /\ queue[c][i].call \in Calls
         /\ \A c \in Conns : last[c] # NoCall => last[c] \in Calls
         /\ \A c \in Conns : pc[c] \in LoggingPCs =>
              entry[c].skill \in Calls /\ entry[c].result \in Calls
         /\ \A t \in Tasks : \A i \in DOMAIN audit[t] :
              audit[t][i].skill \in Calls /\ audit[t][i].result \in Calls
<1>1. \A c \in Conns : \A i \in DOMAIN queue[c] : queue[c][i] \in Events
  BY DEF AuditTypeOK
<1>2. \A t \in Tasks : \A i \in DOMAIN audit[t] : audit[t][i] \in Rows
  BY DEF AuditTypeOK
<1>3. \A c \in Conns : pc[c] \in LoggingPCs => entry[c] \in Rows
  BY DEF AuditTypeOK
<1>4. \A c \in Conns : last[c] # NoCall => last[c] \in Calls
  BY DEF AuditTypeOK
<1>5. \A e \in Events : e.type \in Types /\ e.call \in Calls
  BY DEF Events, Types
<1>6. \A r \in Rows : r.skill \in Calls /\ r.result \in Calls
  BY DEF Rows
<1> QED BY <1>1, <1>2, <1>3, <1>4, <1>5, <1>6

\* What has passed stays passed while numbers grow.
LEMMA PassedStays ==
  ASSUME AuditTypeOK, AuditTypeOK', NEW c \in Conns, Forward(c),
         NEW type \in Types, NEW call \in Calls, Passed(c, type, call)
  PROVE  Passed(c, type, call)'
<1>1. Sent(c, type) \in Nat /\ Sent(c, type)' \in Nat
  <2>1. Sent(c, type)' \in Nat
    <3>1. loop'[c] \in Loops
      BY DEF AuditTypeOK
    <3>2. /\ loop'[c].calls \in Nat /\ loop'[c].running \in Nat
          /\ loop'[c].running <= loop'[c].calls
      BY <3>1, AuditAssumption DEF Loops, LoopRecords
    <3> QED BY <3>2 DEF Sent
  <2> QED BY <2>1, Numbers
<1>2. call[2] \in Nat
  BY AuditAssumption DEF Calls
<1>3. Sent(c, type) <= Sent(c, type)' /\ ~Queued(c, type, call)'
  BY <1>1, <1>2 DEF Forward, Passed
<1> QED BY <1>1, <1>2, <1>3 DEF Passed

\* So a call that is in a row stays begun, if every connection goes forward or closes.
LEMMA BegunStays ==
  ASSUME AuditTypeOK, AuditTypeOK',
         \A c \in Conns : Closes(c) \/ (GoesOn(c) /\ Forward(c)),
         NEW type \in Types, NEW call \in Calls, Begun(type, call)
  PROVE  Begun(type, call)'
<1>1. call[1] \in Conns
  BY DEF Calls
<1>2. CASE Closes(call[1])
  BY <1>2 DEF Closes, Begun, LivePCs, LoggingPCs
<1>3. CASE GoesOn(call[1]) /\ Forward(call[1])
  BY <1>1, <1>3, PassedStays DEF Begun, GoesOn
<1> QED BY <1>1, <1>2, <1>3

\* A quiet connection goes forward, unless it closes.
LEMMA SteadyForward ==
  ASSUME AuditTypeOK, NEW c \in Conns, Steady(c)
  PROVE  Forward(c)
<1>1. \A type \in Types : Sent(c, type)' = Sent(c, type) /\ Sent(c, type) \in Nat
  BY Numbers DEF Steady, Sent
<1>2. \A type \in Types, call \in Calls : Queued(c, type, call)' => Queued(c, type, call)
  BY DEF Steady, Queued
<1> QED BY <1>1, <1>2 DEF Forward

\* And it keeps what it holds.
LEMMA QuietKeeps ==
  ASSUME AuditTypeOK, AuditTypeOK', NEW c \in Conns, ConnOnce(c), Quiet(c), audit' = audit
  PROVE  ConnOnce(c)'
<1>1. CASE Closes(c)
  BY <1>1 DEF Closes, ConnOnce, Accompanied, QueuedOnce, LastNew, EntryNew, NoLoop,
              LivePCs, LoggingPCs
<1>2. CASE Steady(c)
  <2>1. \A call : SkillLogged(call)' = SkillLogged(call) /\ ResultLogged(call)' = ResultLogged(call)
    BY DEF SkillLogged, ResultLogged
  <2>2. Forward(c)
    BY <1>2, SteadyForward
  <2>3. QueuedOnce(c)'
    <3>1. \A type : Sent(c, type)' = Sent(c, type)
      BY <1>2 DEF Steady, Sent
    <3>2. CASE queue'[c] = queue[c]
      BY <3>1, <3>2 DEF ConnOnce, QueuedOnce
    <3>3. CASE queue'[c] = <<>>
      BY <3>3 DEF QueuedOnce
    <3> QED BY <1>2, <3>2, <3>3 DEF Steady
  <2>4. LastNew(c)'
    BY <1>2, <2>1, <2>2, PassedStays, HeldCalls DEF Steady, ConnOnce, LastNew, Types
  <2>5. EntryNew(c)'
    <3> SUFFICES ASSUME pc'[c] \in LoggingPCs PROVE EntryNew(c)'
      BY DEF EntryNew
    <3>1. /\ pc[c] \in LoggingPCs /\ last'[c] = last[c]
          /\ entry'[c].skill = entry[c].skill /\ entry'[c].result = entry[c].result
      BY <1>2 DEF Steady
    <3>2. /\ Passed(c, "action", entry[c].skill)' /\ Passed(c, "result", entry[c].result)'
      BY <2>2, <3>1, PassedStays, HeldCalls DEF ConnOnce, EntryNew, Types
    <3> QED BY <2>1, <3>1, <3>2 DEF ConnOnce, EntryNew, Passed, Queued, Sent
  <2>6. Accompanied(c)'
    BY <1>2 DEF Steady, Accompanied
  <2> QED BY <2>3, <2>4, <2>5, <2>6 DEF ConnOnce
<1> QED BY <1>1, <1>2 DEF Quiet

-----------------------------------------------------------------------------
(***************************************************************************)
(* The steps that move an invocation from one place to the next.           *)
(***************************************************************************)

\* Sending: distinct numbers, above all that were sent before.
LEMMA SendNew ==
  ASSUME AuditTypeOK, NEW c \in Conns, QueuedOnce(c), NEW type \in Types,
         NEW n \in Nat, NEW numbers \in [1..n -> 1..MaxCalls], Send(c, type, numbers),
         \A i, j \in 1..n : numbers[i] = numbers[j] => i = j,
         \A i \in 1..n : Sent(c, type) < numbers[i] /\ numbers[i] <= Sent(c, type)',
         \A ty \in Types : Sent(c, ty) <= Sent(c, ty)' /\ Sent(c, ty)' \in Nat
  PROVE  QueuedOnce(c)' /\ Forward(c)
<1>1. CASE pc[c] = "wait"
  <2>1. queue' = queue
    BY <1>1 DEF Send
  <2>2. QueuedOnce(c)'
    <3> SUFFICES ASSUME NEW i \in DOMAIN queue[c], NEW j \in DOMAIN queue[c]
                 PROVE  /\ queue[c][i].call[1] = c
                        /\ queue[c][i].call[2] <= Sent(c, queue[c][i].type)'
                        /\ queue[c][i].type = queue[c][j].type
                             /\ queue[c][i].call = queue[c][j].call => i = j
      BY <2>1 DEF QueuedOnce, Sent
    <3>1. queue[c][i].type \in Types /\ queue[c][i].call \in Calls
      BY HeldCalls
    <3>2. queue[c][i].call[2] \in Nat
      BY <3>1, AuditAssumption DEF Calls
    <3>3. queue[c][i].call[2] <= Sent(c, queue[c][i].type)
      BY DEF QueuedOnce
    <3>4. \A ty \in Types :
            ty = queue[c][i].type => queue[c][i].call[2] <= Sent(c, ty)'
      <4> SUFFICES ASSUME NEW ty \in Types, ty = queue[c][i].type
                   PROVE  queue[c][i].call[2] <= Sent(c, ty)'
        OBVIOUS
      <4>1. /\ queue[c][i].call[2] <= Sent(c, ty)
            /\ Sent(c, ty) \in Nat /\ Sent(c, ty)' \in Nat /\ Sent(c, ty) <= Sent(c, ty)'
        BY <3>3, Numbers
      <4> QED BY <3>2, <4>1
    <3> QED BY <2>1, <3>1, <3>4 DEF QueuedOnce, Sent
  <2> QED BY <2>1, <2>2 DEF Forward, Queued
<1>2. CASE pc[c] # "wait"
  <2> DEFINE q == queue[c]
             sent == [i \in DOMAIN numbers |-> [type |-> type, call |-> <<c, numbers[i]>>]]
             old == DOMAIN q
             new == {Len(q) + i : i \in 1..n}
  <2>1. q \in Seq(Events) /\ Len(q) \in Nat /\ DOMAIN q = 1..Len(q)
    BY DEF AuditTypeOK
  <2>2. sent \in Seq(Events) /\ Len(sent) = n
    <3>1. \A i \in 1..n : sent[i] \in Events
      BY AuditAssumption DEF Events, Calls, Types
    <3>2. DOMAIN sent = 1..n
      OBVIOUS
    <3> QED BY <3>1, <3>2
  <2>3. queue'[c] = q \o sent
    BY <1>2 DEF Send, AuditTypeOK
  <2>4. /\ DOMAIN queue'[c] = 1..(Len(q) + n)
        /\ \A i \in 1..Len(q) : queue'[c][i] = q[i]
        /\ \A i \in 1..n : queue'[c][Len(q) + i] = sent[i]
    <3> HIDE DEF sent, q, old, new
    <3> SUFFICES /\ DOMAIN (q \o sent) = 1..(Len(q) + n)
                 /\ \A i \in 1..Len(q) : (q \o sent)[i] = q[i]
                 /\ \A i \in 1..n : (q \o sent)[Len(q) + i] = sent[i]
      BY <2>3
    <3>1. n \in Nat
      BY <2>2
    <3>2. DOMAIN (q \o sent) = 1..(Len(q) + n)
      BY <2>1, <2>2, <3>1
    <3>3. \A i \in 1..Len(q) : (q \o sent)[i] = q[i]
      BY <2>1, <2>2
    <3>4. ASSUME NEW i \in 1..n PROVE (q \o sent)[Len(q) + i] = sent[i]
      BY <2>1, <2>2, <3>1
    <3> QED BY <3>2, <3>3, <3>4
  <2>5. \A i \in DOMAIN queue'[c] :
          \/ i \in old /\ queue'[c][i] = q[i]
          \/ /\ i - Len(q) \in 1..n /\ i \notin old
             /\ queue'[c][i].type = type /\ queue'[c][i].call = <<c, numbers[i - Len(q)]>>
    <3> SUFFICES ASSUME NEW i \in DOMAIN queue'[c], i \notin old
                 PROVE  /\ i - Len(q) \in 1..n
                        /\ queue'[c][i].type = type
                        /\ queue'[c][i].call = <<c, numbers[i - Len(q)]>>
      BY <2>1, <2>4
    <3>1. i - Len(q) \in 1..n /\ Len(q) + (i - Len(q)) = i
      BY <2>1, <2>4
    <3>2. queue'[c][i] = sent[i - Len(q)]
      BY <2>4, <3>1
    <3> QED BY <3>1, <3>2
  <2> HIDE DEF old, new, sent, q
  <2>6. \A i \in old : /\ q[i].type \in Types /\ q[i].call \in Calls /\ q[i].call[2] \in Nat
                       /\ q[i].call[2] <= Sent(c, q[i].type)
                       /\ q[i].call[1] = c
    <3>1. \A call \in Calls : call[2] \in Nat
      BY AuditAssumption DEF Calls
    <3> QED BY <3>1, HeldCalls DEF old, q, QueuedOnce
  <2>7. \A i \in old, ty \in Types : Sent(c, ty) \in Nat
    BY Numbers
  <2>8. \A k \in 1..n : numbers[k] \in Nat
    BY AuditAssumption
  <2>9. QueuedOnce(c)'
    <3> SUFFICES ASSUME NEW i \in DOMAIN queue'[c], NEW j \in DOMAIN queue'[c]
                 PROVE  /\ queue'[c][i].call[1] = c
                        /\ queue'[c][i].call[2] <= Sent(c, queue[c][i].type)'
                        /\ queue'[c][i].type = queue'[c][j].type
                             /\ queue'[c][i].call = queue'[c][j].call => i = j
      BY DEF QueuedOnce
    <3>1. queue'[c][i].call[1] = c
      BY <2>5, <2>6
    <3>2. queue'[c][i].call[2] <= Sent(c, queue[c][i].type)'
      <4>1. CASE i \in old /\ queue'[c][i] = q[i]
        <5>1. q[i].call[2] <= Sent(c, q[i].type)
          BY <2>6, <4>1
        <5>2. \A ty \in Types : ty = q[i].type => q[i].call[2] <= Sent(c, ty)'
          BY <2>6, <2>7, <4>1, <5>1
        <5> QED BY <2>6, <4>1, <5>2 DEF Sent
      <4>2. CASE /\ i - Len(q) \in 1..n
                 /\ queue'[c][i].type = type /\ queue'[c][i].call = <<c, numbers[i - Len(q)]>>
        <5>1. numbers[i - Len(q)] <= Sent(c, type)'
          BY <4>2
        <5> QED BY <4>2, <5>1 DEF Sent
      <4> QED BY <2>5, <4>1, <4>2
    <3>3. ASSUME queue'[c][i].type = queue'[c][j].type, queue'[c][i].call = queue'[c][j].call
          PROVE  i = j
      <4>1. CASE i \in old /\ j \in old
        BY <2>5, <3>3, <4>1 DEF QueuedOnce, old, q
      <4>2. CASE i \notin old /\ j \notin old
        <5>1. numbers[i - Len(q)] = numbers[j - Len(q)]
          BY <2>5, <3>3, <4>2
        <5>2. i - Len(q) = j - Len(q)
          BY <2>5, <4>2, <5>1
        <5> QED BY <2>1, <2>4, <5>2 DEF q
      <4>3. CASE i \in old /\ j \notin old
        BY SMTT(30), <2>5, <2>6, <2>7, <2>8, <3>3, <4>3
      <4>4. CASE i \notin old /\ j \in old
        BY SMTT(30), <2>5, <2>6, <2>7, <2>8, <3>3, <4>4
      <4> QED BY <4>1, <4>2, <4>3, <4>4
    <3> QED BY <3>1, <3>2, <3>3
  <2>10. Forward(c)
    <3>1. ASSUME NEW ty \in Types, NEW call \in Calls, Queued(c, ty, call)'
          PROVE  Queued(c, ty, call) \/ call[2] > Sent(c, ty)
      <4>1. PICK i \in DOMAIN queue'[c] : queue'[c][i].type = ty /\ queue'[c][i].call = call
        BY <3>1 DEF Queued
      <4>2. CASE i \in old /\ queue'[c][i] = q[i]
        BY <4>1, <4>2 DEF Queued, old, q
      <4>3. CASE /\ i - Len(q) \in 1..n
                 /\ queue'[c][i].type = type /\ queue'[c][i].call = <<c, numbers[i - Len(q)]>>
        BY <2>8, <4>1, <4>3, Numbers
      <4> QED BY <2>5, <4>2, <4>3
    <3> QED BY <3>1 DEF Forward
  <2> QED BY <2>9, <2>10
<1> QED BY <1>1, <1>2

\* Draining: the event at the head leaves the queue, and it was not stored before.
LEMMA DrainNew ==
  ASSUME OnceInv, NEW c \in Conns, pc[c] = "drain", queue[c] # <<>>, Drained(c),
         loop' = loop,
         NEW e, e = Head(queue[c])
  PROVE  /\ QueuedOnce(c)' /\ Forward(c)
         /\ e.type \in Types /\ e.call \in Calls /\ Passed(c, e.type, e.call)'
         /\ e.type = "action" => ~SkillLogged(e.call)
         /\ e.type = "result" => ~ResultLogged(e.call)
<1> DEFINE q == queue[c]
<1>1. q \in Seq(Events) /\ Len(q) \in Nat /\ Len(q) > 0 /\ DOMAIN q = 1..Len(q) /\ e = q[1]
  BY DEF OnceInv, AuditTypeOK
<1>2. queue'[c] = Tail(q)
  BY DEF Drained, OnceInv, AuditTypeOK
<1>3. /\ DOMAIN queue'[c] = 1..(Len(q) - 1)
      /\ \A i \in 1..(Len(q) - 1) : queue'[c][i] = q[i + 1] /\ i + 1 \in DOMAIN q /\ i + 1 # 1
  <2> HIDE DEF q
  <2> QED BY <1>1, <1>2
<1>4. \A type : Sent(c, type)' = Sent(c, type)
  BY DEF Sent
<1>5. AuditTypeOK /\ QueuedOnce(c) /\ RowsBegun
  BY DEF OnceInv, ConnOnce
<1>6. QueuedOnce(c)'
  <2> SUFFICES ASSUME NEW i \in DOMAIN queue'[c], NEW j \in DOMAIN queue'[c]
               PROVE  /\ queue'[c][i].call[1] = c
                      /\ queue'[c][i].call[2] <= Sent(c, queue[c][i].type)'
                      /\ queue'[c][i].type = queue'[c][j].type
                           /\ queue'[c][i].call = queue'[c][j].call => i = j
    BY DEF QueuedOnce
  <2>1. /\ q[i + 1].call[1] = c /\ q[i + 1].call[2] <= Sent(c, q[i + 1].type)
        /\ q[i + 1].type = q[j + 1].type /\ q[i + 1].call = q[j + 1].call => i + 1 = j + 1
    BY <1>3, <1>5 DEF QueuedOnce
  <2>2. i \in Nat /\ j \in Nat
    BY <1>3
  <2> QED BY <1>3, <2>1, <2>2 DEF Sent
<1>7. \A type, call : Queued(c, type, call)' => Queued(c, type, call)
  BY <1>3 DEF Queued
<1>8. Forward(c)
  BY <1>4, <1>5, <1>7, Numbers DEF Forward
<1>9. /\ e.type \in Types /\ e.call \in Calls
      /\ e.call[1] = c /\ e.call[2] <= Sent(c, e.type)
  <2>1. 1 \in DOMAIN q
    BY <1>1
  <2> QED BY <1>1, <1>5, <2>1, HeldCalls DEF QueuedOnce
<1>10. ~Queued(c, e.type, e.call)'
  <2> SUFFICES ASSUME NEW i \in DOMAIN queue'[c],
                      queue'[c][i].type = e.type, queue'[c][i].call = e.call
               PROVE  FALSE
    BY DEF Queued
  <2>1. 1 \in DOMAIN q /\ q[1] = e
    BY <1>1
  <2>2. i + 1 \in DOMAIN q /\ i + 1 # 1 /\ q[i + 1].type = e.type /\ q[i + 1].call = e.call
    BY <1>3
  <2>3. \A j, k \in DOMAIN q : q[j].type = q[k].type /\ q[j].call = q[k].call => j = k
    BY <1>5 DEF QueuedOnce
  <2> HIDE DEF q
  <2> QED BY <2>1, <2>2, <2>3
<1>11. Queued(c, e.type, e.call)
  BY <1>1 DEF Queued
<1>12. e.type = "action" => ~SkillLogged(e.call)
  BY <1>5, <1>9, <1>11 DEF SkillLogged, RowsBegun, Begun, Passed, LivePCs
<1>13. e.type = "result" => ~ResultLogged(e.call)
  BY <1>5, <1>9, <1>11 DEF ResultLogged, RowsBegun, Begun, Passed, LivePCs
<1> QED BY <1>4, <1>6, <1>8, <1>9, <1>10, <1>12, <1>13 DEF Passed

\* An action takes its place in last_action.
LEMMA DrainActionOnce ==
  ASSUME OnceInv, AuditTypeOK', NEW c \in Conns, DrainAction(c)
  PROVE  ConnOnce(c)' /\ Forward(c)
<1> DEFINE e == Head(queue[c])
<1>1. /\ pc[c] = "drain" /\ queue[c] # <<>> /\ Drained(c) /\ e.type = "action"
      /\ pc' = pc /\ loop' = loop /\ audit' = audit
      /\ last'[c] = e.call
  BY DEF DrainAction, Receives, OnceInv, AuditTypeOK, tables
<1>2. /\ QueuedOnce(c)' /\ Forward(c) /\ ~SkillLogged(e.call)
      /\ \A x : x = e => Passed(c, x.type, x.call)'
  <2> HIDE DEF e
  <2>1. \A x : x = Head(queue[c]) =>
          /\ QueuedOnce(c)' /\ Forward(c) /\ Passed(c, x.type, x.call)'
          /\ x.type = "action" => ~SkillLogged(x.call)
    BY <1>1, DrainNew
  <2> QED BY <1>1, <2>1 DEF e
<1>3. \A x : x = e.call => Passed(c, "action", x)' /\ ~SkillLogged(x)
  BY <1>1, <1>2
<1>4. LastNew(c)'
  BY <1>1, <1>3 DEF LastNew, SkillLogged, Passed, Queued, Sent
<1>5. Accompanied(c)' /\ EntryNew(c)'
  BY <1>1 DEF OnceInv, ConnOnce, Accompanied, EntryNew, LoggingPCs
<1> QED BY <1>2, <1>4, <1>5 DEF ConnOnce

\* A result and last_action become a row in hand; or the result is passed over.
LEMMA DrainResultOnce ==
  ASSUME OnceInv, AuditTypeOK', NEW c \in Conns, DrainResult(c)
  PROVE  ConnOnce(c)' /\ Forward(c) /\ GoesOn(c)
<1> DEFINE e == Head(queue[c])
<1>1. /\ pc[c] = "drain" /\ queue[c] # <<>> /\ Drained(c) /\ e.type = "result"
      /\ loop' = loop /\ audit' = audit
  BY DEF DrainResult, Receives, tables
<1>2. /\ QueuedOnce(c)' /\ Forward(c) /\ ~ResultLogged(e.call)
      /\ \A x : x = e => Passed(c, x.type, x.call)'
  <2> HIDE DEF e
  <2>1. \A x : x = Head(queue[c]) =>
          /\ QueuedOnce(c)' /\ Forward(c) /\ Passed(c, x.type, x.call)'
          /\ x.type = "result" => ~ResultLogged(x.call)
    BY <1>1, DrainNew
  <2> QED BY <1>1, <2>1 DEF e
<1>3. \A x : x = e.call => Passed(c, "result", x)' /\ ~ResultLogged(x)
  BY <1>1, <1>2
<1>4. pc'[c] \in LivePCs
  BY <1>1 DEF DrainResult, Log, Goto, OnceInv, AuditTypeOK, LivePCs, LoggingPCs
<1>5. CASE last[c] = NoCall
  BY <1>1, <1>2, <1>4, <1>5
  DEF DrainResult, ConnOnce, Accompanied, LastNew, EntryNew, GoesOn, LivePCs, LoggingPCs
<1>6. CASE last[c] # NoCall
  <2>1. /\ last'[c] = NoCall
        /\ entry'[c].skill = last[c] /\ entry'[c].result = e.call
    BY <1>6 DEF DrainResult, Log, OnceInv, AuditTypeOK
  <2>2. last[c] \in Calls /\ Passed(c, "action", last[c]) /\ ~SkillLogged(last[c])
    BY <1>6, HeldCalls DEF OnceInv, ConnOnce, LastNew
  <2>3. \A x : x = last[c] => Passed(c, "action", x)' /\ ~SkillLogged(x)
    BY <1>2, <2>2, PassedStays DEF OnceInv, Types
  <2>4. EntryNew(c)'
    BY <1>1, <1>3, <2>1, <2>3 DEF EntryNew, SkillLogged, ResultLogged, Passed, Queued, Sent
  <2> QED
    BY <1>1, <1>2, <1>4, <2>1, <2>4
    DEF ConnOnce, Accompanied, LastNew, GoesOn, LivePCs, LoggingPCs
<1> QED BY <1>5, <1>6

\* Of a batch, each invocation is announced once.
LEMMA ReadyDistinct ==
  ASSUME NEW n \in Nat \ {0}, NEW ready \in Ready(n),
         NEW i \in DOMAIN ready, NEW j \in DOMAIN ready, ready[i] = ready[j]
  PROVE  i = j
<1>1. CASE n = 1
  BY <1>1 DEF Ready
<1>2. CASE n # 1
  <2>1. PICK m \in 0..n : ready \in [1..m -> 1..n]
    BY <1>2 DEF Ready
  <2>2. \A k, l \in 1..m : k < l => ready[k] < ready[l]
    BY <1>2, <2>1 DEF Ready
  <2>3. \A k \in 1..m : ready[k] \in Nat
    BY <2>1
  <2>4. i \in 1..m /\ j \in 1..m
    BY <2>1
  <2>5. ~(i < j) /\ ~(j < i)
    BY <2>2, <2>3, <2>4
  <2> QED BY <2>4, <2>5
<1> QED BY <1>1, <1>2

\* A connection whose loop has sent something holds what it held.
LEMMA SendingKeeps ==
  ASSUME OnceInv, AuditTypeOK', NEW c \in Conns, Forward(c), QueuedOnce(c)',
         loop[c].at # "off", UNCHANGED <<audit, pc, last, entry>>
  PROVE  ConnOnce(c)' /\ GoesOn(c)
<1>1. AuditTypeOK /\ ConnOnce(c)
  BY DEF OnceInv
<1>2. Accompanied(c)' /\ GoesOn(c)
  BY <1>1 DEF ConnOnce, Accompanied, GoesOn
<1>3. \A x : SkillLogged(x)' = SkillLogged(x) /\ ResultLogged(x)' = ResultLogged(x)
  BY DEF SkillLogged, ResultLogged
<1>4. LastNew(c)'
  BY <1>1, <1>3, PassedStays, HeldCalls DEF ConnOnce, LastNew, Types
<1>5. EntryNew(c)'
  <2> SUFFICES ASSUME pc[c] \in LoggingPCs PROVE EntryNew(c)'
    BY DEF EntryNew
  <2>1. \A x : x = entry[c].skill => Passed(c, "action", x)' /\ ~SkillLogged(x)
    BY <1>1, PassedStays, HeldCalls DEF ConnOnce, EntryNew, Types
  <2>2. \A x : x = entry[c].result => Passed(c, "result", x)' /\ ~ResultLogged(x)
    BY <1>1, PassedStays, HeldCalls DEF ConnOnce, EntryNew, Types
  <2> QED BY <1>1, <1>3, <2>1, <2>2 DEF ConnOnce, EntryNew, Passed, Queued, Sent
<1> QED BY <1>2, <1>4, <1>5 DEF ConnOnce

\* A turn's actions get numbers that no action had.
LEMMA ActOnce ==
  ASSUME OnceInv, AuditTypeOK', NEW c \in Conns, Act(c)
  PROVE  ConnOnce(c)' /\ Forward(c) /\ GoesOn(c)
<1>1. AuditTypeOK /\ QueuedOnce(c) /\ loop[c].at # "off" /\ UNCHANGED <<audit, pc, last, entry>>
  BY DEF OnceInv, ConnOnce, Act, tables, locals
<1>2. PICK n \in BatchSizes :
        /\ loop[c].calls + n <= MaxCalls
        /\ loop' = [loop EXCEPT ![c] = [at |-> "run", calls |-> loop[c].calls + n, running |-> n]]
        /\ \E ready \in Ready(n) :
             Send(c, "action", [i \in DOMAIN ready |-> loop[c].calls + ready[i]])
  BY DEF Act
<1>3. PICK ready \in Ready(n) :
        Send(c, "action", [i \in DOMAIN ready |-> loop[c].calls + ready[i]])
  BY <1>2
<1>4. /\ n \in Nat \ {0} /\ loop[c].calls \in Nat /\ loop[c].running \in Nat
      /\ loop[c].running <= loop[c].calls
  BY <1>1, Numbers, AuditAssumption
<1>5. PICK m \in Nat : ready \in [1..m -> 1..n]
  BY <1>4, ReadyOK
<1> DEFINE numbers == [i \in DOMAIN ready |-> loop[c].calls + ready[i]]
<1>6. \A i \in 1..m : ready[i] \in 1..n /\ numbers[i] = loop[c].calls + ready[i]
  BY <1>5
<1>7. numbers \in [1..m -> 1..MaxCalls]
  <2>1. \A i \in 1..m : loop[c].calls + ready[i] \in 1..MaxCalls
    <3>1. \A i \in 1..m : ready[i] \in 1..n
      BY <1>5
    <3> QED BY <1>2, <1>4, <3>1, AuditAssumption
  <2> QED BY <1>5, <2>1
<1>8. \A i, j \in 1..m : numbers[i] = numbers[j] => i = j
  <2> SUFFICES ASSUME NEW i \in 1..m, NEW j \in 1..m, numbers[i] = numbers[j] PROVE i = j
    OBVIOUS
  <2>1. ready[i] = ready[j]
    BY <1>4, <1>6
  <2> QED BY <1>4, <1>5, <2>1, ReadyDistinct
<1>9. /\ loop'[c].calls = loop[c].calls + n /\ loop'[c].running = n
  BY <1>1, <1>2 DEF AuditTypeOK
<1>10. \A i \in 1..m : Sent(c, "action") < numbers[i] /\ numbers[i] <= Sent(c, "action")'
  BY <1>4, <1>6, <1>9 DEF Sent
<1>11. \A type \in Types : Sent(c, type) <= Sent(c, type)' /\ Sent(c, type)' \in Nat
  BY <1>4, <1>9 DEF Sent, Types
<1>12. "action" \in Types
  BY DEF Types
<1> HIDE DEF numbers
<1>13. Send(c, "action", numbers)
  BY <1>3 DEF numbers
<1>14. QueuedOnce(c)' /\ Forward(c)
  BY <1>1, <1>7, <1>8, <1>10, <1>11, <1>12, <1>13, SendNew
<1> QED BY <1>1, <1>14, SendingKeeps

\* Its results get numbers that no result had.
LEMMA ObserveOnce ==
  ASSUME OnceInv, AuditTypeOK', NEW c \in Conns, Observe(c)
  PROVE  ConnOnce(c)' /\ Forward(c) /\ GoesOn(c)
<1>1. /\ AuditTypeOK /\ QueuedOnce(c) /\ loop[c].at # "off" /\ UNCHANGED <<audit, pc, last, entry>>
      /\ loop' = [loop EXCEPT ![c] = [at |-> "turn", calls |-> loop[c].calls, running |-> 0]]
  BY DEF OnceInv, ConnOnce, Observe, tables, locals
<1>2. /\ loop[c].calls \in Nat /\ loop[c].running \in Nat
      /\ loop[c].running <= loop[c].calls /\ loop[c].calls <= MaxCalls
  BY <1>1, Numbers
<1> DEFINE n == loop[c].running
           numbers == [i \in 1..n |-> loop[c].calls - n + i]
<1>3. numbers \in [1..n -> 1..MaxCalls]
  BY <1>2, AuditAssumption
<1>4. \A i, j \in 1..n : numbers[i] = numbers[j] => i = j
  BY <1>2
<1>5. loop'[c].calls = loop[c].calls /\ loop'[c].running = 0
  BY <1>1 DEF AuditTypeOK
<1>6. \A i \in 1..n : Sent(c, "result") < numbers[i] /\ numbers[i] <= Sent(c, "result")'
  BY <1>2, <1>5 DEF Sent
<1>7. \A type \in Types : Sent(c, type) <= Sent(c, type)' /\ Sent(c, type)' \in Nat
  BY <1>2, <1>5 DEF Sent, Types
<1>8. "result" \in Types /\ Send(c, "result", numbers)
  BY DEF Types, Observe
<1> HIDE DEF numbers
<1>9. QueuedOnce(c)' /\ Forward(c)
  BY <1>1, <1>2, <1>3, <1>4, <1>6, <1>7, <1>8, SendNew
<1> QED BY <1>1, <1>9, SendingKeeps

-----------------------------------------------------------------------------
(***************************************************************************)
(* Every step.                                                             *)
(***************************************************************************)

\* A connection that a step does not touch is steady.
LEMMA Untouched ==
  ASSUME NEW d \in Conns, Accompanied(d),
         pc'[d] = pc[d], loop'[d] = loop[d], queue'[d] = queue[d],
         last'[d] = last[d], entry'[d] = entry[d]
  PROVE  Steady(d)
BY DEF Accompanied, Steady, GoesOn

\* Where no row is inserted it is enough to look at each connection.
LEMMA ConnsStep ==
  ASSUME OnceInv, AuditTypeOK', audit' = audit,
         \A c \in Conns : ConnOnce(c)' /\ (Closes(c) \/ (GoesOn(c) /\ Forward(c)))
  PROVE  OnceInv'
<1>1. \A type \in Types, call \in Calls : Begun(type, call) => Begun(type, call)'
  BY BegunStays DEF OnceInv
<1>2. RowsBegun'
  BY <1>1, HeldCalls DEF OnceInv, RowsBegun, Types
<1>3. LoggedOnce'
  BY DEF OnceInv, LoggedOnce
<1> QED BY <1>2, <1>3 DEF OnceInv

\* And of quiet connections nothing is left to show.
LEMMA QuietStep ==
  ASSUME OnceInv, AuditTypeOK', audit' = audit, \A c \in Conns : Quiet(c)
  PROVE  OnceInv'
<1>1. ASSUME NEW c \in Conns
      PROVE  ConnOnce(c)' /\ (Closes(c) \/ (GoesOn(c) /\ Forward(c)))
  <2>1. ConnOnce(c)'
    BY QuietKeeps DEF OnceInv
  <2>2. Steady(c) => GoesOn(c) /\ Forward(c)
    BY SteadyForward DEF OnceInv, Steady
  <2> QED BY <2>1, <2>2 DEF Quiet
<1> QED BY <1>1, ConnsStep

\* The row in hand goes into the table: neither its action nor its result was there.
LEMMA InsertOnce ==
  ASSUME OnceInv, AuditTypeOK', NEW c \in Conns, InsertStep(c)
  PROVE  OnceInv'
<1> DEFINE t0 == task[c]
           r == entry[c]
           n == Len(audit[t0])
<1>1. /\ AuditTypeOK /\ (\A d \in Conns : ConnOnce(d)) /\ RowsBegun /\ LoggedOnce
      /\ pc[c] = "insert" /\ pc[c] \in LoggingPCs
  BY DEF OnceInv, InsertStep, LoggingPCs
<1>2. t0 \in Tasks /\ \A t \in Tasks : audit[t] \in Seq(Rows)
  BY <1>1, EntryOK DEF AuditTypeOK
<1>3. /\ \A t \in Tasks : t # t0 => audit'[t] = audit[t]
      /\ audit'[t0] = Append(audit[t0], r)
  BY <1>1, <1>2 DEF InsertStep, AuditTypeOK
<1>4. /\ n \in Nat /\ DOMAIN audit[t0] = 1..n
      /\ DOMAIN audit'[t0] = 1..(n + 1)
      /\ audit'[t0][n + 1] = r /\ \A i \in 1..n : audit'[t0][i] = audit[t0][i]
  BY <1>2, <1>3
<1>5. \A t \in Tasks : \A i \in DOMAIN audit'[t] :
        \/ i \in DOMAIN audit[t] /\ audit'[t][i] = audit[t][i]
        \/ t = t0 /\ i = n + 1 /\ audit'[t][i] = r
  <2> SUFFICES ASSUME NEW t \in Tasks, NEW i \in DOMAIN audit'[t]
               PROVE  \/ i \in DOMAIN audit[t] /\ audit'[t][i] = audit[t][i]
                      \/ t = t0 /\ i = n + 1 /\ audit'[t][i] = r
    OBVIOUS
  <2>1. CASE t # t0
    BY <1>3, <2>1
  <2>2. CASE t = t0
    BY <1>4, <2>2
  <2> QED BY <2>1, <2>2
<1> HIDE DEF n, r, t0
<1>6. /\ last[c] = NoCall
      /\ Passed(c, "action", r.skill) /\ ~SkillLogged(r.skill) /\ r.skill \in Calls
      /\ Passed(c, "result", r.result) /\ ~ResultLogged(r.result) /\ r.result \in Calls
  BY <1>1, HeldCalls DEF ConnOnce, EntryNew, r
<1>7. /\ pc'[c] = "drain" /\ UNCHANGED <<loop, queue, last>>
      /\ \A d \in Conns : d # c => pc'[d] = pc[d] /\ entry'[d] = entry[d]
  BY <1>1 DEF InsertStep, Goto, AuditTypeOK, sending
<1>8. \A d \in Conns : GoesOn(d) /\ Forward(d)
  <2>1. \A d \in Conns : \A type : Sent(d, type)' = Sent(d, type)
    BY <1>7 DEF Sent
  <2>2. \A d \in Conns : \A type, call : Queued(d, type, call)' = Queued(d, type, call)
    BY <1>7 DEF Queued
  <2>3. \A d \in Conns : Forward(d)
    BY <1>1, <2>1, <2>2, Numbers DEF Forward
  <2>4. \A d \in Conns : GoesOn(d)
    BY <1>1, <1>7 DEF GoesOn, LivePCs
  <2> QED BY <2>3, <2>4
<1>9. /\ \A x : SkillLogged(x)' => SkillLogged(x) \/ x = r.skill
      /\ \A x : ResultLogged(x)' => ResultLogged(x) \/ x = r.result
  BY <1>5 DEF SkillLogged, ResultLogged
<1>10. ASSUME NEW d \in Conns PROVE ConnOnce(d)'
  <2>1. Accompanied(d)' /\ QueuedOnce(d)'
    <3>1. Accompanied(d) /\ QueuedOnce(d)
      BY <1>1 DEF ConnOnce
    <3>2. Accompanied(d)'
      BY <1>7, <3>1 DEF Accompanied, LivePCs, LoggingPCs
    <3>3. QueuedOnce(d)'
      BY <1>7, <3>1 DEF QueuedOnce, Sent
    <3> QED BY <3>2, <3>3
  <2>2. CASE d = c
    BY <1>6, <1>7, <2>1, <2>2 DEF ConnOnce, LastNew, EntryNew, LoggingPCs
  <2>3. CASE d # c
    <3>1. \A x : x[1] = d => x # r.skill /\ x # r.result
      BY <1>6, <2>3 DEF Passed
    <3>2. LastNew(d)'
      <4> SUFFICES ASSUME last[d] # NoCall PROVE LastNew(d)'
        BY <1>7 DEF LastNew
      <4>1. Passed(d, "action", last[d]) /\ ~SkillLogged(last[d])
        BY <1>1 DEF ConnOnce, LastNew
      <4>2. \A x : x = last[d] => ~SkillLogged(x)'
        BY <1>9, <3>1, <4>1 DEF Passed
      <4> QED BY <1>7, <4>1, <4>2 DEF LastNew, Passed, Queued, Sent, SkillLogged
    <3>3. EntryNew(d)'
      <4> SUFFICES ASSUME pc[d] \in LoggingPCs PROVE EntryNew(d)'
        BY <1>7, <2>3 DEF EntryNew
      <4>1. /\ last[d] = NoCall
            /\ Passed(d, "action", entry[d].skill) /\ ~SkillLogged(entry[d].skill)
            /\ Passed(d, "result", entry[d].result) /\ ~ResultLogged(entry[d].result)
        BY <1>1 DEF ConnOnce, EntryNew
      <4>2. /\ \A x : x = entry[d].skill => ~SkillLogged(x)'
            /\ \A x : x = entry[d].result => ~ResultLogged(x)'
        BY <1>9, <3>1, <4>1 DEF Passed
      <4> QED
        BY <1>7, <2>3, <4>1, <4>2 DEF EntryNew, Passed, Queued, Sent, SkillLogged, ResultLogged
    <3> QED BY <2>1, <3>2, <3>3 DEF ConnOnce
  <2> QED BY <2>2, <2>3
<1>11. \A type \in Types, call \in Calls : Begun(type, call) => Begun(type, call)'
  BY <1>1, <1>8, BegunStays
<1>12. \A type \in Types, call \in Calls : Passed(c, type, call) => Begun(type, call)'
  <2> SUFFICES ASSUME NEW type \in Types, NEW call \in Calls, Passed(c, type, call)
               PROVE  Begun(type, call)'
    OBVIOUS
  <2>1. Passed(c, type, call)' /\ call[1] = c
    BY <1>1, <1>8, PassedStays DEF Passed
  <2> QED BY <1>7, <2>1 DEF Begun
<1>13. RowsBegun'
  <2> SUFFICES ASSUME NEW t \in Tasks, NEW i \in DOMAIN audit'[t]
               PROVE  /\ \A x : x = audit'[t][i].skill => Begun("action", x)'
                      /\ \A x : x = audit'[t][i].result => Begun("result", x)'
    BY DEF RowsBegun, Begun, Passed, Queued, Sent
  <2>1. CASE i \in DOMAIN audit[t] /\ audit'[t][i] = audit[t][i]
    BY <1>1, <1>11, <2>1, HeldCalls DEF RowsBegun, Types
  <2>2. CASE audit'[t][i] = r
    BY <1>6, <1>12, <2>2 DEF Types
  <2> QED BY <1>5, <2>1, <2>2
<1>14. LoggedOnce'
  <2> SUFFICES ASSUME NEW s \in Tasks, NEW t \in Tasks,
                      NEW i \in DOMAIN audit'[s], NEW j \in DOMAIN audit'[t],
                      ~(s = t /\ i = j)
               PROVE  /\ audit'[s][i].skill # audit'[t][j].skill
                      /\ audit'[s][i].result # audit'[t][j].result
    BY DEF LoggedOnce
  <2>1. CASE /\ i \in DOMAIN audit[s] /\ audit'[s][i] = audit[s][i]
             /\ j \in DOMAIN audit[t] /\ audit'[t][j] = audit[t][j]
    BY <1>1, <2>1 DEF LoggedOnce
  <2>2. CASE /\ i \in DOMAIN audit[s] /\ audit'[s][i] = audit[s][i]
             /\ audit'[t][j] = r
    BY <1>6, <2>2 DEF SkillLogged, ResultLogged
  <2>3. CASE /\ j \in DOMAIN audit[t] /\ audit'[t][j] = audit[t][j]
             /\ audit'[s][i] = r
    BY <1>6, <2>3 DEF SkillLogged, ResultLogged
  <2> QED BY <1>5, <2>1, <2>2, <2>3
<1> QED BY <1>10, <1>13, <1>14 DEF OnceInv

\* What a loop does but send is quiet, and so is a connection that begins.
LEMMA LoopQuiet ==
  ASSUME OnceInv, NEW c \in Conns, NEW d \in Conns,
         \/ ClearPending(c) \/ Park(c) \/ LoopEnds(c)
         \/ \E t \in Tasks : Start(c, t) \/ Resume(c, t)
  PROVE  Steady(d) /\ audit' = audit
<1> USE DEF tables, bounds, sending, locals, Goto, LoopAt
<1>1. Accompanied(d) /\ AuditTypeOK
  BY DEF OnceInv, ConnOnce
<1>2. loop[c] \in LoopRecords
  BY <1>1 DEF AuditTypeOK, Loops
<1>3. CASE ClearPending(c)
  BY <1>1, <1>2, <1>3
  DEF ClearPending, Steady, GoesOn, Accompanied, AuditTypeOK, LoopRecords
<1>4. CASE Park(c)
  <2>1. /\ loop'[c].at # "off" => loop[c].at # "off"
        /\ loop'[c].calls = loop[c].calls /\ loop'[c].running = loop[c].running
    BY <1>1, <1>2, <1>4 DEF Park, AuditTypeOK, LoopRecords
  <2>2. d # c => loop'[d] = loop[d]
    BY <1>1, <1>4 DEF Park, AuditTypeOK
  <2> QED BY <1>1, <1>4, <2>1, <2>2 DEF Park, Steady, GoesOn, Accompanied
<1>5. CASE LoopEnds(c)
  BY <1>1, <1>2, <1>5 DEF LoopEnds, Steady, GoesOn, Accompanied, AuditTypeOK, LoopRecords
<1>6. ASSUME NEW t \in Tasks, Start(c, t) PROVE Steady(d) /\ audit' = audit
  BY <1>1, <1>2, <1>6
  DEF Start, Enter, Steady, GoesOn, Accompanied, AuditTypeOK, LoopRecords, LivePCs, LoggingPCs
<1>7. ASSUME NEW t \in Tasks, Resume(c, t) PROVE Steady(d) /\ audit' = audit
  BY <1>1, <1>2, <1>7
  DEF Resume, Enter, Steady, GoesOn, Accompanied, AuditTypeOK, LoopRecords, LivePCs, LoggingPCs
<1> QED BY <1>3, <1>4, <1>5, <1>6, <1>7

\* Signing and linking change the row in hand, not what it is of.
LEMMA SignQuiet ==
  ASSUME OnceInv, NEW c \in Conns, NEW d \in Conns,
         Peek(c) \/ Sign(c) \/ LogStep(c) \/ LinkStep(c) \/ ClientLeaves(c)
  PROVE  Steady(d) /\ audit' = audit
<1> USE DEF tables, bounds, sending, locals, Goto, LivePCs, LoggingPCs
<1>1. Accompanied(d) /\ AuditTypeOK /\ pc \in [Conns -> LivePCs \cup {"idle", "closed"}]
  BY DEF OnceInv, ConnOnce, AuditTypeOK
<1>2. pc[c] \in LoggingPCs => entry[c] \in Rows
  BY <1>1 DEF AuditTypeOK
<1>3. CASE Peek(c)
  BY <1>1, <1>2, <1>3 DEF Peek, Steady, GoesOn, Accompanied, AuditTypeOK, Rows
<1>4. CASE Sign(c)
  BY <1>1, <1>2, <1>4 DEF Sign, Steady, GoesOn, Accompanied, AuditTypeOK
<1>5. CASE LogStep(c)
  BY <1>1, <1>2, <1>5 DEF LogStep, Steady, GoesOn, Accompanied, AuditTypeOK, Rows
<1>6. CASE LinkStep(c)
  BY <1>1, <1>2, <1>6 DEF LinkStep, LinkTo, Steady, GoesOn, Accompanied, AuditTypeOK, Rows
<1>7. CASE ClientLeaves(c)
  BY <1>1, <1>7 DEF ClientLeaves, Steady, GoesOn, Accompanied, AuditTypeOK
<1> QED BY <1>3, <1>4, <1>5, <1>6, <1>7

\* The end of a task closes the connection, or changes nothing it holds of the log.
LEMMA SealQuiet ==
  ASSUME OnceInv, NEW c \in Conns, NEW d \in Conns,
         EndTask(c) \/ SealHash(c) \/ SealRow(c) \/ AnchorHash(c) \/ Publish(c)
  PROVE  Quiet(d) /\ audit' = audit
<1> USE DEF tables, bounds, sending, locals, Goto, LivePCs, LoggingPCs
<1>1. Accompanied(d) /\ AuditTypeOK
  BY DEF OnceInv, ConnOnce
<1>2. Close({c}) => Quiet(d)
  <2>1. CASE d = c
    BY <2>1 DEF Close, Quiet, Closes
  <2>2. CASE d # c
    BY <1>1, <2>2 DEF Close, Quiet, Steady, GoesOn, Accompanied
  <2> QED BY <2>1, <2>2
<1>3. CASE EndTask(c)
  BY <1>1, <1>2, <1>3 DEF EndTask, Finished, Quiet, Steady, GoesOn, Accompanied, AuditTypeOK
<1>4. CASE SealHash(c)
  BY <1>1, <1>4 DEF SealHash, Quiet, Steady, GoesOn, Accompanied, AuditTypeOK
<1>5. CASE SealRow(c)
  BY <1>1, <1>2, <1>5 DEF SealRow, WriteSeal, Quiet, Steady, GoesOn, Accompanied, AuditTypeOK
<1>6. CASE AnchorHash(c)
  BY <1>1, <1>2, <1>6 DEF AnchorHash, Quiet, Steady, GoesOn, Accompanied, AuditTypeOK
<1>7. CASE Publish(c)
  BY <1>2, <1>7 DEF Publish
<1> QED BY <1>3, <1>4, <1>5, <1>6, <1>7

\* A second passes, or the daemon dies, or nothing happens.
LEMMA WorldQuiet ==
  ASSUME OnceInv, NEW d \in Conns, Tick \/ Crash \/ UNCHANGED vars
  PROVE  Quiet(d)
<1> USE DEF tables, bounds, sending, locals
<1>1. Accompanied(d) /\ AuditTypeOK
  BY DEF OnceInv, ConnOnce
<1>2. CASE Tick \/ UNCHANGED vars
  BY <1>1, <1>2, Untouched DEF Tick, vars, Quiet
<1>3. CASE Crash
  <2>1. CASE Live(d)
    BY <1>3, <2>1 DEF Crash, Close, Quiet, Closes
  <2>2. CASE ~Live(d)
    BY <1>1, <1>3, <2>2, Untouched DEF Crash, Close, Quiet
  <2> QED BY <2>1, <2>2
<1> QED BY <1>2, <1>3

\* A step that sends or drains concerns its own connection only.
LEMMA MovingStep ==
  ASSUME OnceInv, AuditTypeOK', NEW c \in Conns,
         Act(c) \/ Observe(c) \/ DrainAction(c) \/ DrainResult(c)
  PROVE  OnceInv'
<1> USE DEF tables, bounds, sending, locals
<1>1. AuditTypeOK /\ \A d \in Conns : Accompanied(d) /\ ConnOnce(d)
  BY DEF OnceInv, ConnOnce
<1>2. ConnOnce(c)' /\ Forward(c) /\ GoesOn(c)
  BY ActOnce, ObserveOnce, DrainActionOnce, DrainResultOnce DEF DrainAction, GoesOn
<1>3. audit' = audit
  BY DEF Act, Observe, DrainAction, DrainResult
<1>4. ASSUME NEW d \in Conns, d # c PROVE Steady(d)
  <2>1. /\ pc'[d] = pc[d] /\ loop'[d] = loop[d] /\ queue'[d] = queue[d]
        /\ last'[d] = last[d] /\ entry'[d] = entry[d]
    <3>1. CASE Act(c)
      BY <1>1, <1>4, <3>1 DEF Act, Send, AuditTypeOK
    <3>2. CASE Observe(c)
      BY <1>1, <1>4, <3>2 DEF Observe, Send, AuditTypeOK
    <3>3. CASE DrainAction(c)
      BY <1>1, <1>4, <3>3 DEF DrainAction, Drained, AuditTypeOK
    <3>4. CASE DrainResult(c)
      BY <1>1, <1>4, <3>4 DEF DrainResult, Drained, Log, Goto, AuditTypeOK
    <3> QED BY <3>1, <3>2, <3>3, <3>4
  <2> QED BY <1>1, <2>1, Untouched
<1>5. ASSUME NEW d \in Conns, d # c PROVE ConnOnce(d)' /\ GoesOn(d) /\ Forward(d)
  BY <1>1, <1>3, <1>4, <1>5, QuietKeeps, SteadyForward DEF Quiet, Steady
<1> QED BY <1>2, <1>3, <1>5, ConnsStep

\* OnceInv is inductive.
LEMMA OnceInvStep == OnceInv /\ [Next]_vars => OnceInv'
<1> SUFFICES ASSUME OnceInv, [Next]_vars PROVE OnceInv'
  OBVIOUS
<1>1. AuditTypeOK'
  BY TypeStep DEF OnceInv
<1>2. ASSUME NEW c \in Conns, Loop(c) PROVE OnceInv'
  BY <1>1, <1>2, LoopQuiet, QuietStep, MovingStep DEF Loop, Quiet
<1>3. ASSUME NEW c \in Conns, Handler(c) PROVE OnceInv'
  BY <1>1, <1>3, SignQuiet, SealQuiet, QuietStep, MovingStep, InsertOnce DEF Handler, Quiet
<1>4. ASSUME NEW c \in Conns, NEW t \in Tasks, Start(c, t) \/ Resume(c, t) PROVE OnceInv'
  BY <1>1, <1>4, LoopQuiet, QuietStep DEF Quiet
<1>5. CASE Tick \/ Crash \/ UNCHANGED vars
  <2>1. audit' = audit
    BY <1>5 DEF Tick, Crash, vars, tables
  <2> QED BY <1>1, <1>5, <2>1, WorldQuiet, QuietStep
<1> QED BY <1>2, <1>3, <1>4, <1>5 DEF Next

\* Nobody has begun, and nothing is queued or stored.
LEMMA OnceInvInit == Init => OnceInv
<1> SUFFICES ASSUME Init PROVE OnceInv
  OBVIOUS
<1>1. ASSUME NEW c \in Conns PROVE ConnOnce(c)
  BY DEF Init, ConnOnce, Accompanied, QueuedOnce, LastNew, EntryNew, NoLoop, LoggingPCs
<1>2. RowsBegun /\ LoggedOnce
  BY DEF Init, RowsBegun, LoggedOnce
<1> QED BY <1>1, <1>2, TypeInit DEF OnceInv

\* However handlers overlap, drop their queues, fail to sign or crash, of a connection's
\* actions each is logged at most once, and of its results.
THEOREM NothingLoggedTwice == Spec => []LoggedOnce
<1>1. OnceInv => LoggedOnce
  BY DEF OnceInv
<1> QED BY <1>1, OnceInvInit, OnceInvStep, PTL DEF Spec

-----------------------------------------------------------------------------
(***************************************************************************)
(* What holds of an orderly task, one that no two connections share and    *)
(* whose loop is read to its end, whatever happens to the other tasks:     *)
(* its seal and its anchors speak of the whole log, it implements TaskLog, *)
(* and verify_task_chain accepts it but for a second that passed.          *)
(*                                                                         *)
(* Three invariants, each on top of the one before: OnceInv; WholeInv, for *)
(* the handler that is alone with the task and the hash it read last; and  *)
(* LinkedInv, for the row it is about to sign.                             *)
(***************************************************************************)

\* The last hash of a log whose rows have their numbers in order.
LastHash(t) == IF audit[t] = <<>> THEN Genesis ELSE audit[t][Len(audit[t])].result

\* c works on t, and if it is alone in that, the log of t is its own.
Attends(c, t) == pc[c] \in LivePCs /\ task[c] = t

Alone(t) == \A c, d \in Conns : Attends(c, t) /\ Attends(d, t) => c = d

\* Rows have the numbers of their places, also the one that is about to be inserted.
Numbered(t) ==
  /\ \A i \in DOMAIN audit[t] : audit[t][i].stamp.step = i
  /\ \A c \in Conns : Attends(c, t) /\ pc[c] \in {"link", "insert"} =>
       entry[c].stamp.step = Len(audit[t]) + 1

\* What a handler has read to seal or to anchor is still the last hash.
ReadLast(t) ==
  \A c \in Conns : Attends(c, t) /\ pc[c] \in {"write", "publish"} => final[c] = LastHash(t)

\* A sealed task is attended at most by the handler that sealed it, to anchor it.
DoneAttended(t) ==
  \A c \in Conns : Attends(c, t) =>
    /\ status[t] # "none"
    /\ status[t] = "done" <=> pc[c] \in {"anchor", "publish"}

SealedWhole(t) ==
  seal[t] = IF status[t] = "done" THEN [final |-> LastHash(t), count |-> Len(audit[t])]
            ELSE NoSeal

AnchoredWhole(t) ==
  \A c \in Conns : anchors[c] # NoAnchor /\ anchors[c].task = t =>
    /\ status[t] = "done"
    /\ anchors[c] = [task |-> t, final |-> LastHash(t), count |-> Len(audit[t])]

Whole(t) ==
  /\ Alone(t) /\ Numbered(t) /\ ReadLast(t) /\ DoneAttended(t)
  /\ SealedWhole(t) /\ AnchoredWhole(t)

\* A handler seals when its loop is over, so that the loop parks and clears nothing then.
Through == \A c \in Conns : pc[c] \in {"seal", "write", "anchor", "publish"} => loop[c].at = "over"

\* What the seal of an orderly task covers.
WholeInv == OnceInv /\ Through /\ \A t \in Orderly : Whole(t)

\* With the numbers in order there is one greatest step, the last row's.
LEMMA LastHashOnly ==
  ASSUME AuditTypeOK, NEW t \in Tasks, Numbered(t)
  PROVE  LastHashes(t) = {LastHash(t)}
<1>1. audit[t] \in Seq(Rows) /\ Len(audit[t]) \in Nat /\ DOMAIN audit[t] = 1..Len(audit[t])
  BY DEF AuditTypeOK
<1>2. CASE audit[t] = <<>>
  BY <1>2 DEF LastHashes, LastHash
<1>3. CASE audit[t] # <<>>
  <2> DEFINE n == Len(audit[t])
             top == {i \in DOMAIN audit[t] :
                       \A j \in DOMAIN audit[t] : audit[t][j].stamp.step <= audit[t][i].stamp.step}
  <2>1. n \in DOMAIN audit[t]
    BY <1>1, <1>3
  <2>2. \A i \in DOMAIN audit[t] : audit[t][i].stamp.step = i
    BY DEF Numbered
  <2>3. top = {n}
    BY <1>1, <2>1, <2>2
  <2> HIDE DEF top, n
  <2>4. LastHashes(t) = {audit[t][i].result : i \in top}
    BY <1>3 DEF LastHashes, top
  <2> QED BY <1>3, <2>3, <2>4 DEF LastHash, n
<1> QED BY <1>2, <1>3

\* What a step may do around a task whose log it leaves alone.
Keeps(t) ==
  /\ audit'[t] = audit[t] /\ seal'[t] = seal[t]
  /\ status'[t] = "done" <=> status[t] = "done"
  /\ \A c \in Conns : Attends(c, t)' =>
       /\ Attends(c, t) /\ status'[t] # "none"
       /\ pc'[c] \in {"link", "insert"} => entry'[c].stamp.step = Len(audit[t]) + 1
       /\ pc'[c] \in {"write", "publish"} => final'[c] = LastHash(t)
       /\ pc'[c] \in {"anchor", "publish"} <=> pc[c] \in {"anchor", "publish"}
  /\ \A c \in Conns : anchors'[c] # NoAnchor /\ anchors'[c].task = t =>
       \/ anchors'[c] = anchors[c]
       \/ /\ status[t] = "done"
          /\ anchors'[c] = [task |-> t, final |-> LastHash(t), count |-> Len(audit[t])]

\* A step that keeps the log of t, and moves its handlers only as above, keeps it whole.
LEMMA KeepsWhole ==
  ASSUME NEW t \in Orderly, Whole(t), Keeps(t)
  PROVE  Whole(t)'
<1>1. audit'[t] = audit[t] /\ LastHash(t)' = LastHash(t)
  BY DEF Keeps, LastHash
<1>2. \A c \in Conns : Attends(c, t)' => Attends(c, t)
  BY DEF Keeps
<1>3. Alone(t)'
  BY <1>2 DEF Whole, Alone
<1>4. Numbered(t)'
  BY <1>1 DEF Whole, Numbered, Keeps
<1>5. ReadLast(t)'
  BY <1>1 DEF Keeps, ReadLast
<1>6. DoneAttended(t)'
  BY DEF Whole, DoneAttended, Keeps
<1>7. SealedWhole(t)'
  BY <1>1 DEF Whole, SealedWhole, Keeps
<1>8. AnchoredWhole(t)'
  BY <1>1 DEF Whole, AnchoredWhole, Keeps
<1> QED BY <1>3, <1>4, <1>5, <1>6, <1>7, <1>8 DEF Whole

\* A step of one connection leaves what the others have.
OthersStay(c) ==
  \A d \in Conns : d # c =>
    /\ pc'[d] = pc[d] /\ task'[d] = task[d] /\ entry'[d] = entry[d] /\ final'[d] = final[d]
    /\ anchors'[d] = anchors[d]

\* Of a task of others a step of c keeps everything.
LEMMA OthersKeep ==
  ASSUME NEW t \in Orderly, Whole(t), NEW c \in Conns, OthersStay(c),
         audit'[t] = audit[t], seal'[t] = seal[t], status'[t] = status[t],
         ~Attends(c, t)',
         anchors'[c] # NoAnchor /\ anchors'[c].task = t => anchors'[c] = anchors[c]
  PROVE  Whole(t)'
<1>1. ASSUME NEW d \in Conns, Attends(d, t)' PROVE d # c /\ Attends(d, t)
  BY <1>1 DEF OthersStay, Attends
<1>2. Keeps(t)
  BY <1>1 DEF Keeps, OthersStay, Whole, Numbered, ReadLast, DoneAttended
<1> QED BY <1>2, KeepsWhole

\* Of c's own task it is enough to look at c, who attends it alone.
LEMMA OwnKeep ==
  ASSUME NEW t \in Orderly, Whole(t), NEW c \in Conns, OthersStay(c), Attends(c, t),
         audit'[t] = audit[t], seal'[t] = seal[t],
         status'[t] # "none", status'[t] = "done" <=> status[t] = "done",
         Attends(c, t)' =>
           /\ pc'[c] \in {"link", "insert"} => entry'[c].stamp.step = Len(audit[t]) + 1
           /\ pc'[c] \in {"write", "publish"} => final'[c] = LastHash(t)
           /\ pc'[c] \in {"anchor", "publish"} <=> pc[c] \in {"anchor", "publish"},
         anchors'[c] # NoAnchor /\ anchors'[c].task = t =>
           \/ anchors'[c] = anchors[c]
           \/ /\ status[t] = "done"
              /\ anchors'[c] = [task |-> t, final |-> LastHash(t), count |-> Len(audit[t])]
  PROVE  Whole(t)'
<1>1. ASSUME NEW d \in Conns, Attends(d, t)' PROVE d = c
  BY <1>1 DEF OthersStay, Attends, Whole, Alone
<1>2. Keeps(t)
  BY <1>1 DEF Keeps, OthersStay
<1> QED BY <1>2, KeepsWhole

\* A loop parks and clears while its handler does not seal, and so before the task is done.
LEMMA LoopWhole ==
  ASSUME WholeInv, NEW c \in Conns, Loop(c), NEW t \in Orderly
  PROVE  Whole(t)'
<1> USE DEF tables, bounds, sending, locals
<1>1. /\ AuditTypeOK /\ Accompanied(c) /\ Whole(t) /\ t \in Tasks
      /\ pc[c] \in {"seal", "write", "anchor", "publish"} => loop[c].at = "over"
  BY AuditAssumption DEF WholeInv, OnceInv, ConnOnce, Through
<1>2. /\ audit' = audit /\ seal' = seal /\ pc' = pc /\ task' = task /\ entry' = entry
      /\ final' = final /\ anchors' = anchors
      /\ loop[c].at \in {"resume", "turn", "run"}
  BY DEF Loop, ClearPending, Act, Observe, Park, LoopEnds
<1>3. pc[c] \in LivePCs /\ pc[c] \notin {"seal", "write", "anchor", "publish"}
  BY <1>1, <1>2 DEF Accompanied
<1>4. \/ status' = status
      \/ \E place \in {"running", "awaiting_confirmation"} :
           status' = [status EXCEPT ![task[c]] = place]
  BY DEF Loop, ClearPending, Act, Observe, Park, LoopEnds
<1>5. OthersStay(c)
  BY <1>2 DEF OthersStay
<1>6. CASE task[c] = t
  <2>1. Attends(c, t) /\ status[t] # "done" /\ status[t] # "none"
    BY <1>1, <1>3, <1>6 DEF Attends, Whole, DoneAttended
  <2>2. status'[t] # "done" /\ status'[t] # "none"
    BY <1>1, <1>4, <2>1 DEF AuditTypeOK
  <2>3. pc[c] \in {"link", "insert"} => entry[c].stamp.step = Len(audit[t]) + 1
    BY <1>1, <2>1 DEF Whole, Numbered
  <2> QED BY <1>1, <1>2, <1>3, <1>5, <2>1, <2>2, <2>3, OwnKeep
<1>7. CASE task[c] # t
  <2>1. status'[t] = status[t]
    BY <1>1, <1>4, <1>7 DEF AuditTypeOK
  <2>2. ~Attends(c, t)'
    BY <1>2, <1>7 DEF Attends
  <2> QED BY <1>1, <1>2, <1>5, <2>1, <2>2, OthersKeep
<1> QED BY <1>6, <1>7

\* A new connection is alone on an orderly task, and drains.
LEMMA EnterWhole ==
  ASSUME WholeInv, NEW c \in Conns, NEW u \in Tasks, Start(c, u) \/ Resume(c, u),
         NEW t \in Orderly
  PROVE  Whole(t)'
<1> USE DEF tables, bounds, sending, locals
<1>1. AuditTypeOK /\ Whole(t) /\ t \in Tasks
  BY AuditAssumption DEF WholeInv, OnceInv
<1>2. /\ audit' = audit /\ seal' = seal /\ anchors' = anchors
      /\ pc[c] = "idle" /\ pc'[c] = "drain" /\ task'[c] = u
      /\ \A d \in Conns : d # c => pc'[d] = pc[d] /\ task'[d] = task[d]
      /\ entry' = entry /\ final' = final
  BY <1>1 DEF Start, Resume, Enter, Goto, AuditTypeOK
<1>3. \/ status[u] = "none" /\ status' = [status EXCEPT ![u] = "running"]
      \/ status[u] = "awaiting_confirmation" /\ status' = status
  BY DEF Start, Resume
<1>4. OthersStay(c)
  BY <1>2 DEF OthersStay
<1>5. CASE u # t
  <2>1. status'[t] = status[t] /\ ~Attends(c, t)'
    BY <1>1, <1>2, <1>3, <1>5 DEF Attends, AuditTypeOK
  <2> QED BY <1>1, <1>2, <1>4, <2>1, OthersKeep
<1>6. CASE u = t
  <2>1. \A d \in Conns : ~Attends(d, t)
    <3>1. CASE Start(c, u)
      BY <1>1, <1>6, <3>1 DEF Start, Whole, DoneAttended
    <3>2. CASE Resume(c, u)
      BY <1>6, <3>2 DEF Resume, Unshared, Live, Attends
    <3> QED BY <3>1, <3>2
  <2>2. \A d \in Conns : Attends(d, t)' => d = c
    BY <1>2, <2>1 DEF Attends
  <2>3. /\ status[t] # "done" /\ status'[t] # "done" /\ status'[t] # "none"
    BY <1>1, <1>3, <1>6 DEF AuditTypeOK
  <2>4. audit'[t] = audit[t] /\ LastHash(t)' = LastHash(t)
    BY <1>2 DEF LastHash
  <2>5. Alone(t)' /\ Numbered(t)' /\ ReadLast(t)'
    BY <1>1, <1>2, <2>2, <2>4 DEF Whole, Alone, Numbered, ReadLast
  <2>6. DoneAttended(t)'
    BY <1>2, <2>2, <2>3 DEF DoneAttended
  <2>7. SealedWhole(t)' /\ AnchoredWhole(t)'
    BY <1>1, <1>2, <2>3, <2>4 DEF Whole, SealedWhole, AnchoredWhole
  <2> QED BY <2>5, <2>6, <2>7 DEF Whole
<1> QED BY <1>5, <1>6

\* A handler that changes no table: what it reads is of the whole log.
LEMMA ReadWhole ==
  ASSUME WholeInv, NEW c \in Conns, NEW t \in Orderly,
         \/ DrainAction(c) \/ DrainResult(c) \/ Peek(c) \/ Sign(c) \/ LogStep(c) \/ LinkStep(c)
         \/ ClientLeaves(c) \/ EndTask(c) \/ SealHash(c) \/ AnchorHash(c) \/ Publish(c)
  PROVE  Whole(t)'
<1> USE DEF tables, bounds, sending, locals, LivePCs, LoggingPCs
<1>1. AuditTypeOK /\ Whole(t) /\ t \in Tasks
  BY AuditAssumption DEF WholeInv, OnceInv
<1>2. audit' = audit /\ seal' = seal /\ status' = status
  BY DEF DrainAction, DrainResult, Peek, Sign, LogStep, LinkStep, ClientLeaves, EndTask,
         SealHash, AnchorHash, Publish
<1>3. OthersStay(c) /\ (task'[c] = task[c] \/ pc'[c] = "closed") /\ pc[c] \in LivePCs
  <2>1. CASE DrainAction(c) \/ DrainResult(c)
    BY <1>1, <2>1 DEF DrainAction, DrainResult, Receives, Log, Goto, OthersStay, AuditTypeOK
  <2>2. CASE Peek(c) \/ Sign(c) \/ LogStep(c)
    BY <1>1, <2>2 DEF Peek, Sign, LogStep, Goto, OthersStay, AuditTypeOK
  <2>3. CASE LinkStep(c) \/ ClientLeaves(c) \/ SealHash(c)
    BY <1>1, <2>3 DEF LinkStep, LinkTo, ClientLeaves, SealHash, Goto, OthersStay, AuditTypeOK
  <2>4. CASE EndTask(c)
    BY <1>1, <2>4 DEF EndTask, Finished, Goto, Close, OthersStay, AuditTypeOK
  <2>5. CASE AnchorHash(c)
    BY <1>1, <2>5 DEF AnchorHash, Goto, Close, OthersStay, AuditTypeOK
  <2>6. CASE Publish(c)
    BY <1>1, <2>6 DEF Publish, Close, OthersStay, AuditTypeOK
  <2> QED BY <2>1, <2>2, <2>3, <2>4, <2>5, <2>6
<1>4. CASE task[c] # t
  <2>1. ~Attends(c, t)'
    BY <1>3, <1>4 DEF Attends
  <2>2. anchors'[c] # NoAnchor /\ anchors'[c].task = t => anchors'[c] = anchors[c]
    BY <1>1, <1>4
    DEF DrainAction, DrainResult, Peek, Sign, LogStep, LinkStep, ClientLeaves, EndTask,
        SealHash, AnchorHash, Publish, AuditTypeOK
  <2> QED BY <1>1, <1>2, <1>3, <2>1, <2>2, OthersKeep
<1>5. CASE task[c] = t
  <2>1. Attends(c, t) /\ status[t] # "none"
    BY <1>1, <1>3, <1>5 DEF Attends, Whole, DoneAttended
  <2>2. LastHashes(t) = {LastHash(t)}
    BY <1>1, LastHashOnly DEF Whole
  <2>3. Attends(c, t)' => (pc'[c] \in {"anchor", "publish"} <=> pc[c] \in {"anchor", "publish"})
    BY <1>1
    DEF DrainAction, DrainResult, Receives, Log, Peek, Sign, LogStep, LinkStep, ClientLeaves,
        EndTask, Finished, SealHash, AnchorHash, Publish, Close, Goto, AuditTypeOK, Attends
  <2>4. pc'[c] \in {"link", "insert"} => entry'[c].stamp.step = Len(audit[t]) + 1
    <3> SUFFICES ASSUME pc'[c] \in {"link", "insert"}
                 PROVE  entry'[c].stamp.step = Len(audit[t]) + 1
      OBVIOUS
    <3>1. LogStep(c) \/ LinkStep(c)
      BY <1>1
      DEF DrainAction, DrainResult, Receives, Log, Peek, Sign, ClientLeaves,
          EndTask, Finished, SealHash, AnchorHash, Publish, Close, Goto, AuditTypeOK
    <3>2. entry[c] \in Rows /\ entry[c].stamp \in Stamps
      BY <1>1, <3>1, EntryOK DEF LogStep, LinkStep
    <3>3. CASE LogStep(c)
      BY <1>1, <1>5, <3>2, <3>3 DEF LogStep, NextStep, AuditTypeOK, Rows
    <3>4. CASE LinkStep(c)
      <4>1. entry[c].stamp.step = Len(audit[t]) + 1
        BY <1>1, <2>1, <3>4 DEF LinkStep, Whole, Numbered
      <4>2. PICK h : LinkTo(c, h)
        BY <3>4 DEF LinkStep
      <4>3. entry'[c] = [entry[c] EXCEPT !.stamp = [entry[c].stamp EXCEPT !.prev = h]]
        BY <1>1, <4>2 DEF LinkTo, AuditTypeOK
      <4> QED BY <3>2, <4>1, <4>3 DEF Stamps, Rows
    <3> QED BY <3>1, <3>3, <3>4
  <2>5. pc'[c] \in {"write", "publish"} => final'[c] = LastHash(t)
    <3> SUFFICES ASSUME pc'[c] \in {"write", "publish"} PROVE final'[c] = LastHash(t)
      OBVIOUS
    <3>1. SealHash(c) \/ AnchorHash(c)
      BY <1>1
      DEF DrainAction, DrainResult, Receives, Log, Peek, Sign, LogStep, LinkStep, ClientLeaves,
          EndTask, Finished, Publish, Close, Goto, AuditTypeOK
    <3>2. final'[c] \in LastHashes(t)
      BY <1>1, <1>5, <3>1 DEF SealHash, AnchorHash, Close, AuditTypeOK
    <3> QED BY <2>2, <3>2
  <2>6. anchors'[c] # NoAnchor /\ anchors'[c].task = t =>
          \/ anchors'[c] = anchors[c]
          \/ /\ status[t] = "done"
             /\ anchors'[c] = [task |-> t, final |-> LastHash(t), count |-> Len(audit[t])]
    <3>1. CASE Publish(c)
      <4>1. status[t] = "done" /\ final[c] = LastHash(t)
        BY <1>1, <2>1, <3>1 DEF Publish, Whole, DoneAttended, ReadLast
      <4> QED BY <1>1, <1>5, <3>1, <4>1 DEF Publish, AuditTypeOK
    <3>2. CASE ~Publish(c)
      BY <3>2
      DEF DrainAction, DrainResult, Peek, Sign, LogStep, LinkStep, ClientLeaves, EndTask,
          SealHash, AnchorHash
    <3> QED BY <3>1, <3>2
  <2> QED BY <1>1, <1>2, <1>3, <2>1, <2>3, <2>4, <2>5, <2>6, OwnKeep
<1> QED BY <1>4, <1>5

\* The row that is inserted is the next one, and nobody has read a last hash before it.
LEMMA InsertWhole ==
  ASSUME WholeInv, NEW c \in Conns, InsertStep(c), NEW t \in Orderly
  PROVE  Whole(t)'
<1> USE DEF tables, bounds, sending, locals
<1>1. AuditTypeOK /\ Whole(t) /\ t \in Tasks
  BY AuditAssumption DEF WholeInv, OnceInv
<1>2. /\ pc[c] = "insert" /\ pc[c] \in LivePCs /\ pc'[c] = "drain" /\ OthersStay(c)
      /\ task' = task /\ final' = final /\ anchors' = anchors /\ status' = status /\ seal' = seal
  BY <1>1 DEF InsertStep, Goto, OthersStay, AuditTypeOK, LivePCs, LoggingPCs
<1>3. CASE task[c] # t
  <2>1. audit'[t] = audit[t] /\ ~Attends(c, t)'
    BY <1>1, <1>2, <1>3 DEF InsertStep, AuditTypeOK, Attends
  <2> QED BY <1>1, <1>2, <2>1, OthersKeep
<1>4. CASE task[c] = t
  <2>1. Attends(c, t) /\ status[t] # "none" /\ status[t] # "done"
    BY <1>1, <1>2, <1>4 DEF Attends, Whole, DoneAttended
  <2>2. entry[c].stamp.step = Len(audit[t]) + 1
    BY <1>1, <1>2, <2>1 DEF Whole, Numbered
  <2>3. /\ audit[t] \in Seq(Rows) /\ DOMAIN audit[t] = 1..Len(audit[t]) /\ Len(audit[t]) \in Nat
        /\ audit'[t] = Append(audit[t], entry[c])
    BY <1>1, <1>4 DEF InsertStep, AuditTypeOK
  <2>4. /\ DOMAIN audit'[t] = 1..(Len(audit[t]) + 1)
        /\ audit'[t][Len(audit[t]) + 1] = entry[c]
        /\ \A i \in 1..Len(audit[t]) : audit'[t][i] = audit[t][i]
    BY <2>3
  <2>5. \A d \in Conns : Attends(d, t)' => d = c
    BY <1>1, <1>2, <2>1 DEF OthersStay, Attends, Whole, Alone
  <2>6. Alone(t)' /\ ReadLast(t)'
    BY <1>2, <2>5 DEF Alone, ReadLast
  <2>7. Numbered(t)'
    <3>1. \A i \in DOMAIN audit[t] : audit[t][i].stamp.step = i
      BY <1>1 DEF Whole, Numbered
    <3>2. \A i \in DOMAIN audit'[t] : audit'[t][i].stamp.step = i
      BY <2>2, <2>3, <2>4, <3>1
    <3> QED BY <1>2, <2>5, <3>2 DEF Numbered
  <2>8. DoneAttended(t)'
    BY <1>2, <2>1, <2>5 DEF DoneAttended
  <2>9. SealedWhole(t)' /\ AnchoredWhole(t)'
    BY <1>1, <1>2, <2>1 DEF Whole, SealedWhole, AnchoredWhole
  <2> QED BY <2>6, <2>7, <2>8, <2>9 DEF Whole
<1> QED BY <1>3, <1>4

\* The seal is of the log that its last hash was read from.
LEMMA SealRowWhole ==
  ASSUME WholeInv, NEW c \in Conns, SealRow(c), NEW t \in Orderly
  PROVE  Whole(t)'
<1> USE DEF tables, bounds, sending, locals
<1>1. AuditTypeOK /\ Whole(t) /\ t \in Tasks /\ pc[c] = "write" /\ pc[c] \in LivePCs
  BY AuditAssumption DEF WholeInv, OnceInv, SealRow, LivePCs
<1>2. audit' = audit /\ anchors' = anchors
  BY DEF SealRow
<1>3. CASE status[task[c]] = "awaiting_confirmation"
  <2>1. status' = status /\ seal' = seal /\ pc'[c] = "closed" /\ OthersStay(c)
    BY <1>2, <1>3 DEF SealRow, Close, OthersStay
  <2>2. ~Attends(c, t)'
    BY <2>1 DEF Attends, LivePCs, LoggingPCs
  <2> QED BY <1>1, <1>2, <2>1, <2>2, OthersKeep
<1>4. CASE status[task[c]] # "awaiting_confirmation"
  <2>1. /\ WriteSeal(c, Len(audit[task[c]])) /\ OthersStay(c)
        /\ pc'[c] = "anchor" /\ task' = task /\ entry' = entry /\ final' = final
    BY <1>1, <1>2, <1>4 DEF SealRow, WriteSeal, Goto, OthersStay, AuditTypeOK
  <2>2. CASE task[c] # t
    <3>1. status'[t] = status[t] /\ seal'[t] = seal[t] /\ ~Attends(c, t)'
      BY <1>1, <2>1, <2>2 DEF WriteSeal, AuditTypeOK, Attends
    <3> QED BY <1>1, <1>2, <2>1, <3>1, OthersKeep
  <2>3. CASE task[c] = t
    <3>1. Attends(c, t) /\ final[c] = LastHash(t) /\ status[t] # "done"
      BY <1>1, <2>3 DEF Attends, Whole, ReadLast, DoneAttended
    <3>2. /\ status'[t] = "done"
          /\ seal'[t] = [final |-> LastHash(t), count |-> Len(audit[t])]
      BY <1>1, <2>1, <2>3, <3>1 DEF WriteSeal, AuditTypeOK
    <3>3. \A d \in Conns : Attends(d, t)' => d = c
      BY <1>1, <2>1, <3>1 DEF OthersStay, Attends, Whole, Alone
    <3>4. audit'[t] = audit[t] /\ LastHash(t)' = LastHash(t)
      BY <1>2 DEF LastHash
    <3>5. Alone(t)' /\ Numbered(t)' /\ ReadLast(t)' /\ DoneAttended(t)'
      BY <1>1, <2>1, <3>2, <3>3, <3>4 DEF Whole, Alone, Numbered, ReadLast, DoneAttended
    <3>6. SealedWhole(t)' /\ AnchoredWhole(t)'
      BY <1>1, <1>2, <3>1, <3>2, <3>4 DEF Whole, SealedWhole, AnchoredWhole
    <3> QED BY <3>5, <3>6 DEF Whole
  <2> QED BY <2>2, <2>3
<1> QED BY <1>3, <1>4

\* A second, a crash, or nothing: whoever is left attends as before.
LEMMA WorldWhole ==
  ASSUME WholeInv, Tick \/ Crash \/ UNCHANGED vars, NEW t \in Orderly
  PROVE  Whole(t)'
<1> USE DEF tables, bounds, sending, locals
<1>1. AuditTypeOK /\ Whole(t)
  BY DEF WholeInv, OnceInv
<1>2. audit' = audit /\ seal' = seal /\ status' = status /\ anchors' = anchors
  BY DEF Tick, Crash, vars
<1>3. \A c \in Conns : Attends(c, t)' =>
        Attends(c, t) /\ pc'[c] = pc[c] /\ entry'[c] = entry[c] /\ final'[c] = final[c]
  <2>1. CASE Tick \/ UNCHANGED vars
    BY <2>1 DEF Tick, vars, Attends
  <2>2. CASE Crash
    BY <2>2 DEF Crash, Close, Live, Attends, LivePCs, LoggingPCs
  <2> QED BY <2>1, <2>2
<1>4. Keeps(t)
  BY <1>1, <1>2, <1>3 DEF Keeps, Whole, Numbered, ReadLast, DoneAttended
<1> QED BY <1>1, <1>4, KeepsWhole

\* A handler begins to seal when its loop is over, and an ended loop does not begin again.
LEMMA ThroughStep ==
  ASSUME WholeInv, [Next]_vars
  PROVE  Through'
<1> USE DEF tables, bounds, sending, locals, Goto, LoopAt
<1>1. AuditTypeOK /\ Through /\ loop \in [Conns -> LoopRecords]
  BY DEF WholeInv, OnceInv, AuditTypeOK, Loops
<1>2. ASSUME NEW c \in Conns, Loop(c) PROVE Through'
  BY <1>1, <1>2 DEF Loop, ClearPending, Act, Observe, Park, LoopEnds, Through, LoopRecords
<1>3. ASSUME NEW c \in Conns, Handler(c) PROVE Through'
  <2>1. CASE DrainAction(c) \/ DrainResult(c) \/ Peek(c) \/ Sign(c)
    BY <1>1, <2>1
    DEF DrainAction, DrainResult, Receives, Log, Peek, Sign, Through, AuditTypeOK
  <2>2. CASE LogStep(c) \/ LinkStep(c) \/ InsertStep(c) \/ ClientLeaves(c) \/ SealHash(c)
    BY <1>1, <2>2
    DEF LogStep, LinkStep, InsertStep, ClientLeaves, SealHash, Through, AuditTypeOK
  <2>3. CASE EndTask(c)
    <3>1. CASE Close({c})
      BY <1>1, <3>1 DEF Close, Through
    <3>2. CASE ~Close({c})
      BY <1>1, <2>3, <3>2 DEF EndTask, Finished, Through, AuditTypeOK
    <3> QED BY <3>1, <3>2
  <2>4. CASE SealRow(c)
    <3>1. CASE Close({c})
      BY <1>1, <3>1 DEF Close, Through
    <3>2. CASE ~Close({c})
      BY <1>1, <2>4, <3>2 DEF SealRow, WriteSeal, Through, AuditTypeOK
    <3> QED BY <3>1, <3>2
  <2>5. CASE AnchorHash(c) \/ Publish(c)
    BY <1>1, <2>5 DEF AnchorHash, Publish, Close, Through, AuditTypeOK
  <2> QED BY <1>3, <2>1, <2>2, <2>3, <2>4, <2>5 DEF Handler
<1>4. ASSUME NEW c \in Conns, NEW t \in Tasks, Start(c, t) \/ Resume(c, t) PROVE Through'
  BY <1>1, <1>4 DEF Start, Resume, Enter, Through, AuditTypeOK
<1>5. CASE Tick \/ Crash \/ UNCHANGED vars
  BY <1>1, <1>5 DEF Tick, Crash, Close, vars, Through
<1> QED BY <1>2, <1>3, <1>4, <1>5 DEF Next

\* WholeInv is inductive.
LEMMA WholeInvStep == WholeInv /\ [Next]_vars => WholeInv'
<1> SUFFICES ASSUME WholeInv, [Next]_vars PROVE WholeInv'
  OBVIOUS
<1>1. OnceInv' /\ Through'
  BY OnceInvStep, ThroughStep DEF WholeInv
<1>2. ASSUME NEW t \in Orderly PROVE Whole(t)'
  <2>1. ASSUME NEW c \in Conns, Loop(c) PROVE Whole(t)'
    BY <2>1, LoopWhole
  <2>2. ASSUME NEW c \in Conns, Handler(c) PROVE Whole(t)'
    BY <2>2, ReadWhole, InsertWhole, SealRowWhole DEF Handler
  <2>3. ASSUME NEW c \in Conns, NEW u \in Tasks, Start(c, u) \/ Resume(c, u) PROVE Whole(t)'
    BY <2>3, EnterWhole
  <2>4. CASE Tick \/ Crash \/ UNCHANGED vars
    BY <2>4, WorldWhole
  <2> QED BY <2>1, <2>2, <2>3, <2>4 DEF Next
<1> QED BY <1>1, <1>2 DEF WholeInv

\* At first every log is empty and nobody attends it.
LEMMA WholeInvInit == Init => WholeInv
<1> SUFFICES ASSUME Init PROVE WholeInv
  OBVIOUS
<1>1. Through
  BY DEF Init, Through
<1>2. ASSUME NEW t \in Orderly PROVE Whole(t)
  <2>1. t \in Tasks
    BY AuditAssumption
  <2>2. \A c \in Conns : ~Attends(c, t)
    BY DEF Init, Attends, LivePCs, LoggingPCs
  <2>3. Alone(t) /\ Numbered(t) /\ ReadLast(t) /\ DoneAttended(t)
    BY <2>1, <2>2 DEF Init, Alone, Numbered, ReadLast, DoneAttended
  <2>4. SealedWhole(t) /\ AnchoredWhole(t)
    BY <2>1 DEF Init, SealedWhole, AnchoredWhole
  <2> QED BY <2>3, <2>4 DEF Whole
<1> QED BY <1>1, <1>2, OnceInvInit DEF WholeInv

\* seal_task reads the last hash and counts the rows in two steps, and the anchor does so
\* again: on an orderly task they speak of the whole log, which then is closed for good.
THEOREM SealedLogIsWhole == Spec => []SealCoversLog
<1>1. WholeInv => SealCoversLog
  BY DEF WholeInv, Whole, SealedWhole, AnchoredWhole, LastHash, SealCoversLog
<1> QED BY <1>1, WholeInvInit, WholeInvStep, PTL DEF Spec

-----------------------------------------------------------------------------
(***************************************************************************)
(* Orderly tasks implement TaskLog.                                        *)
(***************************************************************************)

\* The results of a task, as TaskLog sees them, and the seals.
ResultsOf(t) == [i \in DOMAIN audit[t] |-> audit[t][i].result]
\* The log and the seals as TaskLog names them.
LogView == [t \in Orderly |-> ResultsOf(t)]
SealView == [t \in Orderly |-> seal[t]]

\* A view has the length of the log, and ends as it does.
LEMMA ViewOfLog ==
  ASSUME AuditTypeOK, NEW t \in Tasks
  PROVE  /\ ResultsOf(t) \in Seq(Calls) /\ Len(ResultsOf(t)) = Len(audit[t])
         /\ Promised!LastOf(ResultsOf(t)) = LastHash(t)
<1>1. /\ audit[t] \in Seq(Rows) /\ Len(audit[t]) \in Nat /\ DOMAIN audit[t] = 1..Len(audit[t])
      /\ \A i \in DOMAIN audit[t] : audit[t][i].result \in Calls
  BY HeldCalls DEF AuditTypeOK
<1>2. ResultsOf(t) \in Seq(Calls) /\ Len(ResultsOf(t)) = Len(audit[t])
  BY <1>1 DEF ResultsOf
<1>3. ResultsOf(t) = <<>> <=> audit[t] = <<>>
  BY <1>1, <1>2
<1>4. audit[t] # <<>> => ResultsOf(t)[Len(audit[t])] = audit[t][Len(audit[t])].result
  BY <1>1 DEF ResultsOf
<1> QED BY <1>2, <1>3, <1>4 DEF Promised!LastOf, LastHash

\* A row that is inserted appends its result, and the log was not sealed.
LEMMA InsertAppends ==
  ASSUME WholeInv, NEW c \in Conns, InsertStep(c),
         NEW t0, t0 = task[c], NEW r, r = entry[c].result
  PROVE  [Promised!LogNext]_<<LogView, SealView>>
<1>1. /\ AuditTypeOK /\ pc[c] = "insert" /\ t0 \in Tasks /\ entry[c] \in Rows /\ r \in Calls
  BY EntryOK DEF WholeInv, OnceInv, InsertStep, LoggingPCs, Rows
<1>2. /\ seal' = seal /\ audit' = [audit EXCEPT ![t0] = Append(audit[t0], entry[c])]
  BY DEF InsertStep
<1>3. \A t \in Tasks : t # t0 => audit'[t] = audit[t]
  BY <1>1, <1>2 DEF AuditTypeOK
<1>4. SealView' = SealView
  BY <1>2 DEF SealView
<1>5. \A t \in Orderly : t # t0 => LogView'[t] = LogView[t]
  BY <1>3, AuditAssumption DEF LogView, ResultsOf
<1>6. CASE t0 \notin Orderly
  <2>1. LogView' = LogView
    BY <1>5, <1>6 DEF LogView
  <2> QED BY <1>4, <2>1
<1>7. CASE t0 \in Orderly
  <2>1. SealView[t0] = NoSeal
    <3>1. Whole(t0) /\ Attends(c, t0)
      BY <1>1, <1>7 DEF WholeInv, Attends, LivePCs, LoggingPCs
    <3>2. status[t0] # "done"
      BY <1>1, <3>1 DEF Whole, DoneAttended
    <3> QED BY <1>7, <3>1, <3>2 DEF Whole, SealedWhole, SealView
  <2>2. /\ audit[t0] \in Seq(Rows) /\ Len(audit[t0]) \in Nat
        /\ DOMAIN audit[t0] = 1..Len(audit[t0])
        /\ audit'[t0] = Append(audit[t0], entry[c])
    BY <1>1, <1>2 DEF AuditTypeOK
  <2>3. /\ DOMAIN audit'[t0] = 1..(Len(audit[t0]) + 1)
        /\ audit'[t0][Len(audit[t0]) + 1] = entry[c]
        /\ \A i \in 1..Len(audit[t0]) : audit'[t0][i] = audit[t0][i]
    BY <2>2
  <2>4. ResultsOf(t0)' = Append(ResultsOf(t0), r)
    <3>1. ResultsOf(t0) \in Seq(Calls) /\ Len(ResultsOf(t0)) = Len(audit[t0])
      BY <1>1, ViewOfLog
    <3>2. \A i \in 1..Len(audit[t0]) : ResultsOf(t0)[i] = audit[t0][i].result
      BY <2>2 DEF ResultsOf
    <3>3. ResultsOf(t0)' = [i \in 1..(Len(audit[t0]) + 1) |-> audit'[t0][i].result]
      BY <2>3 DEF ResultsOf
    <3>4. /\ Append(ResultsOf(t0), r) \in Seq(Calls)
          /\ DOMAIN Append(ResultsOf(t0), r) = 1..(Len(audit[t0]) + 1)
          /\ Append(ResultsOf(t0), r)[Len(audit[t0]) + 1] = r
          /\ \A i \in 1..Len(audit[t0]) : Append(ResultsOf(t0), r)[i] = audit[t0][i].result
      BY <1>1, <3>1, <3>2
    <3>5. Append(ResultsOf(t0), r)
            = [i \in 1..(Len(audit[t0]) + 1) |-> Append(ResultsOf(t0), r)[i]]
      BY <3>4
    <3>6. \A i \in 1..(Len(audit[t0]) + 1) : audit'[t0][i].result = Append(ResultsOf(t0), r)[i]
      BY <2>2, <2>3, <3>4
    <3> QED BY <3>3, <3>5, <3>6
  <2>5. LogView' = [LogView EXCEPT ![t0] = Append(LogView[t0], r)]
    BY <1>5, <1>7, <2>4 DEF LogView
  <2>6. Promised!LogResult(t0, r)
    BY <1>4, <2>1, <2>5 DEF Promised!LogResult, LogView, SealView, ResultsOf
  <2> QED BY <1>1, <1>7, <2>6 DEF Promised!LogNext
<1> QED BY <1>6, <1>7

\* A seal closes the log with its last result and its length.
LEMMA SealCloses ==
  ASSUME WholeInv, NEW c \in Conns, SealRow(c), NEW t0, t0 = task[c]
  PROVE  [Promised!LogNext]_<<LogView, SealView>>
<1>1. AuditTypeOK /\ pc[c] = "write" /\ t0 \in Tasks /\ audit' = audit
  BY DEF WholeInv, OnceInv, SealRow, AuditTypeOK, LivePCs
<1>2. LogView' = LogView
  BY <1>1 DEF LogView, ResultsOf
<1>3. CASE status[t0] = "awaiting_confirmation" \/ t0 \notin Orderly
  <2>1. \A t \in Orderly : seal'[t] = seal[t]
    BY <1>1, <1>3, AuditAssumption DEF SealRow, WriteSeal, AuditTypeOK
  <2> QED BY <1>2, <2>1 DEF SealView
<1>4. CASE status[t0] # "awaiting_confirmation" /\ t0 \in Orderly
  <2>1. Whole(t0) /\ Attends(c, t0)
    BY <1>1, <1>4 DEF WholeInv, Attends, LivePCs
  <2>2. status[t0] # "done" /\ final[c] = LastHash(t0) /\ seal[t0] = NoSeal
    BY <1>1, <2>1 DEF Whole, DoneAttended, ReadLast, SealedWhole
  <2>3. seal' = [seal EXCEPT ![t0] = [final |-> LastHash(t0), count |-> Len(audit[t0])]]
    BY <1>4, <2>2 DEF SealRow, WriteSeal
  <2>4. LastHash(t0) = Promised!LastOf(LogView[t0]) /\ Len(audit[t0]) = Len(LogView[t0])
    BY <1>1, <1>4, ViewOfLog DEF LogView
  <2>5. SealView' = [SealView EXCEPT ![t0] =
                       [final |-> Promised!LastOf(LogView[t0]), count |-> Len(LogView[t0])]]
    BY <1>1, <1>4, <2>3, <2>4, AuditAssumption DEF SealView, AuditTypeOK
  <2>6. SealView[t0] = NoSeal
    BY <1>4, <2>2 DEF SealView
  <2>7. Promised!SealLog(t0)
    BY <1>2, <2>5, <2>6 DEF Promised!SealLog, LogView, SealView, ResultsOf
  <2> QED BY <1>4, <2>7 DEF Promised!LogNext
<1> QED BY <1>3, <1>4

\* No other step touches a row or a seal.
LEMMA OthersStutter ==
  ASSUME [Next]_vars, \A c \in Conns : ~InsertStep(c) /\ ~SealRow(c)
  PROVE  UNCHANGED <<audit, seal>>
<1> USE DEF tables, bounds, sending, locals
<1>1. ASSUME NEW c \in Conns, Loop(c) PROVE UNCHANGED <<audit, seal>>
  BY <1>1 DEF Loop, ClearPending, Act, Observe, Park, LoopEnds
<1>2. ASSUME NEW c \in Conns, Handler(c) PROVE UNCHANGED <<audit, seal>>
  BY <1>2 DEF Handler, DrainAction, DrainResult, Peek, Sign, LogStep, LinkStep, ClientLeaves,
              EndTask, SealHash, AnchorHash, Publish
<1>3. ASSUME NEW c \in Conns, NEW t \in Tasks, Start(c, t) \/ Resume(c, t)
      PROVE  UNCHANGED <<audit, seal>>
  BY <1>3 DEF Start, Resume
<1>4. CASE Tick \/ Crash \/ UNCHANGED vars
  BY <1>4 DEF Tick, Crash, vars
<1> QED BY <1>1, <1>2, <1>3, <1>4 DEF Next

\* The rows and the seal of an orderly task are an append-only log that is closed once, by a
\* seal that names its last result and its length.
THEOREM LogImplemented == Spec => ImplementsLog
<1>1. Init => Promised!LogInit
  <2> SUFFICES ASSUME Init PROVE Promised!LogInit
    OBVIOUS
  <2>1. \A t \in Orderly : ResultsOf(t) = <<>> /\ seal[t] = NoSeal
    BY AuditAssumption DEF Init, ResultsOf
  <2> QED BY <2>1 DEF Promised!LogInit, ResultsOf
<1>2. WholeInv /\ [Next]_vars => [Promised!LogNext]_<<LogView, SealView>>
  <2> SUFFICES ASSUME WholeInv, [Next]_vars PROVE [Promised!LogNext]_<<LogView, SealView>>
    OBVIOUS
  <2>1. CASE \E c \in Conns : InsertStep(c)
    BY <2>1, InsertAppends
  <2>2. CASE \E c \in Conns : SealRow(c)
    BY <2>2, SealCloses
  <2>3. CASE \A c \in Conns : ~InsertStep(c) /\ ~SealRow(c)
    BY <2>3, OthersStutter DEF LogView, SealView, ResultsOf
  <2> QED BY <2>1, <2>2, <2>3
<1>3. [Promised!LogNext]_<<LogView, SealView>> => [Promised!LogNext]_(Promised!logVars)
  BY DEF Promised!logVars, LogView, SealView, ResultsOf
<1>4. WholeInv /\ [Next]_vars => [Promised!LogNext]_(Promised!logVars)
  BY <1>2, <1>3
<1> QED
  BY <1>1, <1>4, WholeInvInit, WholeInvStep, PTL DEF Spec, ImplementsLog, Promised!LogSpec

-----------------------------------------------------------------------------
(***************************************************************************)
(* Orderly tasks verify, but for a second that passed.                     *)
(***************************************************************************)
PrevHash(t, i) == IF i = 1 THEN Genesis ELSE audit[t][i - 1].result

\* A row names the one before it, and was signed for what it stores, but for the time.
RowsLinked(t) ==
  \A i \in DOMAIN audit[t] :
    /\ audit[t][i].stamp.prev = PrevHash(t, i)
    /\ audit[t][i].signed.step = audit[t][i].stamp.step
    /\ audit[t][i].signed.prev = audit[t][i].stamp.prev

\* And so will be the row in hand: what was read of the log is still so.
InHand(c, t) ==
  /\ pc[c] \in LoggingPCs => entry[c].signed.step = Len(audit[t]) + 1
  /\ pc[c] \in {"sign", "log", "link", "insert"} => entry[c].signed.prev = LastHash(t)
  /\ pc[c] = "insert" => entry[c].stamp.prev = LastHash(t)

Linked(t) == RowsLinked(t) /\ \A c \in Conns : Attends(c, t) => InHand(c, t)

\* Every row of an orderly task, and the one in hand, names the row before it.
LinkedInv == WholeInv /\ \A t \in Orderly : Linked(t)

\* A step of c that leaves the log of t alone concerns what c has in hand.
LEMMA LinkedKeep ==
  ASSUME NEW t \in Orderly, Linked(t), NEW c \in Conns, OthersStay(c),
         audit'[t] = audit[t], Attends(c, t)' => InHand(c, t)'
  PROVE  Linked(t)'
<1>1. RowsLinked(t)' /\ LastHash(t)' = LastHash(t)
  BY DEF Linked, RowsLinked, PrevHash, LastHash
<1>2. \A d \in Conns : d # c /\ Attends(d, t)' => InHand(d, t)'
  BY <1>1 DEF OthersStay, Attends, Linked, InHand
<1> QED BY <1>1, <1>2 DEF Linked

\* The handler reads step and hash to sign, and reads the same again to insert.
LEMMA ReadLinked ==
  ASSUME WholeInv, NEW c \in Conns, NEW t \in Orderly, Linked(t),
         \/ DrainAction(c) \/ DrainResult(c) \/ Peek(c) \/ Sign(c) \/ LogStep(c) \/ LinkStep(c)
         \/ ClientLeaves(c) \/ EndTask(c) \/ SealHash(c) \/ AnchorHash(c) \/ Publish(c)
         \/ SealRow(c)
  PROVE  Linked(t)'
<1> USE DEF tables, bounds, sending, locals, LivePCs, LoggingPCs, Goto
<1>1. AuditTypeOK /\ Whole(t) /\ t \in Tasks
  BY AuditAssumption DEF WholeInv, OnceInv
<1>2. audit' = audit /\ LastHash(t)' = LastHash(t)
  <2>1. audit' = audit
    BY DEF DrainAction, DrainResult, Peek, Sign, LogStep, LinkStep, ClientLeaves, EndTask,
           SealHash, AnchorHash, Publish, SealRow
  <2> QED BY <2>1 DEF LastHash
<1>3. LastHashes(t) = {LastHash(t)}
  BY <1>1, LastHashOnly DEF Whole
<1>4. CASE EndTask(c) \/ SealHash(c) \/ AnchorHash(c) \/ Publish(c) \/ SealRow(c)
  <2>1. OthersStay(c)
    BY <1>1, <1>4
    DEF EndTask, SealHash, AnchorHash, Publish, SealRow, WriteSeal, Close, OthersStay, AuditTypeOK
  <2>2. pc'[c] \notin LoggingPCs
    BY <1>1, <1>4
    DEF EndTask, Finished, SealHash, AnchorHash, Publish, SealRow, WriteSeal, Close, AuditTypeOK
  <2> QED BY <1>2, <2>1, <2>2, LinkedKeep DEF InHand
<1>5. CASE DrainAction(c) \/ ClientLeaves(c) \/ Sign(c)
  <2>1. /\ OthersStay(c) /\ task'[c] = task[c]
        /\ pc'[c] = "log" => pc[c] = "sign" /\ entry'[c] = entry[c]
        /\ pc'[c] \in LoggingPCs => pc'[c] = "log"
    BY <1>1, <1>5 DEF DrainAction, Receives, ClientLeaves, Sign, OthersStay, AuditTypeOK
  <2>2. Attends(c, t)' => InHand(c, t)'
    BY <1>2, <2>1 DEF Attends, Linked, InHand
  <2> QED BY <1>2, <2>1, <2>2, LinkedKeep
<1>6. CASE DrainResult(c)
  <2>1. /\ OthersStay(c) /\ task'[c] = task[c]
        /\ pc'[c] \in LoggingPCs => pc'[c] = "peek" /\ entry'[c].signed.step = NextStep(task[c])
    BY <1>1, <1>6 DEF DrainResult, Receives, Log, OthersStay, AuditTypeOK
  <2>2. Attends(c, t)' => InHand(c, t)'
    BY <1>2, <2>1 DEF Attends, InHand, NextStep
  <2> QED BY <1>2, <2>1, <2>2, LinkedKeep
<1>7. CASE Peek(c)
  <2>1. entry[c] \in Rows
    BY <1>1, <1>7 DEF Peek, AuditTypeOK
  <2>2. PICK h \in LastHashes(task[c]) :
          entry' = [entry EXCEPT ![c].signed = [step |-> @.step, prev |-> h, time |-> clock]]
    BY <1>7 DEF Peek
  <2>3. /\ OthersStay(c) /\ task'[c] = task[c] /\ pc[c] = "peek" /\ pc'[c] = "sign"
        /\ entry'[c].signed.step = entry[c].signed.step /\ entry'[c].signed.prev = h
    BY <1>1, <1>7, <2>1, <2>2 DEF Peek, OthersStay, AuditTypeOK, Rows
  <2>4. Attends(c, t)' => InHand(c, t)'
    BY <1>2, <1>3, <2>2, <2>3 DEF Attends, Linked, InHand
  <2> QED BY <1>2, <2>3, <2>4, LinkedKeep
<1>8. CASE LogStep(c)
  <2>1. entry[c] \in Rows
    BY <1>1, <1>8 DEF LogStep, AuditTypeOK
  <2>2. /\ OthersStay(c) /\ task'[c] = task[c] /\ pc[c] = "log" /\ pc'[c] = "link"
        /\ entry'[c].signed = entry[c].signed
    BY <1>1, <1>8, <2>1 DEF LogStep, OthersStay, AuditTypeOK, Rows
  <2>3. Attends(c, t)' => InHand(c, t)'
    BY <1>2, <2>2 DEF Attends, Linked, InHand
  <2> QED BY <1>2, <2>2, <2>3, LinkedKeep
<1>9. CASE LinkStep(c)
  <2>1. entry[c] \in Rows /\ entry[c].stamp \in Stamps
    BY <1>1, <1>9, EntryOK DEF LinkStep
  <2>2. PICK h \in LastHashes(task[c]) : LinkTo(c, h)
    BY <1>9 DEF LinkStep
  <2>3. entry'[c] = [entry[c] EXCEPT !.stamp = [entry[c].stamp EXCEPT !.prev = h]]
    BY <1>1, <2>2 DEF LinkTo, AuditTypeOK
  <2>4. entry'[c].signed = entry[c].signed /\ entry'[c].stamp.prev = h
    BY <2>1, <2>3 DEF Rows, Stamps
  <2>5. OthersStay(c) /\ task'[c] = task[c] /\ pc[c] = "link" /\ pc'[c] = "insert"
    BY <1>1, <1>9, <2>2 DEF LinkStep, LinkTo, OthersStay, AuditTypeOK
  <2>6. Attends(c, t)' => InHand(c, t)'
    BY <1>2, <1>3, <2>2, <2>4, <2>5 DEF Attends, Linked, InHand
  <2> QED BY <1>2, <2>5, <2>6, LinkedKeep
<1> QED BY <1>4, <1>5, <1>6, <1>7, <1>8, <1>9

\* The row that is inserted names the last one.
LEMMA InsertLinked ==
  ASSUME WholeInv, NEW c \in Conns, NEW t \in Orderly, Linked(t), InsertStep(c)
  PROVE  Linked(t)'
<1> USE DEF tables, bounds, sending, locals
<1>1. AuditTypeOK /\ Whole(t) /\ t \in Tasks
  BY AuditAssumption DEF WholeInv, OnceInv
<1>2. /\ pc[c] = "insert" /\ pc[c] \in LivePCs /\ pc'[c] = "drain" /\ OthersStay(c)
      /\ task' = task
  BY <1>1 DEF InsertStep, Goto, OthersStay, AuditTypeOK, LivePCs, LoggingPCs
<1>3. CASE task[c] # t
  <2>1. audit'[t] = audit[t] /\ ~Attends(c, t)'
    BY <1>1, <1>2, <1>3 DEF InsertStep, AuditTypeOK, Attends
  <2> QED BY <1>2, <2>1, LinkedKeep
<1>4. CASE task[c] = t
  <2>1. Attends(c, t) /\ InHand(c, t) /\ entry[c].stamp.step = Len(audit[t]) + 1
    BY <1>1, <1>2, <1>4 DEF Attends, Linked, Whole, Numbered
  <2>2. /\ entry[c].stamp.prev = LastHash(t) /\ entry[c].signed.prev = LastHash(t)
        /\ entry[c].signed.step = entry[c].stamp.step
    BY <1>2, <2>1 DEF InHand, LoggingPCs
  <2>3. /\ audit[t] \in Seq(Rows) /\ DOMAIN audit[t] = 1..Len(audit[t]) /\ Len(audit[t]) \in Nat
        /\ audit'[t] = Append(audit[t], entry[c])
    BY <1>1, <1>4 DEF InsertStep, AuditTypeOK
  <2>4. /\ DOMAIN audit'[t] = 1..(Len(audit[t]) + 1)
        /\ audit'[t][Len(audit[t]) + 1] = entry[c]
        /\ \A i \in 1..Len(audit[t]) : audit'[t][i] = audit[t][i]
    BY <2>3
  <2>5. \A d \in Conns : Attends(d, t)' => d = c
    BY <1>1, <1>2, <2>1 DEF OthersStay, Attends, Whole, Alone
  <2>6. RowsLinked(t)'
    <3> SUFFICES ASSUME NEW i \in DOMAIN audit'[t]
                 PROVE  /\ audit'[t][i].stamp.prev =
                             IF i = 1 THEN Genesis ELSE audit'[t][i - 1].result
                        /\ audit'[t][i].signed.step = audit'[t][i].stamp.step
                        /\ audit'[t][i].signed.prev = audit'[t][i].stamp.prev
      BY DEF RowsLinked, PrevHash
    <3>1. CASE i \in 1..Len(audit[t])
      <4>1. i # 1 => audit'[t][i - 1] = audit[t][i - 1]
        BY <2>3, <2>4, <3>1
      <4> QED BY <2>3, <2>4, <3>1, <4>1 DEF Linked, RowsLinked, PrevHash
    <3>2. CASE i = Len(audit[t]) + 1
      <4>1. LastHash(t) = IF i = 1 THEN Genesis ELSE audit'[t][i - 1].result
        <5>1. audit[t] = <<>> <=> Len(audit[t]) = 0
          BY <2>3
        <5>2. i - 1 = Len(audit[t])
          BY <2>3, <3>2
        <5> QED BY <2>3, <2>4, <3>2, <5>1, <5>2 DEF LastHash
      <4> QED BY <2>2, <2>4, <3>2, <4>1
    <3> QED BY <2>3, <2>4, <3>1, <3>2
  <2> QED BY <1>2, <2>5, <2>6 DEF Linked, InHand, LoggingPCs
<1> QED BY <1>3, <1>4

\* LinkedInv is inductive.
LEMMA LinkedInvStep == LinkedInv /\ [Next]_vars => LinkedInv'
<1> SUFFICES ASSUME LinkedInv, [Next]_vars, NEW t \in Orderly PROVE Linked(t)'
  BY WholeInvStep DEF LinkedInv
<1> USE DEF tables, bounds, sending, locals
<1>1. WholeInv /\ Linked(t) /\ AuditTypeOK
  BY DEF LinkedInv, WholeInv, OnceInv
<1>2. ASSUME NEW c \in Conns, Loop(c) PROVE Linked(t)'
  <2>1. audit' = audit /\ pc' = pc /\ task' = task /\ entry' = entry
    BY <1>2 DEF Loop, ClearPending, Act, Observe, Park, LoopEnds
  <2> QED BY <1>1, <2>1 DEF Linked, RowsLinked, PrevHash, Attends, InHand, LastHash
<1>3. ASSUME NEW c \in Conns, Handler(c) PROVE Linked(t)'
  BY <1>1, <1>3, ReadLinked, InsertLinked DEF Handler
<1>4. ASSUME NEW c \in Conns, NEW u \in Tasks, Start(c, u) \/ Resume(c, u) PROVE Linked(t)'
  <2>1. audit' = audit /\ OthersStay(c) /\ pc'[c] = "drain"
    BY <1>1, <1>4 DEF Start, Resume, Enter, Goto, OthersStay, AuditTypeOK
  <2> QED BY <1>1, <2>1, LinkedKeep DEF InHand, LoggingPCs
<1>5. CASE Tick \/ Crash \/ UNCHANGED vars
  <2>1. audit' = audit
    BY <1>5 DEF Tick, Crash, vars
  <2>2. \A c \in Conns : Attends(c, t)' =>
          Attends(c, t) /\ pc'[c] = pc[c] /\ entry'[c] = entry[c]
    BY <1>5 DEF Tick, Crash, Close, vars, Live, Attends, LivePCs, LoggingPCs
  <2> QED BY <1>1, <2>1, <2>2 DEF Linked, RowsLinked, PrevHash, InHand, LastHash
<1> QED BY <1>2, <1>3, <1>4, <1>5 DEF Next

\* An empty log is linked.
LEMMA LinkedInvInit == Init => LinkedInv
<1> SUFFICES ASSUME Init, NEW t \in Orderly PROVE Linked(t)
  BY WholeInvInit DEF LinkedInv
<1> QED BY AuditAssumption DEF Init, Linked, RowsLinked, Attends, LivePCs, LoggingPCs

\* Where rows have the numbers of their places, each is expected to name the one before.
LEMMA ExpectedPrev ==
  ASSUME AuditTypeOK, NEW t \in Tasks, Numbered(t), NEW i \in DOMAIN audit[t]
  PROVE  Expected(t, i) = PrevHash(t, i)
<1> DEFINE earlier == {j \in DOMAIN audit[t] : Before(t, j, i)}
           latest(j) == \A k \in earlier : k = j \/ Before(t, k, j)
<1>1. DOMAIN audit[t] = 1..Len(audit[t]) /\ Len(audit[t]) \in Nat
  BY DEF AuditTypeOK
<1>2. \A j, k \in DOMAIN audit[t] : Before(t, j, k) <=> j < k
  BY <1>1 DEF Before, Numbered
<1>3. earlier = 1..(i - 1)
  BY <1>1, <1>2
<1>4. CASE i = 1
  BY <1>3, <1>4 DEF Expected, PrevHash
<1>5. CASE i # 1
  <2>1. i - 1 \in earlier /\ latest(i - 1)
    BY <1>1, <1>2, <1>3, <1>5
  <2>2. \A j \in earlier : latest(j) => j = i - 1
    <3> SUFFICES ASSUME NEW j \in earlier, latest(j), j # i - 1 PROVE FALSE
      OBVIOUS
    <3>1. Before(t, i - 1, j)
      BY <2>1
    <3> QED BY <1>1, <1>2, <1>3, <2>1, <3>1
  <2>3. (CHOOSE j \in earlier : latest(j)) = i - 1
    <3> HIDE DEF earlier, latest
    <3> QED BY <2>1, <2>2
  <2>4. earlier # {}
    BY <2>1
  <2>5. Expected(t, i) = IF earlier = {} THEN Genesis
                         ELSE audit[t][CHOOSE j \in earlier : latest(j)].result
    BY DEF Expected
  <2> HIDE DEF earlier, latest
  <2>6. Expected(t, i) = audit[t][CHOOSE j \in earlier : latest(j)].result
    BY <2>4, <2>5
  <2> QED BY <1>5, <2>3, <2>6 DEF PrevHash
<1> QED BY <1>4, <1>5

\* verify_task_chain accepts an orderly task exactly when no second passed between the
\* signature of a row and its insertion.
THEOREM OrderlyChainsVerify == Spec => []OrderlyVerifies
<1>1. LinkedInv => OrderlyVerifies
  <2> SUFFICES ASSUME LinkedInv, NEW t \in Orderly
               PROVE  VerifyTaskChain(t) <=>
                        \A i \in DOMAIN audit[t] :
                          audit[t][i].signed.time = audit[t][i].stamp.time
    BY DEF OrderlyVerifies
  <2>1. AuditTypeOK /\ Numbered(t) /\ RowsLinked(t) /\ t \in Tasks
    BY AuditAssumption DEF LinkedInv, WholeInv, OnceInv, Whole, Linked
  <2> SUFFICES ASSUME NEW i \in DOMAIN audit[t]
               PROVE  (/\ audit[t][i].stamp.prev = Expected(t, i)
                       /\ audit[t][i].signed = audit[t][i].stamp)
                        <=> audit[t][i].signed.time = audit[t][i].stamp.time
    BY DEF VerifyTaskChain
  <2>2. audit[t][i].signed \in Stamps /\ audit[t][i].stamp \in Stamps
    <3>1. audit[t] \in Seq(Rows)
      BY <2>1 DEF AuditTypeOK
    <3>2. audit[t][i] \in Rows
      BY <3>1
    <3> QED BY <3>2 DEF Rows
  <2>3. /\ audit[t][i].stamp.prev = Expected(t, i)
        /\ audit[t][i].signed.step = audit[t][i].stamp.step
        /\ audit[t][i].signed.prev = audit[t][i].stamp.prev
    BY <2>1, ExpectedPrev DEF RowsLinked
  <2> QED BY <2>2, <2>3 DEF Stamps
<1> QED BY <1>1, LinkedInvInit, LinkedInvStep, PTL DEF Spec
=============================================================================
