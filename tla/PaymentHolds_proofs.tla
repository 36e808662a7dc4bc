-------------------------- MODULE PaymentHolds_proofs --------------------------
(***************************************************************************)
(* What holds of PaymentHolds for any number of tasks, connections, keys   *)
(* and transactions, any interleaving of answers, any skill rebuilds,      *)
(* crashes and lost receipts: its types, the agreement of a task's two     *)
(* columns, consent, and how often a "yes" is good for a transfer.         *)
(***************************************************************************)
EXTENDS PaymentHolds, DataLemmas

\* Where a connection has a task,
Working == PCs \ {"idle", "closed", "stray"}
\* and where it has a payment in hand.
Paying == {"park", "refresh", "approve", "release", "clear", "gate", "pay", "record",
           "commit", "fail", "stray"}

\* A handler has its task, its payment and its transaction.
Located ==
  \A c \in Conns :
    /\ pc[c] \in Working => task[c] \in Tasks
    /\ pc[c] \in Paying => job[c] \in Payment
    /\ pc[c] = "record" => txid[c] \in Txs

\* A parked payment was asked by a connection.
Asked == \A t \in Tasks : pending[t] \in Payment => pending[t].asked \in Conns

(***************************************************************************)
(* TypeOK alone is not inductive: a step that writes job[c] into a row     *)
(* needs a payment there, and a resume needs the row to hold one, which is *)
(* what PendingIffAwaiting says of an awaiting task.                       *)
(***************************************************************************)
HoldsInv == TypeOK /\ PendingIffAwaiting /\ Located /\ Asked

\* Before a connection answers it has answered nothing; what it asked is its last act.
Once ==
  \A c \in Conns :
    /\ pc[c] = "idle" => answers[c] = NoAnswer
    /\ shown[c] # NoKey => pc[c] \in {"end", "seal", "closed"}

\* A step asks and answers, it never takes back what was asked or answered.
HistoryGrows ==
  \A c \in Conns :
    /\ shown[c] # NoKey => shown'[c] = shown[c]
    /\ answers[c] # NoAnswer => answers'[c] = answers[c]

\* The question p stems from named p's payment.
Named(p, questions) == questions[p.asked] = p.key

\* So does every parked one.
QuestionsNamed == \A t \in Tasks : pending[t] \in Payment => Named(pending[t], shown)

\* A connection holds an answered question from its resume on, and consent from the
\* moment approve_hold has compared the fingerprints.
AgreedJob(c) ==
  /\ pc[c] = "approve" =>
       /\ Named(job[c], shown) /\ job[c].asked # NoConn
       /\ answers[c] = [asked |-> job[c].asked, reply |-> "yes"]
  /\ pc[c] \in {"gate", "pay"} => Agreed(job[c], shown, answers)

\* Every payment in hand is agreed.
JobsAgreed == \A c \in Conns : AgreedJob(c)

\* Consent is kept by what has been asked and answered so far.
ConsentInv == HoldsInv /\ Once /\ QuestionsNamed /\ JobsAgreed /\ Consent

-----------------------------------------------------------------------------
(***************************************************************************)
(* Types                                                                   *)
(***************************************************************************)
LEMMA ResumeType ==
  ASSUME HoldsInv, NEW c \in Conns, NEW t \in Tasks, NEW r \in Replies,
         status[t] = "awaiting_confirmation", Resume(c, t, r)
  PROVE  TypeOK'
<1> USE HoldsAssumption DEF Resume, Goto, HoldsInv, TypeOK, PCs, Statuses,
                            tasksTable, money, world, history
<1>1. CASE pending[t] = AskPending
  BY <1>1
<1>2. CASE pending[t] # AskPending
  <2>1. pending[t] \in Payment /\ pending[t].asked \in Conns
    BY <1>2 DEF PendingIffAwaiting, Asked
  <2>2. [asked |-> pending[t].asked, reply |-> r] \in Answers
    BY <2>1 DEF Answers
  <2> QED BY <1>2, <2>1, <2>2
<1> QED BY <1>1, <1>2

\* One step per action: what it writes has the type of what it overwrites.
LEMMA TypeStep ==
  ASSUME HoldsInv, [Next]_vars
  PROVE  TypeOK'
<1> USE HoldsAssumption
    DEF HoldsInv, TypeOK, PendingIffAwaiting, Located, Working, Paying, PCs, Statuses,
        Payment, Transfer, MaxSteps, tasksTable, money, world, local, history
<1>1. ASSUME NEW c \in Conns, NEW t \in Tasks, Start(c, t) PROVE TypeOK'
  BY <1>1 DEF Start, Goto
<1>2. ASSUME NEW c \in Conns, NEW t \in Tasks, NEW r \in Replies, Answer(c, t, r)
  PROVE  TypeOK'
  BY <1>2, ResumeType DEF Answer
<1>3. ASSUME NEW c \in Conns, NEW k \in Keys, ApproveHold(c, k) PROVE TypeOK'
  BY <1>3, ResumeType DEF ApproveHold, Owns, Replies
<1>4. ASSUME NEW c \in Conns, NEW k \in Keys, ReleaseHold(c, k) PROVE TypeOK'
  <2>1. CASE \E t \in Tasks : Owns(t, k) /\ Resume(c, t, "no")
    BY <2>1, ResumeType DEF Owns, Replies
  <2>2. CASE \A t \in Tasks : ~Owns(t, k)
    BY <1>4, <2>2 DEF ReleaseHold, Goto
  <2> QED BY <1>4, <2>1, <2>2 DEF ReleaseHold
<1>5. ASSUME NEW c \in Conns, NEW k \in Keys, Propose(c, k) PROVE TypeOK'
  BY <1>5 DEF Propose, InTurn, Admitted, Goto
<1>6. ASSUME NEW c \in Conns, NEW k \in Keys, Refuse(c, k) PROVE TypeOK'
  BY <1>6 DEF Refuse, InTurn, Goto
<1>7. ASSUME NEW c \in Conns, ParkPayment(c) PROVE TypeOK'
  BY <1>7 DEF ParkPayment, SaveAwaiting, Goto
<1>8. ASSUME NEW c \in Conns, AskUser(c) PROVE TypeOK'
  BY <1>8 DEF AskUser, Goto
<1>9. ASSUME NEW c \in Conns, ParkAsk(c) PROVE TypeOK'
  BY <1>9 DEF ParkAsk, SaveAwaiting, Goto
<1>10. ASSUME NEW c \in Conns, EndTurn(c) PROVE TypeOK'
  BY <1>10 DEF EndTurn, InTurn, Goto
<1>11. ASSUME NEW c \in Conns, Unask(c) PROVE TypeOK'
  BY <1>11 DEF Unask, ClearPending, Goto
<1>12. ASSUME NEW c \in Conns, Approve(c) PROVE TypeOK'
  <2>1. CASE ~dlt
    BY <1>12, <2>1 DEF Approve, Goto
  <2>2. CASE dlt /\ job[c].config # config
    BY <1>12, <2>2 DEF Approve, Goto, ReleaseSpendHold
  <2>3. CASE dlt /\ job[c].config = config
    BY <1>12, <2>3 DEF Approve, Goto, ClearPending
  <2> QED BY <2>1, <2>2, <2>3
<1>13. ASSUME NEW c \in Conns, Release(c) PROVE TypeOK'
  BY <1>13 DEF Release, ReleaseSpendHold, Goto
<1>14. ASSUME NEW c \in Conns, Clear(c) PROVE TypeOK'
  BY <1>14 DEF Clear, ClearPending, Goto
<1>15. ASSUME NEW c \in Conns, Gate(c) PROVE TypeOK'
  BY <1>15 DEF Gate, Goto
<1>16. ASSUME NEW c \in Conns, Pay(c) PROVE TypeOK'
  BY SMTT(30), <1>16 DEF Pay, Goto
<1>17. ASSUME NEW c \in Conns, Record(c) PROVE TypeOK'
  BY <1>17 DEF Record, Goto
<1>18. ASSUME NEW c \in Conns, Commit(c) PROVE TypeOK'
  BY <1>18 DEF Commit, ReleaseSpendHold, Goto
<1>19. ASSUME NEW c \in Conns, Fail(c) PROVE TypeOK'
  BY <1>19 DEF Fail, ReleaseSpendHold, Goto
<1>20. ASSUME NEW c \in Conns, End(c) PROVE TypeOK'
  BY <1>20 DEF End, Close, Goto
<1>21. ASSUME NEW c \in Conns, Seal(c) PROVE TypeOK'
  BY <1>21 DEF Seal, Close
<1>22. ASSUME NEW c \in Conns, StrayRelease(c) PROVE TypeOK'
  BY <1>22 DEF StrayRelease, Close, ReleaseSpendHold
<1>23. ASSUME ToggleDlt PROVE TypeOK'
  BY <1>23 DEF ToggleDlt
<1>24. ASSUME ConfigChange PROVE TypeOK'
  BY <1>24 DEF ConfigChange
<1>25. ASSUME NEW x \in Txs, LeaveDay(x) PROVE TypeOK'
  BY <1>25 DEF LeaveDay
<1>26. ASSUME Restart PROVE TypeOK'
  BY <1>26 DEF Restart, Close, Live
<1>27. CASE UNCHANGED vars
  BY <1>27 DEF vars
<1> QED
  BY <1>1, <1>2, <1>3, <1>4, <1>5, <1>6, <1>7, <1>8, <1>9, <1>10, <1>11, <1>12, <1>13, <1>14,
     <1>15, <1>16, <1>17, <1>18, <1>19, <1>20, <1>21, <1>22, <1>23, <1>24, <1>25, <1>26, <1>27
  DEF Next, Environment, Arrive, Loop

\* A connection that moves on has what its next step reads.
LEMMA LocatedStep ==
  ASSUME HoldsInv, TypeOK', [Next]_vars
  PROVE  Located'
<1> USE HoldsAssumption
    DEF HoldsInv, TypeOK, PendingIffAwaiting, Located, Asked, Working, Paying, PCs, Statuses,
        Payment, Transfer, MaxSteps, tasksTable, money, world, local, history
<1>1. ASSUME NEW c \in Conns, NEW t \in Tasks, Start(c, t) PROVE Located'
  BY <1>1 DEF Start, Goto
<1>2. ASSUME NEW c \in Conns, NEW t \in Tasks, NEW r \in Replies, Answer(c, t, r)
  PROVE  Located'
  BY <1>2 DEF Answer, Resume, Goto
<1>3. ASSUME NEW c \in Conns, NEW k \in Keys, ApproveHold(c, k) PROVE Located'
  BY <1>3 DEF ApproveHold, Owns, Resume, Goto
<1>4. ASSUME NEW c \in Conns, NEW k \in Keys, ReleaseHold(c, k) PROVE Located'
  BY <1>4 DEF ReleaseHold, Owns, Resume, Goto
<1>5. ASSUME NEW c \in Conns, NEW k \in Keys, Propose(c, k) PROVE Located'
  BY <1>5 DEF Propose, InTurn, Admitted, Goto
<1>6. ASSUME NEW c \in Conns, NEW k \in Keys, Refuse(c, k) PROVE Located'
  BY <1>6 DEF Refuse, InTurn, Goto
<1>7. ASSUME NEW c \in Conns, ParkPayment(c) PROVE Located'
  BY <1>7 DEF ParkPayment, SaveAwaiting, Goto
<1>8. ASSUME NEW c \in Conns, AskUser(c) PROVE Located'
  BY <1>8 DEF AskUser, Goto
<1>9. ASSUME NEW c \in Conns, ParkAsk(c) PROVE Located'
  BY <1>9 DEF ParkAsk, SaveAwaiting, Goto
<1>10. ASSUME NEW c \in Conns, EndTurn(c) PROVE Located'
  BY <1>10 DEF EndTurn, InTurn, Goto
<1>11. ASSUME NEW c \in Conns, Unask(c) PROVE Located'
  BY <1>11 DEF Unask, ClearPending, Goto
<1>12. ASSUME NEW c \in Conns, Approve(c) PROVE Located'
  <2>1. CASE ~dlt
    BY <1>12, <2>1 DEF Approve, Goto
  <2>2. CASE dlt /\ job[c].config # config
    BY <1>12, <2>2 DEF Approve, Goto, ReleaseSpendHold
  <2>3. CASE dlt /\ job[c].config = config
    BY <1>12, <2>3 DEF Approve, Goto, ClearPending
  <2> QED BY <2>1, <2>2, <2>3
<1>13. ASSUME NEW c \in Conns, Release(c) PROVE Located'
  BY <1>13 DEF Release, ReleaseSpendHold, Goto
<1>14. ASSUME NEW c \in Conns, Clear(c) PROVE Located'
  BY <1>14 DEF Clear, ClearPending, Goto
<1>15. ASSUME NEW c \in Conns, Gate(c) PROVE Located'
  BY <1>15 DEF Gate, Goto
<1>16. ASSUME NEW c \in Conns, Pay(c) PROVE Located'
  BY <1>16 DEF Pay, Goto
<1>17. ASSUME NEW c \in Conns, Record(c) PROVE Located'
  BY <1>17 DEF Record, Goto
<1>18. ASSUME NEW c \in Conns, Commit(c) PROVE Located'
  BY <1>18 DEF Commit, ReleaseSpendHold, Goto
<1>19. ASSUME NEW c \in Conns, Fail(c) PROVE Located'
  BY <1>19 DEF Fail, ReleaseSpendHold, Goto
<1>20. ASSUME NEW c \in Conns, End(c) PROVE Located'
  BY <1>20 DEF End, Close, Goto
<1>21. ASSUME NEW c \in Conns, Seal(c) PROVE Located'
  BY <1>21 DEF Seal, Close
<1>22. ASSUME NEW c \in Conns, StrayRelease(c) PROVE Located'
  BY <1>22 DEF StrayRelease, Close, ReleaseSpendHold
<1>23. ASSUME ToggleDlt PROVE Located'
  BY <1>23 DEF ToggleDlt
<1>24. ASSUME ConfigChange PROVE Located'
  BY <1>24 DEF ConfigChange
<1>25. ASSUME NEW x \in Txs, LeaveDay(x) PROVE Located'
  BY <1>25 DEF LeaveDay
<1>26. ASSUME Restart PROVE Located'
  BY <1>26 DEF Restart, Close, Live
<1>27. CASE UNCHANGED vars
  BY <1>27 DEF vars
<1> QED
  BY <1>1, <1>2, <1>3, <1>4, <1>5, <1>6, <1>7, <1>8, <1>9, <1>10, <1>11, <1>12, <1>13, <1>14,
     <1>15, <1>16, <1>17, <1>18, <1>19, <1>20, <1>21, <1>22, <1>23, <1>24, <1>25, <1>26, <1>27
  DEF Next, Environment, Arrive, Loop

\* save_awaiting_confirmation, clear_pending_action and seal_task write both columns or
\* neither: the seal's WHERE is what keeps a parked task's action readable.
LEMMA PendingStep ==
  ASSUME HoldsInv, TypeOK', [Next]_vars
  PROVE  PendingIffAwaiting'
<1> USE HoldsAssumption
    DEF HoldsInv, TypeOK, PendingIffAwaiting, Located, Asked, Working, Paying, PCs, Statuses,
        Payment, Transfer, MaxSteps, tasksTable, money, world, local, history
<1>1. ASSUME NEW c \in Conns, NEW t \in Tasks, Start(c, t) PROVE PendingIffAwaiting'
  BY <1>1 DEF Start, Goto
<1>2. ASSUME NEW c \in Conns, NEW t \in Tasks, NEW r \in Replies, Answer(c, t, r)
  PROVE  PendingIffAwaiting'
  BY <1>2 DEF Answer, Resume, Goto
<1>3. ASSUME NEW c \in Conns, NEW k \in Keys, ApproveHold(c, k) PROVE PendingIffAwaiting'
  BY <1>3 DEF ApproveHold, Owns, Resume, Goto
<1>4. ASSUME NEW c \in Conns, NEW k \in Keys, ReleaseHold(c, k) PROVE PendingIffAwaiting'
  BY <1>4 DEF ReleaseHold, Owns, Resume, Goto
<1>5. ASSUME NEW c \in Conns, NEW k \in Keys, Propose(c, k) PROVE PendingIffAwaiting'
  BY <1>5 DEF Propose, InTurn, Admitted, Goto
<1>6. ASSUME NEW c \in Conns, NEW k \in Keys, Refuse(c, k) PROVE PendingIffAwaiting'
  BY <1>6 DEF Refuse, InTurn, Goto
<1>7. ASSUME NEW c \in Conns, ParkPayment(c) PROVE PendingIffAwaiting'
  BY <1>7 DEF ParkPayment, SaveAwaiting, Goto
<1>8. ASSUME NEW c \in Conns, AskUser(c) PROVE PendingIffAwaiting'
  BY <1>8 DEF AskUser, Goto
<1>9. ASSUME NEW c \in Conns, ParkAsk(c) PROVE PendingIffAwaiting'
  BY <1>9 DEF ParkAsk, SaveAwaiting, Goto
<1>10. ASSUME NEW c \in Conns, EndTurn(c) PROVE PendingIffAwaiting'
  BY <1>10 DEF EndTurn, InTurn, Goto
<1>11. ASSUME NEW c \in Conns, Unask(c) PROVE PendingIffAwaiting'
  BY <1>11 DEF Unask, ClearPending, Goto
<1>12. ASSUME NEW c \in Conns, Approve(c) PROVE PendingIffAwaiting'
  <2>1. CASE ~dlt
    BY <1>12, <2>1 DEF Approve, Goto
  <2>2. CASE dlt /\ job[c].config # config
    BY <1>12, <2>2 DEF Approve, Goto, ReleaseSpendHold
  <2>3. CASE dlt /\ job[c].config = config
    BY <1>12, <2>3 DEF Approve, Goto, ClearPending
  <2> QED BY <2>1, <2>2, <2>3
<1>13. ASSUME NEW c \in Conns, Release(c) PROVE PendingIffAwaiting'
  BY <1>13 DEF Release, ReleaseSpendHold, Goto
<1>14. ASSUME NEW c \in Conns, Clear(c) PROVE PendingIffAwaiting'
  BY <1>14 DEF Clear, ClearPending, Goto
<1>15. ASSUME NEW c \in Conns, Gate(c) PROVE PendingIffAwaiting'
  BY <1>15 DEF Gate, Goto
<1>16. ASSUME NEW c \in Conns, Pay(c) PROVE PendingIffAwaiting'
  BY <1>16 DEF Pay, Goto
<1>17. ASSUME NEW c \in Conns, Record(c) PROVE PendingIffAwaiting'
  BY <1>17 DEF Record, Goto
<1>18. ASSUME NEW c \in Conns, Commit(c) PROVE PendingIffAwaiting'
  BY <1>18 DEF Commit, ReleaseSpendHold, Goto
<1>19. ASSUME NEW c \in Conns, Fail(c) PROVE PendingIffAwaiting'
  BY <1>19 DEF Fail, ReleaseSpendHold, Goto
<1>20. ASSUME NEW c \in Conns, End(c) PROVE PendingIffAwaiting'
  BY <1>20 DEF End, Close, Goto
<1>21. ASSUME NEW c \in Conns, Seal(c) PROVE PendingIffAwaiting'
  BY <1>21 DEF Seal, Close
<1>22. ASSUME NEW c \in Conns, StrayRelease(c) PROVE PendingIffAwaiting'
  BY <1>22 DEF StrayRelease, Close, ReleaseSpendHold
<1>23. ASSUME ToggleDlt PROVE PendingIffAwaiting'
  BY <1>23 DEF ToggleDlt
<1>24. ASSUME ConfigChange PROVE PendingIffAwaiting'
  BY <1>24 DEF ConfigChange
<1>25. ASSUME NEW x \in Txs, LeaveDay(x) PROVE PendingIffAwaiting'
  BY <1>25 DEF LeaveDay
<1>26. ASSUME Restart PROVE PendingIffAwaiting'
  BY <1>26 DEF Restart, Close, Live
<1>27. CASE UNCHANGED vars
  BY <1>27 DEF vars
<1> QED
  BY <1>1, <1>2, <1>3, <1>4, <1>5, <1>6, <1>7, <1>8, <1>9, <1>10, <1>11, <1>12, <1>13, <1>14,
     <1>15, <1>16, <1>17, <1>18, <1>19, <1>20, <1>21, <1>22, <1>23, <1>24, <1>25, <1>26, <1>27
  DEF Next, Environment, Arrive, Loop

\* A parked payment carries the question it was parked with.
LEMMA AskedStep ==
  ASSUME HoldsInv, TypeOK', [Next]_vars
  PROVE  Asked'
<1> USE HoldsAssumption
    DEF HoldsInv, TypeOK, PendingIffAwaiting, Located, Asked, Working, Paying, PCs, Statuses,
        Payment, Transfer, MaxSteps, tasksTable, money, world, local, history
<1>1. ASSUME NEW c \in Conns, NEW t \in Tasks, Start(c, t) PROVE Asked'
  BY <1>1 DEF Start, Goto
<1>2. ASSUME NEW c \in Conns, NEW t \in Tasks, NEW r \in Replies, Answer(c, t, r)
  PROVE  Asked'
  BY <1>2 DEF Answer, Resume, Goto
<1>3. ASSUME NEW c \in Conns, NEW k \in Keys, ApproveHold(c, k) PROVE Asked'
  BY <1>3 DEF ApproveHold, Owns, Resume, Goto
<1>4. ASSUME NEW c \in Conns, NEW k \in Keys, ReleaseHold(c, k) PROVE Asked'
  BY <1>4 DEF ReleaseHold, Owns, Resume, Goto
<1>5. ASSUME NEW c \in Conns, NEW k \in Keys, Propose(c, k) PROVE Asked'
  BY <1>5 DEF Propose, InTurn, Admitted, Goto
<1>6. ASSUME NEW c \in Conns, NEW k \in Keys, Refuse(c, k) PROVE Asked'
  BY <1>6 DEF Refuse, InTurn, Goto
<1>7. ASSUME NEW c \in Conns, ParkPayment(c) PROVE Asked'
  BY <1>7 DEF ParkPayment, SaveAwaiting, Goto
<1>8. ASSUME NEW c \in Conns, AskUser(c) PROVE Asked'
  BY <1>8 DEF AskUser, Goto
<1>9. ASSUME NEW c \in Conns, ParkAsk(c) PROVE Asked'
  BY <1>9 DEF ParkAsk, SaveAwaiting, Goto
<1>10. ASSUME NEW c \in Conns, EndTurn(c) PROVE Asked'
  BY <1>10 DEF EndTurn, InTurn, Goto
<1>11. ASSUME NEW c \in Conns, Unask(c) PROVE Asked'
  BY <1>11 DEF Unask, ClearPending, Goto
<1>12. ASSUME NEW c \in Conns, Approve(c) PROVE Asked'
  <2>1. CASE ~dlt
    BY <1>12, <2>1 DEF Approve, Goto
  <2>2. CASE dlt /\ job[c].config # config
    BY <1>12, <2>2 DEF Approve, Goto, ReleaseSpendHold
  <2>3. CASE dlt /\ job[c].config = config
    BY <1>12, <2>3 DEF Approve, Goto, ClearPending
  <2> QED BY <2>1, <2>2, <2>3
<1>13. ASSUME NEW c \in Conns, Release(c) PROVE Asked'
  BY <1>13 DEF Release, ReleaseSpendHold, Goto
<1>14. ASSUME NEW c \in Conns, Clear(c) PROVE Asked'
  BY <1>14 DEF Clear, ClearPending, Goto
<1>15. ASSUME NEW c \in Conns, Gate(c) PROVE Asked'
  BY <1>15 DEF Gate, Goto
<1>16. ASSUME NEW c \in Conns, Pay(c) PROVE Asked'
  BY <1>16 DEF Pay, Goto
<1>17. ASSUME NEW c \in Conns, Record(c) PROVE Asked'
  BY <1>17 DEF Record, Goto
<1>18. ASSUME NEW c \in Conns, Commit(c) PROVE Asked'
  BY <1>18 DEF Commit, ReleaseSpendHold, Goto
<1>19. ASSUME NEW c \in Conns, Fail(c) PROVE Asked'
  BY <1>19 DEF Fail, ReleaseSpendHold, Goto
<1>20. ASSUME NEW c \in Conns, End(c) PROVE Asked'
  BY <1>20 DEF End, Close, Goto
<1>21. ASSUME NEW c \in Conns, Seal(c) PROVE Asked'
  BY <1>21 DEF Seal, Close
<1>22. ASSUME NEW c \in Conns, StrayRelease(c) PROVE Asked'
  BY <1>22 DEF StrayRelease, Close, ReleaseSpendHold
<1>23. ASSUME ToggleDlt PROVE Asked'
  BY <1>23 DEF ToggleDlt
<1>24. ASSUME ConfigChange PROVE Asked'
  BY <1>24 DEF ConfigChange
<1>25. ASSUME NEW x \in Txs, LeaveDay(x) PROVE Asked'
  BY <1>25 DEF LeaveDay
<1>26. ASSUME Restart PROVE Asked'
  BY <1>26 DEF Restart, Close, Live
<1>27. CASE UNCHANGED vars
  BY <1>27 DEF vars
<1> QED
  BY <1>1, <1>2, <1>3, <1>4, <1>5, <1>6, <1>7, <1>8, <1>9, <1>10, <1>11, <1>12, <1>13, <1>14,
     <1>15, <1>16, <1>17, <1>18, <1>19, <1>20, <1>21, <1>22, <1>23, <1>24, <1>25, <1>26, <1>27
  DEF Next, Environment, Arrive, Loop

\* HoldsInv is inductive: it holds at the start, and every step preserves it.
LEMMA HoldsInvInit == Init => HoldsInv
  BY HoldsAssumption
  DEF Init, HoldsInv, TypeOK, PendingIffAwaiting, Located, Asked, Working, Paying, PCs,
      Statuses, MaxSteps

\* The step, from the four lemmas above, one per conjunct.
LEMMA HoldsInvStep == HoldsInv /\ [Next]_vars => HoldsInv'
  BY TypeStep, LocatedStep, PendingStep, AskedStep DEF HoldsInv

\* Types, columns and program counters agree in every reachable state.
THEOREM HoldsInvariant == Spec => []HoldsInv
<1> QED BY HoldsInvInit, HoldsInvStep, PTL DEF Spec

\* Every row, hold, local of a connection and bound stays in its range, whatever the
\* order of answers, crashes and rebuilds.
THEOREM TypeCorrect == Spec => []TypeOK
<1>1. HoldsInv => TypeOK
  BY DEF HoldsInv
<1> QED BY <1>1, HoldsInvariant, PTL

\* A task awaits confirmation exactly while it has an action to confirm: no race of
\* parks, resumes, clears and seals separates tasks.status and pending_action_json.
THEOREM PendingAgrees == Spec => []PendingIffAwaiting
<1>1. HoldsInv => PendingIffAwaiting
  BY DEF HoldsInv
<1> QED BY <1>1, HoldsInvariant, PTL

-----------------------------------------------------------------------------
(***************************************************************************)
(* Consent                                                                 *)
(***************************************************************************)

\* A connection asks once, last, and answers once, first.
LEMMA OnceStep ==
  ASSUME HoldsInv, Once, [Next]_vars
  PROVE  Once'
<1> USE HoldsAssumption
    DEF HoldsInv, TypeOK, Once, PCs, tasksTable, money, world, local, history
<1>1. ASSUME NEW c \in Conns, NEW t \in Tasks, Start(c, t) PROVE Once'
  BY <1>1 DEF Start, Goto
<1>2. ASSUME NEW c \in Conns, NEW t \in Tasks, NEW r \in Replies, Answer(c, t, r)
  PROVE  Once'
  BY <1>2 DEF Answer, Resume, Goto
<1>3. ASSUME NEW c \in Conns, NEW k \in Keys, ApproveHold(c, k) PROVE Once'
  BY <1>3 DEF ApproveHold, Owns, Resume, Goto
<1>4. ASSUME NEW c \in Conns, NEW k \in Keys, ReleaseHold(c, k) PROVE Once'
  BY <1>4 DEF ReleaseHold, Owns, Resume, Goto
<1>5. ASSUME NEW c \in Conns, NEW k \in Keys, Propose(c, k) PROVE Once'
  BY <1>5 DEF Propose, InTurn, Admitted, Goto
<1>6. ASSUME NEW c \in Conns, NEW k \in Keys, Refuse(c, k) PROVE Once'
  BY <1>6 DEF Refuse, InTurn, Goto
<1>7. ASSUME NEW c \in Conns, ParkPayment(c) PROVE Once'
  BY <1>7 DEF ParkPayment, SaveAwaiting, Goto
<1>8. ASSUME NEW c \in Conns, AskUser(c) PROVE Once'
  BY <1>8 DEF AskUser, Goto
<1>9. ASSUME NEW c \in Conns, ParkAsk(c) PROVE Once'
  BY <1>9 DEF ParkAsk, SaveAwaiting, Goto
<1>10. ASSUME NEW c \in Conns, EndTurn(c) PROVE Once'
  BY <1>10 DEF EndTurn, InTurn, Goto
<1>11. ASSUME NEW c \in Conns, Unask(c) PROVE Once'
  BY <1>11 DEF Unask, ClearPending, Goto
<1>12. ASSUME NEW c \in Conns, Approve(c) PROVE Once'
  BY <1>12 DEF Approve, ClearPending, ReleaseSpendHold, Goto
<1>13. ASSUME NEW c \in Conns, Release(c) PROVE Once'
  BY <1>13 DEF Release, ReleaseSpendHold, Goto
<1>14. ASSUME NEW c \in Conns, Clear(c) PROVE Once'
  BY <1>14 DEF Clear, ClearPending, Goto
<1>15. ASSUME NEW c \in Conns, Gate(c) PROVE Once'
  BY <1>15 DEF Gate, Goto
<1>16. ASSUME NEW c \in Conns, Pay(c) PROVE Once'
  BY <1>16 DEF Pay, Goto
<1>17. ASSUME NEW c \in Conns, Record(c) PROVE Once'
  BY <1>17 DEF Record, Goto
<1>18. ASSUME NEW c \in Conns, Commit(c) PROVE Once'
  BY <1>18 DEF Commit, ReleaseSpendHold, Goto
<1>19. ASSUME NEW c \in Conns, Fail(c) PROVE Once'
  BY <1>19 DEF Fail, ReleaseSpendHold, Goto
<1>20. ASSUME NEW c \in Conns, End(c) PROVE Once'
  BY <1>20 DEF End, Close, Goto
<1>21. ASSUME NEW c \in Conns, Seal(c) PROVE Once'
  BY <1>21 DEF Seal, Close
<1>22. ASSUME NEW c \in Conns, StrayRelease(c) PROVE Once'
  BY <1>22 DEF StrayRelease, Close, ReleaseSpendHold
<1>23. ASSUME ToggleDlt PROVE Once'
  BY <1>23 DEF ToggleDlt
<1>24. ASSUME ConfigChange PROVE Once'
  BY <1>24 DEF ConfigChange
<1>25. ASSUME NEW x \in Txs, LeaveDay(x) PROVE Once'
  BY <1>25 DEF LeaveDay
<1>26. ASSUME Restart PROVE Once'
  BY <1>26 DEF Restart, Close, Live
<1>27. CASE UNCHANGED vars
  BY <1>27 DEF vars
<1> QED
  BY <1>1, <1>2, <1>3, <1>4, <1>5, <1>6, <1>7, <1>8, <1>9, <1>10, <1>11, <1>12, <1>13, <1>14,
     <1>15, <1>16, <1>17, <1>18, <1>19, <1>20, <1>21, <1>22, <1>23, <1>24, <1>25, <1>26, <1>27
  DEF Next, Environment, Arrive, Loop

\* So what was asked and answered stands.
LEMMA HistoryStep ==
  ASSUME HoldsInv, Once, [Next]_vars
  PROVE  HistoryGrows
<1> USE HoldsAssumption
    DEF HoldsInv, TypeOK, Once, HistoryGrows, PCs, tasksTable, money, world, local, history
<1>1. ASSUME NEW c \in Conns, NEW t \in Tasks, Start(c, t) PROVE HistoryGrows
  BY <1>1 DEF Start, Goto
<1>2. ASSUME NEW c \in Conns, NEW t \in Tasks, NEW r \in Replies, Answer(c, t, r)
  PROVE  HistoryGrows
  BY <1>2 DEF Answer, Resume, Goto
<1>3. ASSUME NEW c \in Conns, NEW k \in Keys, ApproveHold(c, k) PROVE HistoryGrows
  BY <1>3 DEF ApproveHold, Owns, Resume, Goto
<1>4. ASSUME NEW c \in Conns, NEW k \in Keys, ReleaseHold(c, k) PROVE HistoryGrows
  BY <1>4 DEF ReleaseHold, Owns, Resume, Goto
<1>5. ASSUME NEW c \in Conns, NEW k \in Keys, Propose(c, k) PROVE HistoryGrows
  BY <1>5 DEF Propose, InTurn, Admitted, Goto
<1>6. ASSUME NEW c \in Conns, NEW k \in Keys, Refuse(c, k) PROVE HistoryGrows
  BY <1>6 DEF Refuse, InTurn, Goto
<1>7. ASSUME NEW c \in Conns, ParkPayment(c) PROVE HistoryGrows
  BY <1>7 DEF ParkPayment, SaveAwaiting, Goto
<1>8. ASSUME NEW c \in Conns, AskUser(c) PROVE HistoryGrows
  BY <1>8 DEF AskUser, Goto
<1>9. ASSUME NEW c \in Conns, ParkAsk(c) PROVE HistoryGrows
  BY <1>9 DEF ParkAsk, SaveAwaiting, Goto
<1>10. ASSUME NEW c \in Conns, EndTurn(c) PROVE HistoryGrows
  BY <1>10 DEF EndTurn, InTurn, Goto
<1>11. ASSUME NEW c \in Conns, Unask(c) PROVE HistoryGrows
  BY <1>11 DEF Unask, ClearPending, Goto
<1>12. ASSUME NEW c \in Conns, Approve(c) PROVE HistoryGrows
  BY <1>12 DEF Approve, ClearPending, ReleaseSpendHold, Goto
<1>13. ASSUME NEW c \in Conns, Release(c) PROVE HistoryGrows
  BY <1>13 DEF Release, ReleaseSpendHold, Goto
<1>14. ASSUME NEW c \in Conns, Clear(c) PROVE HistoryGrows
  BY <1>14 DEF Clear, ClearPending, Goto
<1>15. ASSUME NEW c \in Conns, Gate(c) PROVE HistoryGrows
  BY <1>15 DEF Gate, Goto
<1>16. ASSUME NEW c \in Conns, Pay(c) PROVE HistoryGrows
  BY <1>16 DEF Pay, Goto
<1>17. ASSUME NEW c \in Conns, Record(c) PROVE HistoryGrows
  BY <1>17 DEF Record, Goto
<1>18. ASSUME NEW c \in Conns, Commit(c) PROVE HistoryGrows
  BY <1>18 DEF Commit, ReleaseSpendHold, Goto
<1>19. ASSUME NEW c \in Conns, Fail(c) PROVE HistoryGrows
  BY <1>19 DEF Fail, ReleaseSpendHold, Goto
<1>20. ASSUME NEW c \in Conns, End(c) PROVE HistoryGrows
  BY <1>20 DEF End, Close, Goto
<1>21. ASSUME NEW c \in Conns, Seal(c) PROVE HistoryGrows
  BY <1>21 DEF Seal, Close
<1>22. ASSUME NEW c \in Conns, StrayRelease(c) PROVE HistoryGrows
  BY <1>22 DEF StrayRelease, Close, ReleaseSpendHold
<1>23. ASSUME ToggleDlt PROVE HistoryGrows
  BY <1>23 DEF ToggleDlt
<1>24. ASSUME ConfigChange PROVE HistoryGrows
  BY <1>24 DEF ConfigChange
<1>25. ASSUME NEW x \in Txs, LeaveDay(x) PROVE HistoryGrows
  BY <1>25 DEF LeaveDay
<1>26. ASSUME Restart PROVE HistoryGrows
  BY <1>26 DEF Restart, Close, Live
<1>27. CASE UNCHANGED vars
  BY <1>27 DEF vars
<1> QED
  BY <1>1, <1>2, <1>3, <1>4, <1>5, <1>6, <1>7, <1>8, <1>9, <1>10, <1>11, <1>12, <1>13, <1>14,
     <1>15, <1>16, <1>17, <1>18, <1>19, <1>20, <1>21, <1>22, <1>23, <1>24, <1>25, <1>26, <1>27
  DEF Next, Environment, Arrive, Loop

\* Consent once given is not undone by later questions and answers.
LEMMA AgreedPersists ==
  ASSUME HistoryGrows, NEW p, p.key \in Keys, p.asked \in Conns \cup {NoConn},
         Agreed(p, shown, answers)
  PROVE  Agreed(p, shown', answers')
<1>1. CASE p.asked = NoConn
  BY <1>1 DEF Agreed
<1>2. CASE p.asked # NoConn
  <2>1. shown'[p.asked] = p.key
    BY <1>2, HoldsAssumption DEF Agreed, HistoryGrows
  <2>2. PICK c \in Conns : answers[c] = [asked |-> p.asked, reply |-> "yes"]
    BY <1>2 DEF Agreed
  <2>3. [asked |-> p.asked, reply |-> "yes"] \in Answers
    BY <1>2 DEF Answers, Replies
  <2>4. answers'[c] = [asked |-> p.asked, reply |-> "yes"]
    BY <2>2, <2>3, HoldsAssumption DEF HistoryGrows
  <2> QED BY <1>2, <2>1, <2>4 DEF Agreed
<1> QED BY <1>1, <1>2

\* A row that stays keeps its question's name.
LEMMA NamedPersists ==
  ASSUME HistoryGrows, NEW p \in Payment, p.asked \in Conns, Named(p, shown)
  PROVE  Named(p, shown')
  BY HoldsAssumption DEF HistoryGrows, Named, Payment

\* A step that rewrites no row and names no other question keeps every row named.
LEMMA QuestionsQuiet ==
  ASSUME HoldsInv, HistoryGrows, QuestionsNamed,
         \A t \in Tasks : pending'[t] \in Payment => pending'[t] = pending[t]
  PROVE  QuestionsNamed'
  BY NamedPersists DEF QuestionsNamed, HoldsInv, Asked

\* Only a park writes a payment into a row, and it shows the payment it writes.
LEMMA QuestionsStep ==
  ASSUME HoldsInv, HoldsInv', HistoryGrows, QuestionsNamed, [Next]_vars
  PROVE  QuestionsNamed'
<1> USE HoldsAssumption, QuestionsQuiet
    DEF tasksTable, money, world, local, history
<1>1. ASSUME NEW c \in Conns, NEW t \in Tasks, Start(c, t) PROVE QuestionsNamed'
  BY <1>1 DEF Start, Goto
<1>2. ASSUME NEW c \in Conns, NEW t \in Tasks, NEW r \in Replies, Answer(c, t, r)
  PROVE  QuestionsNamed'
  BY <1>2 DEF Answer, Resume, Goto
<1>3. ASSUME NEW c \in Conns, NEW k \in Keys, ApproveHold(c, k) PROVE QuestionsNamed'
  BY <1>3 DEF ApproveHold, Owns, Resume, Goto
<1>4. ASSUME NEW c \in Conns, NEW k \in Keys, ReleaseHold(c, k) PROVE QuestionsNamed'
  BY <1>4 DEF ReleaseHold, Owns, Resume, Goto
<1>5. ASSUME NEW c \in Conns, NEW k \in Keys, Propose(c, k) PROVE QuestionsNamed'
  BY <1>5 DEF Propose, InTurn, Admitted, Goto
<1>6. ASSUME NEW c \in Conns, NEW k \in Keys, Refuse(c, k) PROVE QuestionsNamed'
  BY <1>6 DEF Refuse, InTurn, Goto
<1>7. ASSUME NEW c \in Conns, ParkPayment(c) PROVE QuestionsNamed'
  <2>1. job[c] \in Payment /\ shown'[c] = job[c].key
    BY <1>7 DEF ParkPayment, HoldsInv, TypeOK, Located, Paying
  <2>2. ASSUME NEW t \in Tasks, pending'[t] \in Payment PROVE Named(pending'[t], shown')
    <3>1. CASE t = task[c]
      BY <1>7, <2>1, <3>1 DEF ParkPayment, SaveAwaiting, HoldsInv, TypeOK, Named, Payment
    <3>2. CASE t # task[c]
      <4>1. pending'[t] = pending[t]
        BY <1>7, <3>2 DEF ParkPayment, SaveAwaiting, HoldsInv, TypeOK
      <4> QED BY <2>2, <4>1, NamedPersists DEF QuestionsNamed, HoldsInv, Asked
    <3> QED BY <3>1, <3>2
  <2> QED BY <2>2 DEF QuestionsNamed
<1>8. ASSUME NEW c \in Conns, AskUser(c) PROVE QuestionsNamed'
  BY <1>8 DEF AskUser, Goto
<1>9. ASSUME NEW c \in Conns, ParkAsk(c) PROVE QuestionsNamed'
  BY <1>9 DEF ParkAsk, SaveAwaiting, HoldsInv, TypeOK
<1>10. ASSUME NEW c \in Conns, EndTurn(c) PROVE QuestionsNamed'
  BY <1>10 DEF EndTurn, InTurn, Goto
<1>11. ASSUME NEW c \in Conns, Unask(c) PROVE QuestionsNamed'
  BY <1>11 DEF Unask, ClearPending, HoldsInv, TypeOK
<1>12. ASSUME NEW c \in Conns, Approve(c) PROVE QuestionsNamed'
  BY <1>12, QuestionsQuiet DEF Approve, ClearPending, HoldsInv, TypeOK
<1>13. ASSUME NEW c \in Conns, Release(c) PROVE QuestionsNamed'
  BY <1>13 DEF Release, ReleaseSpendHold, Goto
<1>14. ASSUME NEW c \in Conns, Clear(c) PROVE QuestionsNamed'
  BY <1>14 DEF Clear, ClearPending, HoldsInv, TypeOK
<1>15. ASSUME NEW c \in Conns, Gate(c) PROVE QuestionsNamed'
  BY <1>15 DEF Gate, Goto
<1>16. ASSUME NEW c \in Conns, Pay(c) PROVE QuestionsNamed'
  BY <1>16 DEF Pay, Goto
<1>17. ASSUME NEW c \in Conns, Record(c) PROVE QuestionsNamed'
  BY <1>17 DEF Record, Goto
<1>18. ASSUME NEW c \in Conns, Commit(c) PROVE QuestionsNamed'
  BY <1>18 DEF Commit, ReleaseSpendHold, Goto
<1>19. ASSUME NEW c \in Conns, Fail(c) PROVE QuestionsNamed'
  BY <1>19 DEF Fail, ReleaseSpendHold, Goto
<1>20. ASSUME NEW c \in Conns, End(c) PROVE QuestionsNamed'
  BY <1>20 DEF End, Close, Goto
<1>21. ASSUME NEW c \in Conns, Seal(c) PROVE QuestionsNamed'
  BY <1>21 DEF Seal, Close
<1>22. ASSUME NEW c \in Conns, StrayRelease(c) PROVE QuestionsNamed'
  BY <1>22 DEF StrayRelease, Close, ReleaseSpendHold
<1>23. ASSUME ToggleDlt PROVE QuestionsNamed'
  BY <1>23 DEF ToggleDlt
<1>24. ASSUME ConfigChange PROVE QuestionsNamed'
  BY <1>24 DEF ConfigChange
<1>25. ASSUME NEW x \in Txs, LeaveDay(x) PROVE QuestionsNamed'
  BY <1>25 DEF LeaveDay
<1>26. ASSUME Restart PROVE QuestionsNamed'
  BY <1>26 DEF Restart, Close, Live
<1>27. CASE UNCHANGED vars
  BY <1>27 DEF vars
<1> QED
  BY <1>1, <1>2, <1>3, <1>4, <1>5, <1>6, <1>7, <1>8, <1>9, <1>10, <1>11, <1>12, <1>13, <1>14,
     <1>15, <1>16, <1>17, <1>18, <1>19, <1>20, <1>21, <1>22, <1>23, <1>24, <1>25, <1>26, <1>27
  DEF Next, Environment, Arrive, Loop

\* A connection that a step leaves alone stays agreed.
LEMMA JobQuiet ==
  ASSUME HoldsInv, HistoryGrows, NEW d \in Conns, AgreedJob(d),
         pc'[d] = pc[d], job'[d] = job[d]
  PROVE  AgreedJob(d)'
<1>1. CASE pc[d] = "approve"
  <2>1. job[d] \in Payment /\ job[d].asked \in Conns
    BY <1>1 DEF HoldsInv, Located, Paying, AgreedJob, Payment
  <2>2. Named(job[d], shown')
    BY <1>1, <2>1, NamedPersists DEF AgreedJob
  <2>3. answers[d] \in Answers
    BY <1>1, <2>1 DEF AgreedJob, Answers, Replies
  <2> QED BY <1>1, <2>1, <2>2, <2>3, HoldsAssumption DEF AgreedJob, HistoryGrows
<1>2. CASE pc[d] \in {"gate", "pay"}
  <2>1. job[d] \in Payment
    BY <1>2 DEF HoldsInv, Located, Paying
  <2>2. Agreed(job[d], shown', answers')
    BY <1>2, <2>1, AgreedPersists DEF AgreedJob, Payment
  <2> QED BY <1>2, <2>2 DEF AgreedJob
<1>3. CASE pc[d] \notin {"approve", "gate", "pay"}
  BY <1>3 DEF AgreedJob
<1> QED BY <1>1, <1>2, <1>3

\* A resume on "yes" enters approve_hold with a question that named the payment.
LEMMA ResumeAgreed ==
  ASSUME HoldsInv, HistoryGrows, QuestionsNamed, JobsAgreed,
         NEW c \in Conns, NEW t \in Tasks, NEW r \in Replies,
         status[t] = "awaiting_confirmation", Resume(c, t, r)
  PROVE  JobsAgreed'
<1>1. ASSUME NEW d \in Conns, d # c PROVE AgreedJob(d)'
  BY <1>1, JobQuiet DEF Resume, Goto, JobsAgreed, HoldsInv, TypeOK
<1>2. AgreedJob(c)'
  <2>1. CASE pending[t] = AskPending
    BY <2>1 DEF Resume, Goto, AgreedJob, HoldsInv, TypeOK
  <2>2. CASE pending[t] # AskPending
    <3>1. pending[t] \in Payment /\ pending[t].asked \in Conns /\ Named(pending[t], shown)
      BY <2>2 DEF HoldsInv, TypeOK, PendingIffAwaiting, Asked, QuestionsNamed
    <3>2. job'[c] = pending[t] /\ shown' = shown /\ pc'[c] \in {"approve", "release"}
      BY <2>2 DEF Resume, Goto, HoldsInv, TypeOK
    <3>3. pc'[c] = "approve" => answers'[c] = [asked |-> pending[t].asked, reply |-> "yes"]
      BY <2>2 DEF Resume, Goto, HoldsInv, TypeOK
    <3> QED BY <3>1, <3>2, <3>3, HoldsAssumption DEF AgreedJob
  <2> QED BY <2>1, <2>2
<1> QED BY <1>1, <1>2 DEF JobsAgreed

\* A yes becomes consent when approve_hold compares fingerprints, an automatic payment
\* has it from its proposal, and no other step moves a payment toward the guest.
LEMMA JobsStep ==
  ASSUME HoldsInv, HoldsInv', HistoryGrows, QuestionsNamed, JobsAgreed, [Next]_vars
  PROVE  JobsAgreed'
<1> USE HoldsAssumption, JobQuiet
    DEF JobsAgreed, HoldsInv, TypeOK, PCs, tasksTable, money, world, local, history
<1>1. ASSUME NEW c \in Conns, NEW t \in Tasks, Start(c, t) PROVE JobsAgreed'
  <2>1. ASSUME NEW d \in Conns, d # c PROVE AgreedJob(d)'
    BY <1>1, <2>1 DEF Start, Goto
  <2>2. AgreedJob(c)'
    BY <1>1 DEF Start, Goto, AgreedJob
  <2> QED BY <2>1, <2>2
<1>2. ASSUME NEW c \in Conns, NEW t \in Tasks, NEW r \in Replies, Answer(c, t, r)
  PROVE  JobsAgreed'
  BY <1>2, ResumeAgreed DEF Answer
<1>3. ASSUME NEW c \in Conns, NEW k \in Keys, ApproveHold(c, k) PROVE JobsAgreed'
  BY <1>3, ResumeAgreed DEF ApproveHold, Owns, Replies
<1>4. ASSUME NEW c \in Conns, NEW k \in Keys, ReleaseHold(c, k) PROVE JobsAgreed'
  <2>1. CASE \E t \in Tasks : Owns(t, k) /\ Resume(c, t, "no")
    BY <2>1, ResumeAgreed DEF Owns, Replies
  <2>2. CASE \A t \in Tasks : ~Owns(t, k)
    <3>1. ASSUME NEW d \in Conns, d # c PROVE AgreedJob(d)'
      BY <1>4, <2>2, <3>1 DEF ReleaseHold, Goto, Resume
    <3>2. pc'[c] = "stray"
      BY <1>4, <2>2 DEF ReleaseHold, Goto
    <3> QED BY <3>1, <3>2 DEF AgreedJob
  <2> QED BY <1>4, <2>1, <2>2 DEF ReleaseHold
<1>5. ASSUME NEW c \in Conns, NEW k \in Keys, Propose(c, k) PROVE JobsAgreed'
  <2>1. ASSUME NEW d \in Conns, d # c PROVE AgreedJob(d)'
    BY <1>5, <2>1 DEF Propose, InTurn, Goto
  <2>2. AgreedJob(c)'
    <3>1. pc'[c] \in {"gate", "park"} /\ pc'[c] = "gate" => Amount[k] <= AutoUnder
      BY <1>5 DEF Propose, InTurn, Goto
    <3>2. job'[c] = [key |-> k, config |-> config, asked |-> NoConn]
      BY <1>5 DEF Propose, InTurn
    <3>3. pc'[c] = "gate" => Agreed(job'[c], shown', answers')
      BY <3>1, <3>2 DEF Agreed
    <3>4. pc'[c] \in {"gate", "park"}
      BY <1>5 DEF Propose, InTurn, Goto
    <3> QED BY <3>3, <3>4 DEF AgreedJob
  <2> QED BY <2>1, <2>2
<1>6. ASSUME NEW c \in Conns, NEW k \in Keys, Refuse(c, k) PROVE JobsAgreed'
  <2>1. ASSUME NEW d \in Conns, d # c PROVE AgreedJob(d)'
    BY <1>6, <2>1 DEF Refuse, InTurn, Goto
  <2>2. AgreedJob(c)'
    BY <1>6 DEF Refuse, InTurn, Goto, AgreedJob
  <2> QED BY <2>1, <2>2
<1>7. ASSUME NEW c \in Conns, ParkPayment(c) PROVE JobsAgreed'
  <2>1. ASSUME NEW d \in Conns, d # c PROVE AgreedJob(d)'
    BY <1>7, <2>1 DEF ParkPayment, SaveAwaiting, Goto
  <2>2. AgreedJob(c)'
    BY <1>7 DEF ParkPayment, SaveAwaiting, Goto, AgreedJob
  <2> QED BY <2>1, <2>2
<1>8. ASSUME NEW c \in Conns, AskUser(c) PROVE JobsAgreed'
  <2>1. ASSUME NEW d \in Conns, d # c PROVE AgreedJob(d)'
    BY <1>8, <2>1 DEF AskUser, Goto
  <2>2. AgreedJob(c)'
    BY <1>8 DEF AskUser, Goto, AgreedJob
  <2> QED BY <2>1, <2>2
<1>9. ASSUME NEW c \in Conns, ParkAsk(c) PROVE JobsAgreed'
  <2>1. ASSUME NEW d \in Conns, d # c PROVE AgreedJob(d)'
    BY <1>9, <2>1 DEF ParkAsk, SaveAwaiting, Goto
  <2>2. AgreedJob(c)'
    BY <1>9 DEF ParkAsk, SaveAwaiting, Goto, AgreedJob
  <2> QED BY <2>1, <2>2
<1>10. ASSUME NEW c \in Conns, EndTurn(c) PROVE JobsAgreed'
  <2>1. ASSUME NEW d \in Conns, d # c PROVE AgreedJob(d)'
    BY <1>10, <2>1 DEF EndTurn, InTurn, Goto
  <2>2. AgreedJob(c)'
    BY <1>10 DEF EndTurn, InTurn, Goto, AgreedJob
  <2> QED BY <2>1, <2>2
<1>11. ASSUME NEW c \in Conns, Unask(c) PROVE JobsAgreed'
  <2>1. ASSUME NEW d \in Conns, d # c PROVE AgreedJob(d)'
    BY <1>11, <2>1 DEF Unask, ClearPending, Goto
  <2>2. AgreedJob(c)'
    BY <1>11 DEF Unask, ClearPending, Goto, AgreedJob
  <2> QED BY <2>1, <2>2
<1>12. ASSUME NEW c \in Conns, Approve(c) PROVE JobsAgreed'
  <2>1. ASSUME NEW d \in Conns, d # c PROVE AgreedJob(d)'
    BY <1>12, <2>1 DEF Approve, ClearPending, ReleaseSpendHold, Goto
  <2>2. AgreedJob(c)'
    <3>1. CASE dlt /\ job[c].config = config
      <4>1. pc[c] = "approve" /\ pc'[c] = "gate"
        BY <1>12, <3>1 DEF Approve, Goto
      <4>2. job' = job /\ shown' = shown /\ answers' = answers
        BY <1>12, <3>1 DEF Approve
      <4>3. Agreed(job[c], shown, answers)
        BY <4>1 DEF AgreedJob, Named, Agreed
      <4> QED BY <4>1, <4>2, <4>3 DEF AgreedJob
    <3>2. CASE ~(dlt /\ job[c].config = config)
      <4>1. pc'[c] \in {"release", "refresh"}
        BY <1>12, <3>2 DEF Approve, Goto
      <4> QED BY <4>1 DEF AgreedJob
    <3> QED BY <3>1, <3>2
  <2> QED BY <2>1, <2>2
<1>13. ASSUME NEW c \in Conns, Release(c) PROVE JobsAgreed'
  <2>1. ASSUME NEW d \in Conns, d # c PROVE AgreedJob(d)'
    BY <1>13, <2>1 DEF Release, ReleaseSpendHold, Goto
  <2>2. AgreedJob(c)'
    BY <1>13 DEF Release, ReleaseSpendHold, Goto, AgreedJob
  <2> QED BY <2>1, <2>2
<1>14. ASSUME NEW c \in Conns, Clear(c) PROVE JobsAgreed'
  <2>1. ASSUME NEW d \in Conns, d # c PROVE AgreedJob(d)'
    BY <1>14, <2>1 DEF Clear, ClearPending, Goto
  <2>2. AgreedJob(c)'
    BY <1>14 DEF Clear, ClearPending, Goto, AgreedJob
  <2> QED BY <2>1, <2>2
<1>15. ASSUME NEW c \in Conns, Gate(c) PROVE JobsAgreed'
  <2>1. ASSUME NEW d \in Conns, d # c PROVE AgreedJob(d)'
    BY <1>15, <2>1 DEF Gate, Goto
  <2>2. AgreedJob(c)'
    <3>1. job' = job /\ shown' = shown /\ answers' = answers
      BY <1>15 DEF Gate
    <3>2. pc[c] = "gate" /\ pc'[c] \in {"pay", "fail"}
      BY <1>15 DEF Gate, Goto
    <3> QED BY <3>1, <3>2 DEF AgreedJob
  <2> QED BY <2>1, <2>2
<1>16. ASSUME NEW c \in Conns, Pay(c) PROVE JobsAgreed'
  <2>1. ASSUME NEW d \in Conns, d # c PROVE AgreedJob(d)'
    BY <1>16, <2>1 DEF Pay, Goto
  <2>2. AgreedJob(c)'
    <3>1. pc'[c] \in {"record", "fail"}
      BY <1>16 DEF Pay, Goto
    <3> QED BY <3>1 DEF AgreedJob
  <2> QED BY <2>1, <2>2
<1>17. ASSUME NEW c \in Conns, Record(c) PROVE JobsAgreed'
  <2>1. ASSUME NEW d \in Conns, d # c PROVE AgreedJob(d)'
    BY <1>17, <2>1 DEF Record, Goto
  <2>2. AgreedJob(c)'
    BY <1>17 DEF Record, Goto, AgreedJob
  <2> QED BY <2>1, <2>2
<1>18. ASSUME NEW c \in Conns, Commit(c) PROVE JobsAgreed'
  <2>1. ASSUME NEW d \in Conns, d # c PROVE AgreedJob(d)'
    BY <1>18, <2>1 DEF Commit, ReleaseSpendHold, Goto
  <2>2. AgreedJob(c)'
    BY <1>18 DEF Commit, ReleaseSpendHold, Goto, AgreedJob
  <2> QED BY <2>1, <2>2
<1>19. ASSUME NEW c \in Conns, Fail(c) PROVE JobsAgreed'
  <2>1. ASSUME NEW d \in Conns, d # c PROVE AgreedJob(d)'
    BY <1>19, <2>1 DEF Fail, ReleaseSpendHold, Goto
  <2>2. AgreedJob(c)'
    BY <1>19 DEF Fail, ReleaseSpendHold, Goto, AgreedJob
  <2> QED BY <2>1, <2>2
<1>20. ASSUME NEW c \in Conns, End(c) PROVE JobsAgreed'
  <2>1. ASSUME NEW d \in Conns, d # c PROVE AgreedJob(d)'
    BY <1>20, <2>1 DEF End, Close, Goto
  <2>2. AgreedJob(c)'
    BY <1>20 DEF End, Close, Goto, AgreedJob
  <2> QED BY <2>1, <2>2
<1>21. ASSUME NEW c \in Conns, Seal(c) PROVE JobsAgreed'
  <2>1. ASSUME NEW d \in Conns, d # c PROVE AgreedJob(d)'
    BY <1>21, <2>1 DEF Seal, Close
  <2>2. AgreedJob(c)'
    BY <1>21 DEF Seal, Close, AgreedJob
  <2> QED BY <2>1, <2>2
<1>22. ASSUME NEW c \in Conns, StrayRelease(c) PROVE JobsAgreed'
  <2>1. ASSUME NEW d \in Conns, d # c PROVE AgreedJob(d)'
    BY <1>22, <2>1 DEF StrayRelease, Close, ReleaseSpendHold
  <2>2. AgreedJob(c)'
    BY <1>22 DEF StrayRelease, Close, ReleaseSpendHold, AgreedJob
  <2> QED BY <2>1, <2>2
<1>23. ASSUME ToggleDlt PROVE JobsAgreed'
  BY <1>23 DEF ToggleDlt
<1>24. ASSUME ConfigChange PROVE JobsAgreed'
  BY <1>24 DEF ConfigChange
<1>25. ASSUME NEW x \in Txs, LeaveDay(x) PROVE JobsAgreed'
  BY <1>25 DEF LeaveDay
<1>26. ASSUME Restart PROVE JobsAgreed'
  <2>1. ASSUME NEW d \in Conns PROVE AgreedJob(d)'
    <3>1. CASE Live(d)
      BY <1>26, <3>1 DEF Restart, Close, AgreedJob
    <3>2. CASE ~Live(d)
      BY <1>26, <3>2 DEF Restart, Close
    <3> QED BY <3>1, <3>2
  <2> QED BY <2>1
<1>27. CASE UNCHANGED vars
  BY <1>27 DEF vars
<1> QED
  BY <1>1, <1>2, <1>3, <1>4, <1>5, <1>6, <1>7, <1>8, <1>9, <1>10, <1>11, <1>12, <1>13, <1>14,
     <1>15, <1>16, <1>17, <1>18, <1>19, <1>20, <1>21, <1>22, <1>23, <1>24, <1>25, <1>26, <1>27
  DEF Next, Environment, Arrive, Loop

\* A step that adds no transfer keeps Consent: history only grows.
LEMMA LedgerQuiet ==
  ASSUME HoldsInv, HistoryGrows, Consent, ledger' = ledger
  PROVE  Consent'
<1> SUFFICES ASSUME NEW x \in Txs, ledger[x] # NoTransfer
             PROVE  Agreed(ledger[x], shown', answers')
  BY DEF Consent
<1>1. ledger[x] \in Transfer
  BY DEF HoldsInv, TypeOK
<1> QED BY <1>1, AgreedPersists DEF Consent, Transfer

\* The ledger moves in Pay alone, and what Pay moves was agreed at the gate.
LEMMA LedgerStep ==
  ASSUME HoldsInv, HoldsInv', HistoryGrows, QuestionsNamed, JobsAgreed, Consent, [Next]_vars
  PROVE  Consent'
<1> USE LedgerQuiet
    DEF tasksTable, money, world, local, history
<1>1. ASSUME NEW c \in Conns, NEW t \in Tasks, Start(c, t) PROVE Consent'
  BY <1>1 DEF Start, Goto
<1>2. ASSUME NEW c \in Conns, NEW t \in Tasks, NEW r \in Replies, Answer(c, t, r)
  PROVE  Consent'
  BY <1>2 DEF Answer, Resume, Goto
<1>3. ASSUME NEW c \in Conns, NEW k \in Keys, ApproveHold(c, k) PROVE Consent'
  BY <1>3 DEF ApproveHold, Owns, Resume, Goto
<1>4. ASSUME NEW c \in Conns, NEW k \in Keys, ReleaseHold(c, k) PROVE Consent'
  BY <1>4 DEF ReleaseHold, Owns, Resume, Goto
<1>5. ASSUME NEW c \in Conns, NEW k \in Keys, Propose(c, k) PROVE Consent'
  BY <1>5 DEF Propose, InTurn, Admitted, Goto
<1>6. ASSUME NEW c \in Conns, NEW k \in Keys, Refuse(c, k) PROVE Consent'
  BY <1>6 DEF Refuse, InTurn, Goto
<1>7. ASSUME NEW c \in Conns, ParkPayment(c) PROVE Consent'
  BY <1>7 DEF ParkPayment, SaveAwaiting, Goto
<1>8. ASSUME NEW c \in Conns, AskUser(c) PROVE Consent'
  BY <1>8 DEF AskUser, Goto
<1>9. ASSUME NEW c \in Conns, ParkAsk(c) PROVE Consent'
  BY <1>9 DEF ParkAsk, SaveAwaiting, Goto
<1>10. ASSUME NEW c \in Conns, EndTurn(c) PROVE Consent'
  BY <1>10 DEF EndTurn, InTurn, Goto
<1>11. ASSUME NEW c \in Conns, Unask(c) PROVE Consent'
  BY <1>11 DEF Unask, ClearPending, Goto
<1>12. ASSUME NEW c \in Conns, Approve(c) PROVE Consent'
  BY <1>12 DEF Approve, ClearPending, ReleaseSpendHold, Goto
<1>13. ASSUME NEW c \in Conns, Release(c) PROVE Consent'
  BY <1>13 DEF Release, ReleaseSpendHold, Goto
<1>14. ASSUME NEW c \in Conns, Clear(c) PROVE Consent'
  BY <1>14 DEF Clear, ClearPending, Goto
<1>15. ASSUME NEW c \in Conns, Gate(c) PROVE Consent'
  BY <1>15 DEF Gate, Goto
<1>16. ASSUME NEW c \in Conns, Pay(c) PROVE Consent'
  <2>1. shown' = shown /\ answers' = answers /\ job[c] \in Payment
    BY <1>16 DEF Pay, HoldsInv, Located, Paying
  <2>2. Agreed(job[c], shown, answers)
    BY <1>16 DEF Pay, JobsAgreed, AgreedJob
  <2>3. CASE ledger' = ledger
    BY <2>3, LedgerQuiet
  <2>4. CASE ledger' # ledger
    <3>1. PICK x \in Txs :
            ledger' = [ledger EXCEPT ![x] = [key |-> job[c].key, asked |-> job[c].asked]]
      BY <1>16, <2>4 DEF Pay
    <3>2. ASSUME NEW y \in Txs, ledger'[y] # NoTransfer
          PROVE  Agreed(ledger'[y], shown', answers')
      <4>1. CASE y = x
        <5>1. ledger'[y].key = job[c].key /\ ledger'[y].asked = job[c].asked
          BY <3>1, <4>1 DEF HoldsInv, TypeOK
        <5> QED BY <2>1, <2>2, <5>1 DEF Agreed
      <4>2. CASE y # x
        BY <2>1, <3>1, <3>2, <4>2 DEF Consent, HoldsInv, TypeOK
      <4> QED BY <4>1, <4>2
    <3> QED BY <3>2 DEF Consent
  <2> QED BY <2>3, <2>4
<1>17. ASSUME NEW c \in Conns, Record(c) PROVE Consent'
  BY <1>17 DEF Record, Goto
<1>18. ASSUME NEW c \in Conns, Commit(c) PROVE Consent'
  BY <1>18 DEF Commit, ReleaseSpendHold, Goto
<1>19. ASSUME NEW c \in Conns, Fail(c) PROVE Consent'
  BY <1>19 DEF Fail, ReleaseSpendHold, Goto
<1>20. ASSUME NEW c \in Conns, End(c) PROVE Consent'
  BY <1>20 DEF End, Close, Goto
<1>21. ASSUME NEW c \in Conns, Seal(c) PROVE Consent'
  BY <1>21 DEF Seal, Close
<1>22. ASSUME NEW c \in Conns, StrayRelease(c) PROVE Consent'
  BY <1>22 DEF StrayRelease, Close, ReleaseSpendHold
<1>23. ASSUME ToggleDlt PROVE Consent'
  BY <1>23 DEF ToggleDlt
<1>24. ASSUME ConfigChange PROVE Consent'
  BY <1>24 DEF ConfigChange
<1>25. ASSUME NEW x \in Txs, LeaveDay(x) PROVE Consent'
  BY <1>25 DEF LeaveDay
<1>26. ASSUME Restart PROVE Consent'
  BY <1>26 DEF Restart, Close, Live
<1>27. CASE UNCHANGED vars
  BY <1>27 DEF vars
<1> QED
  BY <1>1, <1>2, <1>3, <1>4, <1>5, <1>6, <1>7, <1>8, <1>9, <1>10, <1>11, <1>12, <1>13, <1>14,
     <1>15, <1>16, <1>17, <1>18, <1>19, <1>20, <1>21, <1>22, <1>23, <1>24, <1>25, <1>26, <1>27
  DEF Next, Environment, Arrive, Loop

\* ConsentInv is inductive: it holds at the start, and every step preserves it.
LEMMA ConsentInvInit == Init => ConsentInv
<1> SUFFICES ASSUME Init PROVE ConsentInv
  OBVIOUS
<1>1. HoldsInv
  BY HoldsInvInit
<1>2. Once /\ QuestionsNamed /\ JobsAgreed /\ Consent
  BY HoldsAssumption DEF Init, Once, QuestionsNamed, JobsAgreed, AgreedJob, Consent
<1> QED BY <1>1, <1>2 DEF ConsentInv

\* The step, from the lemmas above, one per conjunct.
LEMMA ConsentInvStep == ConsentInv /\ [Next]_vars => ConsentInv'
<1> SUFFICES ASSUME ConsentInv, [Next]_vars PROVE ConsentInv'
  OBVIOUS
<1>1. HoldsInv /\ HoldsInv' /\ Once'
  BY HoldsInvStep, OnceStep DEF ConsentInv
<1>2. HistoryGrows
  BY HistoryStep DEF ConsentInv
<1>3. QuestionsNamed'
  BY <1>1, <1>2, QuestionsStep DEF ConsentInv
<1>4. JobsAgreed' /\ Consent'
  BY <1>1, <1>2, JobsStep, LedgerStep DEF ConsentInv
<1> QED BY <1>1, <1>3, <1>4 DEF ConsentInv

\* No transfer without consent: below auto_under, or a "yes" to a question that named
\* this payee and amount, however chat, dashboard, rebuilds and crashes interleave.
THEOREM NoTransferWithoutConsent == Spec => []Consent
<1>1. ConsentInv => Consent
  BY DEF ConsentInv
<1> QED BY <1>1, ConsentInvInit, ConsentInvStep, PTL DEF Spec

-----------------------------------------------------------------------------
(***************************************************************************)
(* A question moves money at most as often as it was answered "yes", for   *)
(* any number of connections that answer it, through the chat and the      *)
(* dashboard at once, with rebuilds, crashes and lost receipts.            *)
(*                                                                         *)
(* The property counts, and so does the invariant: every "yes" is good for *)
(* one transfer, which its connection either still has ahead of it or has  *)
(* used up.                                                                *)
(***************************************************************************)

\* What a question has moved, who said yes to it, and who may still pay for it.
Moves(q) == {x \in Txs : ledger[x] # NoTransfer /\ ledger[x].asked = q}
\* The connections that said yes to q.
Yes(q) == {c \in Conns : answers[c] = [asked |-> q, reply |-> "yes"]}

\* Where a connection has a payment still ahead of it,
Ready == {"approve", "gate", "pay"}
\* and those that have the one of q.
Ahead(q) == {c \in Conns : pc[c] \in Ready /\ job[c].asked = q}

\* Finitely many have answered so far, although Conns may be infinite.
Covered(q) ==
  /\ IsFiniteSet(Yes(q)) /\ IsFiniteSet(Ahead(q))
  /\ Cardinality(Moves(q)) + Cardinality(Ahead(q)) <= Cardinality(Yes(q))

\* No question has more transfers, made or ahead, than answers.
EveryCovered == \A q \in Conns : Covered(q)

\* The counting invariant, with the places it counts.
PairedInv == HoldsInv /\ Once /\ EveryCovered

\* A step that moves, answers and readies nothing: d may leave Ready, or stay in it.
Calm(d) ==
  pc'[d] \in Ready /\ job'[d].asked # NoConn =>
    pc[d] \in Ready /\ job'[d].asked = job[d].asked

-----------------------------------------------------------------------------
\* The ledger is finite; what is finite has a natural number of elements.
LEMMA MovesFinite ==
  ASSUME NEW q \in Conns
  PROVE  /\ IsFiniteSet(Moves(q)) /\ Cardinality(Moves(q)) \in Nat
         /\ IsFiniteSet(Yes(q)) => Cardinality(Yes(q)) \in Nat
         /\ IsFiniteSet(Ahead(q)) => Cardinality(Ahead(q)) \in Nat
<1>1. IsFiniteSet(Moves(q))
  BY FS_Subset, HoldsAssumption DEF Moves
<1> QED BY <1>1, FS_CardinalityType

\* Fewer connections ahead, and nothing else changed: the count still covers.
LEMMA CalmStep ==
  ASSUME EveryCovered, ledger' = ledger,
         \A q \in Conns : Yes(q)' = Yes(q),
         \A d \in Conns : Calm(d)
  PROVE  EveryCovered'
<1> SUFFICES ASSUME NEW q \in Conns PROVE Covered(q)'
  BY DEF EveryCovered
<1>1. Moves(q)' = Moves(q) /\ Yes(q)' = Yes(q)
  BY DEF Moves
<1>2. Ahead(q)' \subseteq Ahead(q)
  BY HoldsAssumption DEF Ahead, Calm
<1>3. Covered(q)
  BY DEF EveryCovered
<1>4. IsFiniteSet(Ahead(q)') /\ Cardinality(Ahead(q)') <= Cardinality(Ahead(q))
  BY <1>2, <1>3, FS_Subset DEF Covered
<1>5. Cardinality(Ahead(q)') \in Nat
  BY <1>4, FS_CardinalityType
<1>6. /\ Cardinality(Moves(q)) \in Nat /\ Cardinality(Ahead(q)) \in Nat
      /\ Cardinality(Yes(q)) \in Nat
  BY <1>3, MovesFinite DEF Covered
<1>7. Cardinality(Moves(q)) + Cardinality(Ahead(q)') <= Cardinality(Yes(q))
  BY <1>3, <1>4, <1>5, <1>6 DEF Covered
<1> QED BY <1>1, <1>3, <1>4, <1>7 DEF Covered

\* A "yes" adds its connection to those who said yes and to those who may pay.
LEMMA YesStep ==
  ASSUME EveryCovered, NEW c \in Conns, NEW p \in Conns,
         pc[c] = "idle", answers[c] = NoAnswer, ledger' = ledger,
         answers' = [answers EXCEPT ![c] = [asked |-> p, reply |-> "yes"]],
         pc'[c] \in Ready, job'[c].asked = p,
         \A d \in Conns : d # c => pc'[d] = pc[d] /\ job'[d] = job[d],
         TypeOK
  PROVE  EveryCovered'
<1> SUFFICES ASSUME NEW q \in Conns PROVE Covered(q)'
  BY DEF EveryCovered
<1>1. Moves(q)' = Moves(q)
  BY DEF Moves
<1>2. c \notin Yes(q) /\ c \notin Ahead(q)
  <2>1. [asked |-> q, reply |-> "yes"] \in Answers
    BY DEF Answers, Replies
  <2> QED BY <2>1, HoldsAssumption DEF Yes, Ahead, Ready
<1>3. Covered(q)
  BY DEF EveryCovered
<1>4. /\ Cardinality(Moves(q)) \in Nat /\ Cardinality(Ahead(q)) \in Nat
      /\ Cardinality(Yes(q)) \in Nat
  BY <1>3, MovesFinite DEF Covered
<1>5. CASE p = q
  <2>1. Yes(q)' = Yes(q) \cup {c}
    BY <1>5 DEF Yes, TypeOK
  <2>2. Ahead(q)' = Ahead(q) \cup {c}
    BY <1>5 DEF Ahead
  <2>3. /\ IsFiniteSet(Yes(q)') /\ Cardinality(Yes(q)') = Cardinality(Yes(q)) + 1
        /\ IsFiniteSet(Ahead(q)') /\ Cardinality(Ahead(q)') = Cardinality(Ahead(q)) + 1
    BY <1>2, <1>3, <2>1, <2>2, FS_AddElement DEF Covered
  <2> QED BY <1>1, <1>3, <1>4, <2>3 DEF Covered
<1>6. CASE p # q
  <2>1. Yes(q)' = Yes(q)
    <3>1. [asked |-> p, reply |-> "yes"] # [asked |-> q, reply |-> "yes"]
      BY <1>6
    <3>2. answers[c] # [asked |-> q, reply |-> "yes"]
      BY <1>2 DEF Yes
    <3> QED BY <3>1, <3>2 DEF Yes, TypeOK
  <2>2. Ahead(q)' = Ahead(q)
    BY <1>2, <1>6 DEF Ahead
  <2> QED BY <1>1, <1>3, <2>1, <2>2 DEF Covered
<1> QED BY <1>5, <1>6

\* A "no" or a revision readies nobody.
LEMMA NoStep ==
  ASSUME EveryCovered, NEW c \in Conns, NEW p, NEW r \in Replies,
         r # "yes", answers[c] = NoAnswer, ledger' = ledger,
         answers' = [answers EXCEPT ![c] = [asked |-> p, reply |-> r]],
         \A d \in Conns : Calm(d),
         TypeOK
  PROVE  EveryCovered'
<1>1. ASSUME NEW q \in Conns PROVE Yes(q)' = Yes(q)
  <2>1. [asked |-> p, reply |-> r] # [asked |-> q, reply |-> "yes"]
    OBVIOUS
  <2>2. [asked |-> q, reply |-> "yes"] \in Answers
    BY DEF Answers, Replies
  <2>3. answers[c] # [asked |-> q, reply |-> "yes"]
    BY <2>2, HoldsAssumption
  <2> QED BY <2>1, <2>3 DEF Yes, TypeOK
<1> QED BY <1>1, CalmStep

\* A resume: the answered question stems from a connection, and c answers for the first
\* time.
LEMMA ResumeCovered ==
  ASSUME PairedInv, NEW c \in Conns, NEW t \in Tasks, NEW r \in Replies,
         pc[c] = "idle", status[t] = "awaiting_confirmation", Resume(c, t, r)
  PROVE  EveryCovered'
<1>1. TypeOK /\ EveryCovered /\ answers[c] = NoAnswer /\ ledger' = ledger
  BY DEF PairedInv, HoldsInv, Once, Resume, tasksTable, money
<1>2. \A d \in Conns : d # c => pc'[d] = pc[d] /\ job'[d] = job[d]
  BY <1>1 DEF Resume, Goto, TypeOK
<1>3. CASE pending[t] = AskPending
  <2>1. answers' = answers /\ job' = job /\ pc'[c] = "unask"
    BY <1>1, <1>3 DEF Resume, Goto, TypeOK
  <2>2. \A d \in Conns : Calm(d)
    BY <1>2, <2>1 DEF Calm, Ready
  <2>3. \A q \in Conns : Yes(q)' = Yes(q)
    BY <2>1 DEF Yes
  <2> QED BY <1>1, <2>2, <2>3, CalmStep
<1>4. CASE pending[t] # AskPending
  <2>1. pending[t].asked \in Conns
    BY <1>4 DEF PairedInv, HoldsInv, TypeOK, PendingIffAwaiting, Asked
  <2>2. /\ answers' = [answers EXCEPT ![c] = [asked |-> pending[t].asked, reply |-> r]]
        /\ job'[c] = pending[t]
        /\ pc'[c] = IF r = "yes" THEN "approve" ELSE "release"
    BY <1>1, <1>4 DEF Resume, Goto, TypeOK
  <2>3. CASE r = "yes"
    BY <1>1, <1>2, <2>1, <2>2, <2>3, YesStep DEF Ready
  <2>4. CASE r # "yes"
    <3>1. \A d \in Conns : Calm(d)
      BY <1>2, <2>2, <2>4 DEF Calm, Ready
    <3> QED BY <1>1, <2>2, <2>4, <3>1, NoStep
  <2> QED BY <2>3, <2>4
<1> QED BY <1>3, <1>4

\* The transfer takes the place of the connection that was about to make it.
LEMMA PayCovered ==
  ASSUME PairedInv, NEW c \in Conns, Pay(c)
  PROVE  EveryCovered'
<1>1. TypeOK /\ EveryCovered /\ job[c] \in Payment /\ pc[c] = "pay"
  BY DEF PairedInv, HoldsInv, Located, Paying, Pay
<1>2. answers' = answers /\ job' = job
  BY DEF Pay, history
<1>3. pc'[c] \notin Ready /\ \A d \in Conns : d # c => pc'[d] = pc[d]
  BY <1>1 DEF Pay, Goto, Ready, TypeOK
<1>4. \A q \in Conns : Yes(q)' = Yes(q)
  BY <1>2 DEF Yes
<1>5. CASE ledger' = ledger
  <2>1. \A d \in Conns : Calm(d)
    BY <1>2, <1>3 DEF Calm
  <2> QED BY <1>1, <1>4, <1>5, <2>1, CalmStep
<1>6. CASE ledger' # ledger
  <2>1. PICK x \in Txs :
          /\ ledger[x] = NoTransfer
          /\ ledger' = [ledger EXCEPT ![x] = [key |-> job[c].key, asked |-> job[c].asked]]
    BY <1>6 DEF Pay
  <2>2. ledger'[x] # NoTransfer /\ ledger'[x].asked = job[c].asked
    <3>1. [key |-> job[c].key, asked |-> job[c].asked] \in Transfer
      BY <1>1 DEF Payment, Transfer
    <3> QED BY <1>1, <2>1, <3>1, HoldsAssumption DEF TypeOK
  <2>3. \A y \in Txs : y # x => ledger'[y] = ledger[y]
    BY <1>1, <2>1 DEF TypeOK
  <2> SUFFICES ASSUME NEW q \in Conns PROVE Covered(q)'
    BY DEF EveryCovered
  <2>4. Covered(q)
    BY <1>1 DEF EveryCovered
  <2>5. /\ IsFiniteSet(Moves(q)) /\ Cardinality(Moves(q)) \in Nat
        /\ Cardinality(Ahead(q)) \in Nat /\ Cardinality(Yes(q)) \in Nat
    BY <2>4, MovesFinite DEF Covered
  <2>6. CASE job[c].asked = q
    <3>1. Moves(q)' = Moves(q) \cup {x} /\ x \notin Moves(q)
      BY <2>1, <2>2, <2>3, <2>6 DEF Moves
    <3>2. Ahead(q)' = Ahead(q) \ {c} /\ c \in Ahead(q)
      BY <1>1, <1>2, <1>3, <2>6 DEF Ahead, Ready
    <3>3. Cardinality(Moves(q)') = Cardinality(Moves(q)) + 1
      BY <2>5, <3>1, FS_AddElement
    <3>4. IsFiniteSet(Ahead(q)') /\ Cardinality(Ahead(q)') = Cardinality(Ahead(q)) - 1
      BY <2>4, <3>2, FS_RemoveElement DEF Covered
    <3> QED BY <1>4, <2>4, <2>5, <3>3, <3>4 DEF Covered
  <2>7. CASE job[c].asked # q
    <3>1. Moves(q)' = Moves(q)
      BY <2>1, <2>2, <2>3, <2>7 DEF Moves
    <3>2. Ahead(q)' = Ahead(q)
      BY <1>2, <1>3, <2>7 DEF Ahead
    <3> QED BY <1>4, <2>4, <3>1, <3>2 DEF Covered
  <2> QED BY <2>6, <2>7
<1> QED BY <1>5, <1>6

\* Every other step is calm: it moves nothing, answers nothing and readies nobody.
LEMMA CoveredStep ==
  ASSUME PairedInv, [Next]_vars
  PROVE  EveryCovered'
<1> DEFINE Nothing == ledger' = ledger /\ answers' = answers /\ \A d \in Conns : Calm(d)
<1>0. Nothing => EveryCovered'
  <2>1. answers' = answers => \A q \in Conns : Yes(q)' = Yes(q)
    BY DEF Yes
  <2> QED BY <2>1, CalmStep DEF PairedInv
<1> HIDE DEF Nothing
<1> USE HoldsAssumption
    DEF PairedInv, HoldsInv, TypeOK, Located, Working, Paying, PCs,
        tasksTable, money, world, local, history
<1>1. ASSUME NEW c \in Conns, NEW t \in Tasks, Start(c, t) PROVE EveryCovered'
  BY <1>0, <1>1 DEF Nothing, Calm, Ready, Start, Goto
<1>2. ASSUME NEW c \in Conns, NEW t \in Tasks, NEW r \in Replies, Answer(c, t, r)
  PROVE  EveryCovered'
  BY <1>2, ResumeCovered DEF Answer
<1>3. ASSUME NEW c \in Conns, NEW k \in Keys, ApproveHold(c, k) PROVE EveryCovered'
  BY <1>3, ResumeCovered DEF ApproveHold, Owns, Replies
<1>4. ASSUME NEW c \in Conns, NEW k \in Keys, ReleaseHold(c, k) PROVE EveryCovered'
  <2>1. CASE \E t \in Tasks : Owns(t, k) /\ Resume(c, t, "no")
    BY <1>4, <2>1, ResumeCovered DEF ReleaseHold, Owns, Replies
  <2>2. CASE \A t \in Tasks : ~Owns(t, k)
    BY <1>0, <1>4, <2>2 DEF Nothing, Calm, Ready, ReleaseHold, Goto
  <2> QED BY <1>4, <2>1, <2>2 DEF ReleaseHold
<1>5. ASSUME NEW c \in Conns, NEW k \in Keys, Propose(c, k) PROVE EveryCovered'
  BY <1>0, <1>5 DEF Nothing, Calm, Ready, Propose, InTurn, Admitted, Goto
<1>6. ASSUME NEW c \in Conns, NEW k \in Keys, Refuse(c, k) PROVE EveryCovered'
  BY <1>0, <1>6 DEF Nothing, Calm, Ready, Refuse, InTurn, Goto
<1>7. ASSUME NEW c \in Conns, ParkPayment(c) PROVE EveryCovered'
  BY <1>0, <1>7 DEF Nothing, Calm, Ready, ParkPayment, SaveAwaiting, Goto
<1>8. ASSUME NEW c \in Conns, AskUser(c) PROVE EveryCovered'
  BY <1>0, <1>8 DEF Nothing, Calm, Ready, AskUser, Goto
<1>9. ASSUME NEW c \in Conns, ParkAsk(c) PROVE EveryCovered'
  BY <1>0, <1>9 DEF Nothing, Calm, Ready, ParkAsk, SaveAwaiting, Goto
<1>10. ASSUME NEW c \in Conns, EndTurn(c) PROVE EveryCovered'
  BY <1>0, <1>10 DEF Nothing, Calm, Ready, EndTurn, InTurn, Goto
<1>11. ASSUME NEW c \in Conns, Unask(c) PROVE EveryCovered'
  BY <1>0, <1>11 DEF Nothing, Calm, Ready, Unask, ClearPending, Goto
<1>12. ASSUME NEW c \in Conns, Approve(c) PROVE EveryCovered'
  BY <1>0, <1>12 DEF Nothing, Calm, Ready, Approve, ClearPending, ReleaseSpendHold, Goto
<1>13. ASSUME NEW c \in Conns, Release(c) PROVE EveryCovered'
  BY <1>0, <1>13 DEF Nothing, Calm, Ready, Release, ReleaseSpendHold, Goto
<1>14. ASSUME NEW c \in Conns, Clear(c) PROVE EveryCovered'
  BY <1>0, <1>14 DEF Nothing, Calm, Ready, Clear, ClearPending, Goto
<1>15. ASSUME NEW c \in Conns, Gate(c) PROVE EveryCovered'
  BY <1>0, <1>15 DEF Nothing, Calm, Ready, Gate, Goto
<1>16. ASSUME NEW c \in Conns, Pay(c) PROVE EveryCovered'
  BY <1>16, PayCovered
<1>17. ASSUME NEW c \in Conns, Record(c) PROVE EveryCovered'
  BY <1>0, <1>17 DEF Nothing, Calm, Ready, Record, Goto
<1>18. ASSUME NEW c \in Conns, Commit(c) PROVE EveryCovered'
  BY <1>0, <1>18 DEF Nothing, Calm, Ready, Commit, ReleaseSpendHold, Goto
<1>19. ASSUME NEW c \in Conns, Fail(c) PROVE EveryCovered'
  BY <1>0, <1>19 DEF Nothing, Calm, Ready, Fail, ReleaseSpendHold, Goto
<1>20. ASSUME NEW c \in Conns, End(c) PROVE EveryCovered'
  BY <1>0, <1>20 DEF Nothing, Calm, Ready, End, Close, Goto
<1>21. ASSUME NEW c \in Conns, Seal(c) PROVE EveryCovered'
  BY <1>0, <1>21 DEF Nothing, Calm, Ready, Seal, Close
<1>22. ASSUME NEW c \in Conns, StrayRelease(c) PROVE EveryCovered'
  BY <1>0, <1>22 DEF Nothing, Calm, Ready, StrayRelease, Close, ReleaseSpendHold
<1>23. ASSUME ToggleDlt PROVE EveryCovered'
  BY <1>0, <1>23 DEF Nothing, Calm, Ready, ToggleDlt
<1>24. ASSUME ConfigChange PROVE EveryCovered'
  BY <1>0, <1>24 DEF Nothing, Calm, Ready, ConfigChange
<1>25. ASSUME NEW x \in Txs, LeaveDay(x) PROVE EveryCovered'
  BY <1>0, <1>25 DEF Nothing, Calm, Ready, LeaveDay
<1>26. ASSUME Restart PROVE EveryCovered'
  BY <1>0, <1>26 DEF Nothing, Calm, Ready, Restart, Close, Live
<1>27. CASE UNCHANGED vars
  BY <1>0, <1>27 DEF Nothing, Calm, vars
<1> QED
  BY <1>1, <1>2, <1>3, <1>4, <1>5, <1>6, <1>7, <1>8, <1>9, <1>10, <1>11, <1>12, <1>13, <1>14,
     <1>15, <1>16, <1>17, <1>18, <1>19, <1>20, <1>21, <1>22, <1>23, <1>24, <1>25, <1>26, <1>27
  DEF Next, Environment, Arrive, Loop

-----------------------------------------------------------------------------
\* At the start nobody has asked, answered or paid.
LEMMA PairedInvInit == Init => PairedInv
<1> SUFFICES ASSUME Init PROVE PairedInv
  OBVIOUS
<1>1. HoldsInv /\ Once
  BY HoldsInvInit, HoldsAssumption DEF Init, Once
<1>2. ASSUME NEW q \in Conns PROVE Covered(q)
  <2>1. [asked |-> q, reply |-> "yes"] \in Answers
    BY DEF Answers, Replies
  <2>2. Moves(q) = {} /\ Yes(q) = {} /\ Ahead(q) = {}
    BY <2>1, HoldsAssumption DEF Init, Moves, Yes, Ahead, Ready
  <2> QED BY <2>2, FS_EmptySet DEF Covered
<1> QED BY <1>1, <1>2 DEF PairedInv, EveryCovered

\* A question moves money at most as often as it was answered "yes", by chat and by
\* dashboard, whatever races, rebuilds, crashes and lost receipts there are.
THEOREM YesCountsOnce == Spec => []OneTransferPerYes
<1>1. PairedInv /\ [Next]_vars => PairedInv'
  BY HoldsInvStep, OnceStep, CoveredStep DEF PairedInv
<1>2. PairedInv => OneTransferPerYes
  <2> SUFFICES ASSUME PairedInv, NEW q \in Conns
               PROVE  Cardinality(Moves(q)) <= Cardinality(Yes(q))
    BY DEF OneTransferPerYes, Moves, Yes
  <2>1. Covered(q)
    BY DEF PairedInv, EveryCovered
  <2>2. /\ Cardinality(Moves(q)) \in Nat /\ Cardinality(Ahead(q)) \in Nat
        /\ Cardinality(Yes(q)) \in Nat
    BY <2>1, MovesFinite DEF Covered
  <2> QED BY <2>1, <2>2 DEF Covered
<1> QED BY <1>1, <1>2, PairedInvInit, PTL DEF Spec

-----------------------------------------------------------------------------
(***************************************************************************)
(* What holds of PaymentHolds when the client awaits an answer before it   *)
(* acts on the same task or payment again, whatever else goes wrong: each  *)
(* task has one handler, a sealed task stays sealed, a question moves      *)
(* money once, and, without a crash, no hold is left behind.               *)
(***************************************************************************)

\* A handler or a loop of the daemon works on t.
Attends(c, t) == pc[c] \in Working /\ task[c] = t

\* A task has one handler at a time, and none once it is done.
Solo == \A c, d \in Conns : pc[c] \in Working /\ pc[d] \in Working /\ task[c] = task[d] => c = d

\* Nobody works on a sealed task.
DoneLeft == \A c \in Conns : pc[c] \in Working => status[task[c]] # "done"

\* What a handler resumed is still what the row says; else the row holds no payment,
\* but for the question a loop has just saved.
Resuming == {"approve", "release", "clear", "refresh"}

\* A resumed handler has in hand what its row says, and no other handler finds a payment there.
RowInHand(c) ==
  /\ pc[c] \in Resuming =>
       /\ pending[task[c]] \in Payment
       /\ pending[task[c]].key = job[c].key /\ pending[task[c]].asked = job[c].asked
  /\ pc[c] \in Working \ (Resuming \cup {"end"}) => pending[task[c]] \notin Payment

\* Every handler reads its row and then writes it: nothing may come between the two.
RowsInHand == \A c \in Conns : RowInHand(c)

\* The invariant of a patient client: it adds to HoldsInv what makes a read row still true.
PatientInv == HoldsInv /\ Patient /\ Solo /\ DoneLeft /\ RowsInHand

-----------------------------------------------------------------------------
\* A connection that is left alone.
Same(c) == pc'[c] = pc[c] /\ task'[c] = task[c] /\ job'[c] = job[c] /\ txid'[c] = txid[c]

\* A handler comes to a task that nobody attends.
Enters(c, t) ==
  /\ pc[c] = "idle" /\ status[t] # "done" /\ status'[t] # "done"
  /\ \A d \in Conns : ~Attends(d, t) /\ (pc[d] = "stray" => job[d].key \notin Proposes[t])
  /\ task'[c] = t /\ pending' = pending /\ holds' = holds
  /\ pc'[c] \in {"turn", "unask", "approve", "release"}
  /\ \A u \in Tasks : u # t => status'[u] = status[u]
  /\ \A d \in Conns : d # c => Same(d)

\* A loop or handler touches its own task only.
Local(c) ==
  /\ pc[c] \in Working /\ task[c] \in Tasks
  /\ pc'[c] \in Working \cup {"closed"} /\ (pc'[c] # "closed" => task'[c] = task[c])
  /\ \A d \in Conns : d # c => Same(d)
  /\ \A u \in Tasks : u # task[c] => status'[u] = status[u] /\ pending'[u] = pending[u]

\* The tasks are left alone; a handler may close.
Apart ==
  /\ UNCHANGED tasksTable
  /\ \A d \in Conns : pc'[d] \in Working =>
       pc[d] = pc'[d] /\ task'[d] = task[d] /\ job'[d] = job[d]

\* A release of a key that nobody owns comes while nobody may propose it.
Strays(c) ==
  /\ \A t \in Tasks : ~Owns(t, job'[c].key)
  /\ Patient => QuietKey(job'[c].key)
  /\ \A d \in Conns : d # c => pc'[d] = pc[d]

\* All handlers go on as they are; a stray release may come or end.
Still ==
  /\ UNCHANGED tasksTable /\ holds' \subseteq holds
  /\ \A k \in holds \ holds' : \E c \in Conns : pc[c] = "stray" /\ job[c].key = k
  /\ \A d \in Conns : pc'[d] = "stray" => Strays(d) \/ (pc[d] = "stray" /\ job'[d] = job[d])
  /\ \A d \in Conns : pc[d] \in Working \/ pc'[d] \in Working => Same(d)

\* A step of a loop that has a task is local to it.
LEMMA LoopLocal ==
  ASSUME HoldsInv, NEW c \in Conns, Loop(c), pc[c] # "stray"
  PROVE  Local(c)
<1> USE DEF Local, Same, HoldsInv, TypeOK, Located, Working, PCs, tasksTable, money, world, local, history
<1>1. ASSUME NEW k \in Keys, Propose(c, k) \/ Refuse(c, k) PROVE Local(c)
  BY <1>1 DEF Propose, Refuse, InTurn, Goto
<1>2. CASE ParkPayment(c) \/ AskUser(c) \/ ParkAsk(c) \/ EndTurn(c)
  BY <1>2 DEF ParkPayment, AskUser, ParkAsk, EndTurn, InTurn, SaveAwaiting, Goto
<1>3. CASE Unask(c) \/ Approve(c) \/ Release(c) \/ Clear(c)
  BY <1>3 DEF Unask, Approve, Release, Clear, ClearPending, ReleaseSpendHold, Goto
<1>4. CASE Gate(c) \/ Pay(c) \/ Record(c) \/ Commit(c) \/ Fail(c)
  BY <1>4 DEF Gate, Pay, Record, Commit, Fail, ReleaseSpendHold, Goto
<1>5. CASE End(c) \/ Seal(c)
  BY <1>5 DEF End, Seal, Close, Goto
<1>6. ~StrayRelease(c)
  BY DEF StrayRelease
<1> QED BY <1>1, <1>2, <1>3, <1>4, <1>5, <1>6 DEF Loop

\* A resume finds its task unattended, as the client waited.
LEMMA ResumeEnters ==
  ASSUME HoldsInv, Patient, NEW c \in Conns, NEW t \in Tasks, NEW r \in Replies,
         pc[c] = "idle", status[t] = "awaiting_confirmation", Resume(c, t, r)
  PROVE  Enters(c, t)
  BY DEF Resume, Goto, Enters, Same, Attends, Quiet, Live, Working, HoldsInv, TypeOK, PCs, tasksTable

\* A connection that arrives either enters a task or releases a key without an owner.
LEMMA ArriveEnters ==
  ASSUME HoldsInv, Patient, NEW c \in Conns, Arrive(c)
  PROVE  Still \/ \E t \in Tasks : Enters(c, t)
<1>1. ASSUME NEW t \in Tasks, Start(c, t) PROVE Enters(c, t)
  BY <1>1 DEF Start, Goto, Enters, Same, Attends, Quiet, Live, Working, HoldsInv, TypeOK, PCs
<1>2. ASSUME NEW t \in Tasks, NEW r \in Replies, Answer(c, t, r) PROVE Enters(c, t)
  BY <1>2, ResumeEnters DEF Answer
<1>3. ASSUME NEW k \in Keys, ApproveHold(c, k) PROVE \E t \in Tasks : Enters(c, t)
  BY <1>3, ResumeEnters DEF ApproveHold, Owns, Replies
<1>4. ASSUME NEW k \in Keys, ReleaseHold(c, k) PROVE Still \/ \E t \in Tasks : Enters(c, t)
  <2>1. CASE \E t \in Tasks : Owns(t, k) /\ Resume(c, t, "no")
    BY <1>4, <2>1, ResumeEnters DEF ReleaseHold, Owns, Replies
  <2>2. CASE \A t \in Tasks : ~Owns(t, k)
    BY <1>4, <2>2 DEF ReleaseHold, Goto, Still, Same, Strays, Working, HoldsInv, TypeOK
  <2> QED BY <1>4, <2>1, <2>2 DEF ReleaseHold
<1> QED BY <1>1, <1>2, <1>3, <1>4 DEF Arrive

\* The environment, without a crash, and stray releases leave the handlers alone.
LEMMA OthersStill ==
  ASSUME HoldsInv, \/ ToggleDlt \/ ConfigChange \/ UNCHANGED vars
                   \/ \E x \in Txs : LeaveDay(x)
                   \/ \E c \in Conns : StrayRelease(c)
  PROVE  Still
<1> USE DEF Still, Same, Working, HoldsInv, TypeOK, tasksTable, local
<1>1. CASE ToggleDlt \/ ConfigChange \/ UNCHANGED vars
  BY <1>1 DEF ToggleDlt, ConfigChange, vars
<1>2. CASE \E x \in Txs : LeaveDay(x)
  BY <1>2 DEF LeaveDay
<1>3. CASE \E c \in Conns : StrayRelease(c)
  BY <1>3 DEF StrayRelease, ReleaseSpendHold, Close
<1> QED BY <1>1, <1>2, <1>3

\* Without a task there is only the release.
LEMMA StrayLoop ==
  ASSUME NEW c \in Conns, Loop(c), pc[c] = "stray"
  PROVE  StrayRelease(c)
  BY DEF Loop, Propose, Refuse, ParkPayment, AskUser, ParkAsk, EndTurn, InTurn, Unask, Approve,
         Release, Clear, Gate, Pay, Record, Commit, Fail, End, Seal

\* Every step comes to a free task, is the loop's or handler's own, leaves all as it is, or
\* is the end of all handlers.
LEMMA StepKinds ==
  ASSUME HoldsInv, Patient, [Next]_vars
  PROVE  \/ \E c \in Conns, t \in Tasks : Arrive(c) /\ Enters(c, t)
         \/ \E c \in Conns : Loop(c) /\ Local(c)
         \/ Still \/ Restart
<1>1. ASSUME NEW c \in Conns, Loop(c), pc[c] # "stray" PROVE Local(c)
  BY <1>1, LoopLocal
<1> QED BY <1>1, StrayLoop, ArriveEnters, OthersStill DEF Next, Environment

\* In the last two cases no row changes, and handlers may be gone.
LEMMA RestApart ==
  ASSUME HoldsInv, Still \/ Restart
  PROVE  Apart
  BY DEF Still, Same, Restart, Apart, Close, Live, Working, tasksTable, HoldsInv, TypeOK

\* Two handlers never get to one task.
LEMMA SoloStep ==
  ASSUME PatientInv, [Next]_vars
  PROVE  Solo'
<1>1. ASSUME NEW c \in Conns, NEW t \in Tasks, Enters(c, t) PROVE Solo'
  BY <1>1 DEF Enters, Same, Attends, PatientInv, Solo
<1>2. ASSUME NEW c \in Conns, Local(c) PROVE Solo'
  BY <1>2 DEF Local, Same, PatientInv, Solo, Working
<1>3. CASE Still \/ Restart
  BY <1>3, RestApart DEF Apart, PatientInv, Solo
<1> QED BY <1>1, <1>2, <1>3, StepKinds DEF PatientInv

\* Only seal_task makes a task done, and then its handler is gone.
LEMMA OwnStatus ==
  ASSUME HoldsInv, NEW c \in Conns, Loop(c), Local(c), pc'[c] \in Working,
         status[task[c]] # "done"
  PROVE  status'[task[c]] # "done"
<1> USE DEF Local, Same, HoldsInv, TypeOK, Located, Working, PCs, tasksTable, money, world, local, history
<1>1. ASSUME NEW k \in Keys, Propose(c, k) \/ Refuse(c, k) PROVE status' = status
  BY <1>1 DEF Propose, Refuse
<1>2. CASE ParkPayment(c) \/ AskUser(c) \/ ParkAsk(c) \/ EndTurn(c)
  BY <1>2 DEF ParkPayment, AskUser, ParkAsk, EndTurn, SaveAwaiting
<1>3. CASE Unask(c) \/ Approve(c) \/ Release(c) \/ Clear(c)
  BY <1>3 DEF Unask, Approve, Release, Clear, ClearPending
<1>4. CASE Gate(c) \/ Pay(c) \/ Record(c) \/ Commit(c) \/ Fail(c) \/ End(c)
  BY <1>4 DEF Gate, Pay, Record, Commit, Fail, End
<1>5. ~Seal(c) /\ ~StrayRelease(c)
  BY DEF Seal, StrayRelease, Close
<1> QED BY <1>1, <1>2, <1>3, <1>4, <1>5 DEF Loop

\* Nobody enters a sealed task, and who seals one leaves it.
LEMMA DoneLeftStep ==
  ASSUME PatientInv, [Next]_vars
  PROVE  DoneLeft'
<1> USE DEF PatientInv, Solo, DoneLeft
<1>1. ASSUME NEW c \in Conns, NEW t \in Tasks, Enters(c, t) PROVE DoneLeft'
  BY <1>1 DEF Enters, Same, Attends, HoldsInv, Located
<1>2. ASSUME NEW c \in Conns, Loop(c), Local(c) PROVE DoneLeft'
  BY <1>2, OwnStatus DEF Local, Same, HoldsInv, Located, Working
<1>3. CASE Still \/ Restart
  BY <1>3, RestApart DEF Apart, tasksTable
<1> QED BY <1>1, <1>2, <1>3, StepKinds

\* The row says what was resumed until approve_hold or release_hold clears it.
LEMMA OwnRow ==
  ASSUME HoldsInv, NEW c \in Conns, Loop(c), Local(c), RowInHand(c)
  PROVE  RowInHand(c)'
<1> USE HoldsAssumption DEF Local, Same, RowInHand, Resuming, HoldsInv, TypeOK, Located, Asked, Working, Paying,
        Payment, PCs, tasksTable, money, world, local, history
<1>1. ASSUME NEW k \in Keys, Propose(c, k) \/ Refuse(c, k) PROVE RowInHand(c)'
  BY <1>1 DEF Propose, Refuse, InTurn, Goto
<1>2. CASE ParkPayment(c) \/ AskUser(c) \/ ParkAsk(c) \/ EndTurn(c)
  BY <1>2 DEF ParkPayment, AskUser, ParkAsk, EndTurn, InTurn, SaveAwaiting, Goto
<1>3. CASE Unask(c) \/ Release(c) \/ Clear(c)
  BY <1>3 DEF Unask, Approve, Release, Clear, ClearPending, ReleaseSpendHold, Goto
<1>4. CASE Approve(c)
  BY <1>4 DEF Approve, ClearPending, ReleaseSpendHold, Goto
<1>5. CASE Gate(c) \/ Pay(c) \/ Record(c) \/ Commit(c) \/ Fail(c)
  BY <1>5 DEF Gate, Pay, Record, Commit, Fail, ReleaseSpendHold, Goto
<1>6. CASE End(c) \/ Seal(c)
  BY <1>6 DEF End, Seal, Close, Goto, PendingIffAwaiting
<1>7. ~StrayRelease(c)
  BY DEF StrayRelease
<1> QED BY <1>1, <1>2, <1>3, <1>4, <1>5, <1>6, <1>7 DEF Loop

\* A resumed handler has in hand what the row says.
LEMMA ResumeRow ==
  ASSUME HoldsInv, NEW c \in Conns, NEW t \in Tasks, NEW r \in Replies,
         status[t] = "awaiting_confirmation", Resume(c, t, r)
  PROVE  RowInHand(c)'
<1> USE HoldsAssumption DEF Resume, Goto, RowInHand, Resuming, HoldsInv, TypeOK, Working, PCs, tasksTable
<1>1. CASE pending[t] = AskPending
  BY <1>1
<1>2. CASE pending[t] # AskPending
  <2>1. pending[t] \in Payment
    BY <1>2 DEF PendingIffAwaiting
  <2> QED BY <1>2, <2>1
<1> QED BY <1>1, <1>2

\* So has every handler that arrives.
LEMMA ArriveRow ==
  ASSUME HoldsInv, NEW c \in Conns, NEW t \in Tasks, Arrive(c), Enters(c, t)
  PROVE  RowInHand(c)'
<1>1. ASSUME NEW u \in Tasks, Start(c, u) PROVE RowInHand(c)'
  BY <1>1, HoldsAssumption
  DEF Start, Goto, RowInHand, Resuming, Working, PCs, HoldsInv, TypeOK, PendingIffAwaiting
<1>2. ASSUME NEW u \in Tasks, NEW r \in Replies, Answer(c, u, r) PROVE RowInHand(c)'
  BY <1>2, ResumeRow DEF Answer
<1>3. ASSUME NEW k \in Keys, ApproveHold(c, k) PROVE RowInHand(c)'
  BY <1>3, ResumeRow DEF ApproveHold, Owns, Replies
<1>4. ASSUME NEW k \in Keys, ReleaseHold(c, k) PROVE RowInHand(c)'
  <2>1. CASE \E u \in Tasks : Owns(u, k) /\ Resume(c, u, "no")
    BY <2>1, ResumeRow DEF Owns, Replies
  <2>2. CASE \A u \in Tasks : ~Owns(u, k)
    BY <1>4, <2>2 DEF ReleaseHold, Goto, RowInHand, Resuming, Working, HoldsInv, TypeOK
  <2> QED BY <1>4, <2>1, <2>2 DEF ReleaseHold
<1> QED BY <1>1, <1>2, <1>3, <1>4 DEF Arrive

\* No other handler changes a row between its reading and its clearing.
LEMMA RowsInHandStep ==
  ASSUME PatientInv, [Next]_vars
  PROVE  RowsInHand'
<1> USE DEF PatientInv, RowsInHand
<1>1. ASSUME NEW c \in Conns, NEW t \in Tasks, Arrive(c), Enters(c, t) PROVE RowsInHand'
  <2>1. \A d \in Conns : d # c => RowInHand(d)'
    BY <1>1 DEF Enters, Same, RowInHand
  <2> QED BY <1>1, <2>1, ArriveRow
<1>2. ASSUME NEW c \in Conns, Loop(c), Local(c) PROVE RowsInHand'
  <2>1. \A d \in Conns : d # c => RowInHand(d)'
    <3> SUFFICES ASSUME NEW d \in Conns, d # c, pc[d] \in Working PROVE RowInHand(d)'
      BY <1>2 DEF Local, Same, RowInHand, Resuming, Working, PCs
    <3>1. task[d] # task[c] /\ task[d] \in Tasks
      BY <1>2 DEF Local, Same, Solo, HoldsInv, Located
    <3> QED BY <1>2, <3>1 DEF Local, Same, RowInHand
  <2> QED BY <1>2, <2>1, OwnRow
<1>3. CASE Still \/ Restart
  BY <1>3, RestApart DEF Apart, RowInHand, tasksTable, Resuming, Working, PCs
<1> QED BY <1>1, <1>2, <1>3, StepKinds

\* The invariant is inductive, part by part.
LEMMA PatientInvStep == PatientInv /\ [Next]_vars => PatientInv'
  BY HoldsInvStep, SoloStep, DoneLeftStep, RowsInHandStep DEF PatientInv

\* Before a connection arrives there is nothing to disagree about.
LEMMA PatientInvInit == Patient /\ Init => PatientInv
<1> SUFFICES ASSUME Patient, Init PROVE PatientInv
  OBVIOUS
<1>1. \A c \in Conns : pc[c] = "idle"
  BY DEF Init
<1> QED BY <1>1, HoldsInvInit DEF PatientInv, Solo, DoneLeft, RowsInHand, RowInHand, Resuming, Working

\* seal_task is final for a patient client: no resume, no late save of a question and no
\* clear_pending_action reaches the row of a sealed task, over any restarts.
THEOREM SealedNotReopened == Patient => (Spec => SealedStaysSealed)
<1> SUFFICES ASSUME Patient PROVE Spec => SealedStaysSealed
  OBVIOUS
<1>1. ASSUME PatientInv, [Next]_vars, NEW t \in Tasks, status[t] = "done" PROVE status'[t] = "done"
  <2>1. ASSUME NEW c \in Conns, NEW u \in Tasks, Enters(c, u) PROVE status'[t] = "done"
    BY <1>1, <2>1 DEF Enters, Same
  <2>2. ASSUME NEW c \in Conns, Local(c) PROVE status'[t] = "done"
    BY <1>1, <2>2 DEF Local, Same, PatientInv, DoneLeft
  <2>3. CASE Still \/ Restart
    BY <1>1, <2>3, RestApart DEF Apart, tasksTable, PatientInv
  <2> QED BY <1>1, <2>1, <2>2, <2>3, StepKinds DEF PatientInv
<1>2. PatientInv /\ [Next]_vars => [\A t \in Tasks : status[t] = "done" => status'[t] = "done"]_vars
  BY <1>1
<1>3. Init => PatientInv
  BY PatientInvInit
<1> QED BY <1>2, <1>3, PatientInvStep, PTL DEF Spec, SealedStaysSealed

-----------------------------------------------------------------------------
(***************************************************************************)
(* A question is in one place: in a row, in the hand of the loop that pays *)
(* for it, or on the ledger.                                               *)
(***************************************************************************)
\* The row of t holds the question q, named by the connection that asked it.
ParkedAs(t, q) == pending[t] \in Payment /\ pending[t].asked = q
\* A loop is about to pay for q.
PaidBy(c, q) == pc[c] \in {"gate", "pay"} /\ job[c].asked = q
\* A transfer was made for q.
MovedFor(x, q) == ledger[x] # NoTransfer /\ ledger[x].asked = q

\* The three places exclude each other, and q is once in each.
OnePlace(q) ==
  /\ \A t, u \in Tasks : ParkedAs(t, q) /\ ParkedAs(u, q) => t = u
  /\ \A c, d \in Conns : PaidBy(c, q) /\ PaidBy(d, q) => c = d
  /\ \A x, y \in Txs : MovedFor(x, q) /\ MovedFor(y, q) => x = y
  /\ \A t \in Tasks, c \in Conns : ~(ParkedAs(t, q) /\ PaidBy(c, q))
  /\ \A t \in Tasks, x \in Txs : ~(ParkedAs(t, q) /\ MovedFor(x, q))
  /\ \A c \in Conns, x \in Txs : ~(PaidBy(c, q) /\ MovedFor(x, q))

\* Consent is needed too: a connection that has asked nothing has no question anywhere.
QuestionInv == ConsentInv /\ PatientInv /\ \A q \in Conns : OnePlace(q)

\* Nothing comes to a place of q.
Fades(q) ==
  /\ \A t \in Tasks : ParkedAs(t, q)' => ParkedAs(t, q)
  /\ \A c \in Conns : PaidBy(c, q)' => PaidBy(c, q)
  /\ \A x \in Txs : MovedFor(x, q)' => MovedFor(x, q)

\* What only leaves its place stays in one place at most.
LEMMA FadesKeeps == ASSUME NEW q \in Conns, OnePlace(q), Fades(q) PROVE OnePlace(q)'
  BY DEF OnePlace, Fades

\* A question that has not been asked is nowhere.
LEMMA Unasked ==
  ASSUME ConsentInv, NEW q \in Conns, shown[q] = NoKey
  PROVE  /\ \A t \in Tasks : ~ParkedAs(t, q)
         /\ \A c \in Conns : ~PaidBy(c, q)
         /\ \A x \in Txs : ~MovedFor(x, q)
<1>1. ASSUME NEW t \in Tasks, ParkedAs(t, q) PROVE FALSE
  BY <1>1, HoldsAssumption DEF ParkedAs, ConsentInv, QuestionsNamed, Named, Payment
<1>2. ASSUME NEW c \in Conns, PaidBy(c, q) PROVE FALSE
  BY <1>2, HoldsAssumption
  DEF PaidBy, ConsentInv, HoldsInv, Located, Paying, JobsAgreed, AgreedJob, Agreed, Payment
<1>3. ASSUME NEW x \in Txs, MovedFor(x, q) PROVE FALSE
  <2>1. ledger[x] \in Transfer
    BY <1>3 DEF MovedFor, ConsentInv, HoldsInv, TypeOK
  <2> QED BY <1>3, <2>1, HoldsAssumption DEF MovedFor, ConsentInv, Consent, Agreed, Transfer
<1> QED BY <1>1, <1>2, <1>3

\* A new question is in its row and nowhere else.
LEMMA ParkPlaces ==
  ASSUME QuestionInv, NEW c \in Conns, ParkPayment(c), NEW q \in Conns
  PROVE  OnePlace(q)'
<1>1. /\ TypeOK /\ task[c] \in Tasks /\ shown[c] = NoKey /\ OnePlace(q)
      /\ pending' = [pending EXCEPT ![task[c]] = [job[c] EXCEPT !.asked = c]]
      /\ job[c] \in Payment /\ ledger' = ledger /\ job' = job
      /\ \A d \in Conns : pc'[d] \in {"gate", "pay"} => pc[d] = pc'[d]
  BY DEF QuestionInv, ConsentInv, HoldsInv, TypeOK, Located, Working, Paying, PCs, Once, ParkPayment,
         SaveAwaiting, Goto, local, money
<1>2. [job[c] EXCEPT !.asked = c].asked = c
  BY <1>1 DEF Payment
<1>3. CASE q # c
  <2>1. \A t \in Tasks : ParkedAs(t, q)' => ParkedAs(t, q)
    BY <1>1, <1>2, <1>3 DEF ParkedAs, TypeOK
  <2> QED BY <1>1, <2>1, FadesKeeps DEF Fades, PaidBy, MovedFor
<1>4. CASE q = c
  <2>1. /\ \A t \in Tasks : ~ParkedAs(t, q)
        /\ \A d \in Conns : ~PaidBy(d, q)
        /\ \A x \in Txs : ~MovedFor(x, q)
    BY <1>1, <1>4, Unasked DEF QuestionInv
  <2>2. /\ \A t \in Tasks : ParkedAs(t, q)' => t = task[c]
        /\ \A d \in Conns : ~PaidBy(d, q)'
        /\ \A x \in Txs : ~MovedFor(x, q)'
    BY <1>1, <2>1 DEF ParkedAs, PaidBy, MovedFor, TypeOK
  <2> QED BY <2>2 DEF OnePlace
<1> QED BY <1>3, <1>4

\* A question that is approved goes from the row to the loop.
LEMMA ApprovePlaces ==
  ASSUME QuestionInv, NEW c \in Conns, Approve(c), NEW q \in Conns
  PROVE  OnePlace(q)'
<1>1. /\ TypeOK /\ task[c] \in Tasks /\ job[c] \in Payment /\ OnePlace(q)
      /\ ledger' = ledger /\ pc[c] = "approve"
      /\ pending[task[c]] \in Payment /\ pending[task[c]].asked = job[c].asked
      /\ job'[c].asked = job[c].asked
      /\ \A d \in Conns : d # c => pc'[d] = pc[d] /\ job'[d] = job[d]
  BY DEF QuestionInv, ConsentInv, PatientInv, RowsInHand, RowInHand, Resuming, HoldsInv, TypeOK,
         Located, Working, Paying, PCs, Approve, Goto, Payment, money
<1>2. CASE pc'[c] # "gate"
  <2>1. pending' = pending /\ pc'[c] # "pay"
    BY <1>1, <1>2 DEF Approve, Goto, TypeOK, tasksTable
  <2>2. Fades(q)
    BY <1>1, <1>2, <2>1 DEF Fades, ParkedAs, PaidBy, MovedFor
  <2> QED BY <1>1, <2>2, FadesKeeps
<1>3. CASE pc'[c] = "gate"
  <2>1. pending' = [pending EXCEPT ![task[c]] = NoPending]
    BY <1>1, <1>3 DEF Approve, Goto, TypeOK, ClearPending
  <2>2. /\ \A t \in Tasks : ParkedAs(t, q)' => ParkedAs(t, q) /\ t # task[c]
        /\ \A d \in Conns : PaidBy(d, q)' => PaidBy(d, q) \/ (d = c /\ ParkedAs(task[c], q))
        /\ \A x \in Txs : MovedFor(x, q)' => MovedFor(x, q)
    <3>1. \A t \in Tasks : ParkedAs(t, q)' => ParkedAs(t, q) /\ t # task[c]
      BY <1>1, <2>1, HoldsAssumption DEF ParkedAs, TypeOK
    <3>2. \A d \in Conns : PaidBy(d, q)' => PaidBy(d, q) \/ (d = c /\ ParkedAs(task[c], q))
      BY <1>1 DEF ParkedAs, PaidBy
    <3> QED BY <1>1, <3>1, <3>2 DEF MovedFor
  <2> QED BY <1>1, <2>2 DEF OnePlace
<1> QED BY <1>2, <1>3

\* A question that is paid for goes from the loop to the ledger.
LEMMA PayPlaces ==
  ASSUME QuestionInv, NEW c \in Conns, Pay(c), NEW q \in Conns
  PROVE  OnePlace(q)'
<1>1. /\ TypeOK /\ OnePlace(q) /\ pending' = pending /\ job' = job
      /\ pc[c] = "pay" /\ pc'[c] \in {"fail", "record"}
      /\ \A d \in Conns : d # c => pc'[d] = pc[d]
      /\ job[c] \in Payment
  BY DEF QuestionInv, ConsentInv, HoldsInv, TypeOK, Located, Paying, Pay, Goto, tasksTable
<1>2. CASE ledger' = ledger
  BY <1>1, <1>2, FadesKeeps DEF Fades, ParkedAs, PaidBy, MovedFor
<1>3. CASE ledger' # ledger
  <2>1. PICK x \in Txs : ledger' = [ledger EXCEPT ![x] = [key |-> job[c].key, asked |-> job[c].asked]]
    BY <1>1, <1>3 DEF Pay
  <2>2. /\ \A t \in Tasks : ParkedAs(t, q)' => ParkedAs(t, q)
        /\ \A d \in Conns : PaidBy(d, q)' => PaidBy(d, q) /\ d # c
        /\ \A y \in Txs : MovedFor(y, q)' => MovedFor(y, q) \/ (y = x /\ PaidBy(c, q))
    <3>1. \A y \in Txs : MovedFor(y, q)' => MovedFor(y, q) \/ (y = x /\ job[c].asked = q)
      BY <2>1, <1>1 DEF MovedFor, TypeOK
    <3> QED BY <1>1, <3>1 DEF ParkedAs, PaidBy
  <2> QED BY <1>1, <2>2 DEF OnePlace
<1> QED BY <1>2, <1>3

\* No other step of a loop brings a question anywhere.
LEMMA LoopPlaces ==
  ASSUME QuestionInv, NEW c \in Conns, Loop(c), NEW q \in Conns
  PROVE  OnePlace(q)'
<1>0. OnePlace(q)
  BY DEF QuestionInv
<1> USE HoldsAssumption
    DEF QuestionInv, ConsentInv, HoldsInv, TypeOK, Fades, ParkedAs, PaidBy, MovedFor,
        tasksTable, money, local
<1>1. ASSUME NEW k \in Keys, Propose(c, k) \/ Refuse(c, k) PROVE Fades(q)
  BY <1>1 DEF Propose, Refuse, InTurn, Goto
<1>2. CASE AskUser(c) \/ ParkAsk(c) \/ EndTurn(c)
  BY <1>2, FadesKeeps, <1>0 DEF AskUser, ParkAsk, EndTurn, InTurn, SaveAwaiting, Goto
<1>3. CASE Unask(c) \/ Release(c) \/ Clear(c)
  BY <1>3, FadesKeeps, <1>0 DEF Unask, Release, Clear, ClearPending, Goto
<1>4. CASE Gate(c) \/ Record(c) \/ Commit(c) \/ Fail(c)
  BY <1>4, FadesKeeps, <1>0 DEF Gate, Record, Commit, Fail, Goto
<1>5. CASE End(c) \/ Seal(c) \/ StrayRelease(c)
  BY <1>5, FadesKeeps, <1>0 DEF End, Seal, StrayRelease, Close, Goto
<1> QED BY <1>0, <1>1, <1>2, <1>3, <1>4, <1>5, FadesKeeps, ParkPlaces, ApprovePlaces, PayPlaces DEF Loop

\* A resume has yet to approve: it moves no question.
LEMMA ResumeFades ==
  ASSUME QuestionInv, NEW c \in Conns, NEW t \in Tasks, NEW r \in Replies, Resume(c, t, r),
         NEW q \in Conns
  PROVE  Fades(q)
  BY DEF QuestionInv, ConsentInv, HoldsInv, TypeOK, Fades, ParkedAs, PaidBy, MovedFor,
         tasksTable, money, Resume, Goto

\* Nor does any other arrival.
LEMMA ArrivePlaces ==
  ASSUME QuestionInv, NEW c \in Conns, Arrive(c), NEW q \in Conns
  PROVE  OnePlace(q)'
<1> USE DEF QuestionInv, ConsentInv, HoldsInv, TypeOK, Fades, ParkedAs, PaidBy, MovedFor,
            tasksTable, money
<1>1. ASSUME NEW t \in Tasks, Start(c, t) PROVE Fades(q)
  BY <1>1 DEF Start, Goto
<1>2. ASSUME NEW k \in Keys, \A t \in Tasks : ~Owns(t, k), ReleaseHold(c, k) PROVE Fades(q)
  BY <1>2 DEF ReleaseHold, Goto
<1>3. Fades(q)
  BY <1>1, <1>2, ResumeFades DEF Arrive, Answer, ApproveHold, ReleaseHold, Replies
<1> QED BY <1>3, FadesKeeps

\* A question stays in one place, whoever steps.
LEMMA PlacesStep ==
  ASSUME QuestionInv, [Next]_vars, NEW q \in Conns
  PROVE  OnePlace(q)'
<1>1. CASE Environment \/ UNCHANGED vars
  <2> USE DEF Fades, ParkedAs, PaidBy, MovedFor, tasksTable, money, local
  <2>1. ASSUME ToggleDlt \/ ConfigChange \/ UNCHANGED vars PROVE Fades(q)
    BY <2>1 DEF ToggleDlt, ConfigChange, vars
  <2>2. ASSUME NEW x \in Txs, LeaveDay(x) PROVE Fades(q)
    BY <2>2 DEF LeaveDay
  <2>3. ASSUME Restart PROVE Fades(q)
    BY <2>3 DEF Restart, Close
  <2>4. Fades(q)
    BY <1>1, <2>1, <2>2, <2>3 DEF Environment
  <2> QED BY <2>4, FadesKeeps DEF QuestionInv
<1> QED BY <1>1, LoopPlaces, ArrivePlaces DEF Next

\* One question moves money once for a patient client, over any crashes, lost receipts, skill
\* rebuilds and keys shared between tasks.
THEOREM QuestionPaidOnce == Patient => (Spec => []OneTransferPerQuestion)
<1> SUFFICES ASSUME Patient PROVE Spec => []OneTransferPerQuestion
  OBVIOUS
<1>1. Init => QuestionInv
  <2> SUFFICES ASSUME Init PROVE QuestionInv
    OBVIOUS
  <2>1. ConsentInv /\ PatientInv
    BY ConsentInvInit, PatientInvInit
  <2>2. \A q \in Conns : shown[q] = NoKey
    BY DEF Init
  <2>3. \A q \in Conns : OnePlace(q)
    BY <2>1, <2>2, Unasked DEF OnePlace
  <2> QED BY <2>1, <2>3 DEF QuestionInv
<1>2. QuestionInv /\ [Next]_vars => QuestionInv'
  <2> SUFFICES ASSUME QuestionInv, [Next]_vars PROVE QuestionInv'
    OBVIOUS
  <2>1. ConsentInv' /\ PatientInv'
    BY ConsentInvStep, PatientInvStep DEF QuestionInv
  <2> QED BY <2>1, PlacesStep DEF QuestionInv
<1>3. QuestionInv => OneTransferPerQuestion
  <2> SUFFICES ASSUME QuestionInv, NEW x \in Txs, NEW y \in Txs,
                      ledger[x] # NoTransfer, ledger[y] # NoTransfer,
                      ledger[x].asked = ledger[y].asked, ledger[x].asked # NoConn
               PROVE  x = y
    BY DEF OneTransferPerQuestion
  <2>1. ledger[x] \in Transfer
    BY DEF QuestionInv, ConsentInv, HoldsInv, TypeOK
  <2>2. ledger[x].asked \in Conns
    BY <2>1 DEF Transfer
  <2> QED BY <2>2 DEF QuestionInv, OnePlace, MovedFor
<1> QED BY <1>1, <1>2, <1>3, PTL DEF Spec

-----------------------------------------------------------------------------
(***************************************************************************)
(* Holds have somebody to end them.                                        *)
(***************************************************************************)
Holding == {"park", "gate", "pay", "record", "commit", "fail"}

\* The question of t accounts for its hold until its handler has released it.
Accounts(t, k) ==
  /\ pending[t] \in Payment /\ pending[t].key = k
  /\ \A c \in Conns : Attends(c, t) => pc[c] # "clear"

\* A hold has a row or a loop that will end it.
HeldFor(k) ==
  \/ \E t \in Tasks : Accounts(t, k)
  \/ \E c \in Conns : pc[c] \in Holding /\ job[c].key = k

\* A crash ends loops and leaves their holds, so the invariant is for a daemon that stays up.
HeldInv == PatientInv /\ MaxRestarts = 0 /\ \A k \in holds : HeldFor(k)

\* A loop ends the holds it lets go of, and keeps its row or its payment for the others.
LEMMA LoopHeld ==
  ASSUME HeldInv, NEW c \in Conns, Loop(c), Local(c), NEW k \in holds'
  PROVE  HeldFor(k)'
<1>1. CASE \E t \in Tasks : t # task[c] /\ Accounts(t, k)
  BY <1>1 DEF Accounts, Local, Same, Attends, HeldFor
<1>2. CASE \E d \in Conns : d # c /\ pc[d] \in Holding /\ job[d].key = k
  BY <1>2 DEF Local, Same, HeldFor
<1> USE HoldsAssumption
    DEF Local, Same, HeldInv, PatientInv, Solo, RowsInHand, RowInHand, Resuming, HoldsInv, TypeOK, Located,
        Working, Paying, Payment, PCs, tasksTable, money, world, local, history
<1>3. CASE k \notin holds
  <2>1. ASSUME NEW j \in Keys, Propose(c, j) PROVE pc'[c] \in Holding /\ job'[c].key = k
    BY <2>1, <1>3 DEF Propose, Goto, Holding
  <2>2. ASSUME ~\E j \in Keys : Propose(c, j) PROVE holds' \subseteq holds
    BY <2>2 DEF Loop, Refuse, ParkPayment, AskUser, ParkAsk, EndTurn, Unask, Approve, Release, Clear,
      Gate, Pay, Record, Commit, Fail, End, Seal, StrayRelease, ReleaseSpendHold
  <2> QED BY <1>3, <2>1, <2>2 DEF HeldFor
<1>4. \A d \in Conns : d # c => ~(pc'[d] \in Working /\ task'[d] = task[c])
  OBVIOUS
<1>5. CASE Accounts(task[c], k) /\ pc[c] \in Working
  <2>1. /\ pending[task[c]] \in Payment /\ pending[task[c]].key = k /\ pc[c] # "clear"
        /\ pc[c] \in {"approve", "release", "refresh", "end"}
        /\ pc[c] # "end" => job[c].key = k
    BY <1>5 DEF Accounts, Attends
  <2>2. CASE Approve(c)
    BY <1>4, <2>1, <2>2 DEF Approve, ReleaseSpendHold, ClearPending, Goto, HeldFor, Accounts, Attends, Holding
  <2>3. CASE ParkPayment(c)
    BY <1>4, <2>1, <2>3 DEF ParkPayment, SaveAwaiting, Goto, HeldFor, Accounts, Attends
  <2>4. CASE End(c)
    BY <1>4, <2>1, <2>4 DEF End, Close, Goto, HeldFor, Accounts, Attends
  <2>5. ~Release(c)
    BY <2>1 DEF Release, ReleaseSpendHold
  <2> QED BY <2>1, <2>2, <2>3, <2>4, <2>5 DEF Loop, Propose, Refuse, AskUser, ParkAsk, EndTurn, InTurn,
       Unask, Clear, Gate, Pay, Record, Commit, Fail, Seal, StrayRelease
<1>6. CASE pc[c] \in Holding /\ job[c].key = k
  <2>1. CASE ParkPayment(c)
    BY <1>4, <1>6, <2>1 DEF ParkPayment, SaveAwaiting, Goto, HeldFor, Accounts, Attends, Holding
  <2>2. CASE Gate(c) \/ Pay(c) \/ Record(c)
    BY <1>6, <2>2 DEF Gate, Pay, Record, Goto, HeldFor, Holding
  <2>3. ~Commit(c) /\ ~Fail(c)
    BY <1>6 DEF Commit, Fail, ReleaseSpendHold
  <2> QED BY <1>6, <2>1, <2>2, <2>3 DEF Holding, Loop, Propose, Refuse, AskUser, ParkAsk, EndTurn, InTurn,
       Unask, Approve, Release, Clear, End, Seal, StrayRelease
<1> QED BY <1>1, <1>2, <1>3, <1>5, <1>6 DEF HeldFor

\* Who lets go of a hold has handed it to a row, or deletes it.
LEMMA HeldInvStep == HeldInv /\ [Next]_vars => HeldInv'
<1> SUFFICES ASSUME HeldInv, [Next]_vars PROVE HeldInv'
  OBVIOUS
<1>1. PatientInv /\ PatientInv' /\ ~Restart
  BY PatientInvStep, HoldsAssumption DEF HeldInv, Restart, PatientInv, HoldsInv, TypeOK
<1>2. ASSUME NEW c \in Conns, NEW t \in Tasks, Enters(c, t), NEW k \in holds' PROVE HeldFor(k)'
  BY <1>2 DEF HeldInv, Enters, Same, HeldFor, Accounts, Attends, Holding
<1>3. ASSUME Still, NEW k \in holds' PROVE HeldFor(k)'
  BY <1>3 DEF HeldInv, Still, Same, HeldFor, Accounts, Attends, Holding, Working, PCs, tasksTable
<1>4. \A k \in holds' : HeldFor(k)'
  BY <1>1, <1>2, <1>3, LoopHeld, StepKinds DEF PatientInv
<1> QED BY <1>1, <1>4 DEF HeldInv

\* While the daemon stays up nothing squats on the budget: every hold has a row or a loop in
\* whose hand its payment is, through failures, refused approvals and rebuilt skills.
THEOREM HoldsAccounted == Patient /\ MaxRestarts = 0 => (Spec => []NoOrphanHold)
<1> SUFFICES ASSUME Patient, MaxRestarts = 0 PROVE Spec => []NoOrphanHold
  OBVIOUS
<1>1. Init => HeldInv
  BY PatientInvInit DEF HeldInv, Init
<1>2. HeldInv => NoOrphanHold
  BY DEF HeldInv, HeldFor, Accounts, NoOrphanHold, Holding, Live, Paying, PatientInv, HoldsInv, Located
<1> QED BY <1>1, <1>2, HeldInvStep, PTL DEF Spec

-----------------------------------------------------------------------------
(***************************************************************************)
(* The day's cap over confirmed payments, for any numbers of tasks,        *)
(* connections, keys and transactions and for any amounts: a parked        *)
(* payment stays reserved, the tables and loops implement DailyBudget, and *)
(* the ledger therefore never moves more in a day than the cap.            *)
(***************************************************************************)

\* The client is patient, no skill is rebuilt, the daemon does not crash, and no two tasks
\* may pay one payee the same amount.
CarefulDay ==
  /\ Patient /\ MaxRestarts = 0 /\ MaxConfig = 0
  /\ \A t, u \in Tasks : t # u => Proposes[t] \cap Proposes[u] = {}

\* A release of a key without an owner is never under way while a loop might take that key.
StraysAlone ==
  \A c, d \in Conns : pc[c] = "stray" /\ Live(d) /\ c # d =>
    pc[d] \in Working /\ job[c].key \notin Proposes[task[d]]

\* A stray release may hit the hold of a question only where the row's key cannot be found.
StraysMiss ==
  \A c \in Conns, t \in Tasks :
    pc[c] = "stray" /\ pending[t] \in Payment /\ pending[t].key = job[c].key => job[c].key \in Unmatched

\* Each task deals with the keys it may propose.
JobOwned(c) == pc[c] \in Resuming \cup Holding => job[c].key \in Proposes[task[c]]
\* So does each row.
RowOwned(t) == pending[t] \in Payment => pending[t].key \in Proposes[t]

\* The hold of a question is there until its handler clears, and then until the payment ends.
RowKept(t) ==
  pending[t] \in Payment /\ (\A c \in Conns : Attends(c, t) => pc[c] # "clear") =>
    pending[t].key \in holds \cup Unmatched

\* A loop keeps its hold from the proposal to the end of the payment, and no skill changes.
JobKept(c) ==
  /\ pc[c] # "refresh"
  /\ pc[c] \in {"park", "gate"} => job[c].key \in holds \cup Unmatched
  /\ pc[c] \in {"pay", "record", "commit"} => job[c].key \in holds

\* What is inductive on a careful day.
CareInv ==
  /\ PatientInv /\ CarefulDay /\ StraysAlone /\ StraysMiss
  /\ \A c \in Conns : JobOwned(c) /\ JobKept(c)
  /\ \A t \in Tasks : RowOwned(t) /\ RowKept(t)

-----------------------------------------------------------------------------
\* A loop releases nobody's hold but its own.
LEMMA OwnHold ==
  ASSUME HoldsInv, NEW c \in Conns, Loop(c), Local(c), NEW k \in holds \ holds'
  PROVE  pc[c] \in Resuming \cup Holding /\ job[c].key = k
  BY DEF Loop, Propose, Refuse, ParkPayment, AskUser, ParkAsk, EndTurn, Unask, Approve, Release, Clear,
      Gate, Pay, Record, Commit, Fail, End, Seal, StrayRelease, ReleaseSpendHold, Resuming, Holding,
      Local, Same, Working

\* A loop keeps to the keys of its task, and keeps their hold.
LEMMA OwnJob ==
  ASSUME CareInv, NEW c \in Conns, Loop(c), Local(c), NEW t \in Tasks, t = task[c]
  PROVE  JobOwned(c)' /\ JobKept(c)' /\ RowOwned(t)'
<1> USE HoldsAssumption
    DEF Local, Same, CareInv, PatientInv, Solo, RowsInHand, RowInHand, Resuming, Holding, HoldsInv, TypeOK,
        Located, Working, Paying, Payment, PCs, tasksTable, money, world, local, history,
        JobOwned, JobKept, RowOwned, CarefulDay
<1>1. ASSUME NEW k \in Keys, Propose(c, k) \/ Refuse(c, k)
      PROVE JobOwned(c)' /\ JobKept(c)' /\ RowOwned(t)'
  BY <1>1 DEF Propose, Refuse, InTurn, Goto
<1>2. CASE ParkPayment(c) \/ AskUser(c) \/ ParkAsk(c) \/ EndTurn(c)
  <2>1. CASE ParkPayment(c)
    BY <1>2, <2>1 DEF ParkPayment, SaveAwaiting, Goto
  <2>2. CASE AskUser(c) \/ ParkAsk(c) \/ EndTurn(c)
    BY <2>2 DEF AskUser, ParkAsk, EndTurn, InTurn, SaveAwaiting, Goto
  <2> QED BY <1>2, <2>1, <2>2
<1>3. CASE Unask(c) \/ Release(c) \/ Clear(c)
  BY <1>3 DEF Unask, Release, Clear, ClearPending, ReleaseSpendHold, Goto
<1>4. CASE Approve(c)
  <2>1. job[c].config = config
    BY <1>4 DEF Approve
  <2>2. job[c].key \in holds \cup Unmatched
    BY <1>4 DEF Approve, RowKept, Attends
  <2> QED BY <1>4, <2>1, <2>2 DEF Approve, ClearPending, ReleaseSpendHold, Goto
<1>5. CASE Gate(c) \/ Pay(c) \/ Record(c) \/ Commit(c) \/ Fail(c)
  BY <1>5 DEF Gate, Pay, Record, Commit, Fail, ReleaseSpendHold, Goto
<1>6. CASE End(c) \/ Seal(c)
  BY <1>6 DEF End, Seal, Close, Goto
<1>7. ~StrayRelease(c)
  BY DEF StrayRelease
<1> QED BY <1>1, <1>2, <1>3, <1>4, <1>5, <1>6, <1>7 DEF Loop

\* The row of its task keeps its hold until it is cleared.
LEMMA OwnRowKept ==
  ASSUME CareInv, NEW c \in Conns, Loop(c), Local(c), NEW t \in Tasks, t = task[c]
  PROVE  RowKept(t)'
<1> SUFFICES ASSUME pending'[t] \in Payment, pc'[c] \in Working => pc'[c] # "clear"
             PROVE  pending'[t].key \in holds' \cup Unmatched
  BY DEF RowKept, Attends, Local, Same, Working
<1> USE HoldsAssumption
    DEF Local, Same, CareInv, PatientInv, Solo, RowsInHand, RowInHand, Resuming, Holding, HoldsInv, TypeOK,
        Located, Working, Paying, Payment, PCs, tasksTable, money, world, local, history,
        JobKept, RowKept, Attends
<1>1. CASE pending'[t] = pending[t] /\ holds' = holds /\ pc[c] # "clear"
  BY <1>1
<1>2. CASE ParkPayment(c)
  BY <1>2 DEF ParkPayment, SaveAwaiting
<1>3. CASE Approve(c) \/ Release(c) \/ Clear(c)
  BY <1>1, <1>3 DEF Approve, Release, Clear, ClearPending, ReleaseSpendHold, Goto, CarefulDay
<1>4. CASE ParkAsk(c) \/ Unask(c)
  BY <1>4 DEF ParkAsk, Unask, SaveAwaiting, ClearPending
<1>5. CASE End(c)
  BY <1>1, <1>5 DEF End
<1>6. pc[c] \in {"turn", "rest", "park", "gate", "pay", "record", "commit", "fail", "seal"} =>
        pending[t] \notin Payment
  OBVIOUS
<1> QED
  BY <1>2, <1>3, <1>4, <1>5, <1>6
  DEF Loop, Propose, Refuse, AskUser, EndTurn, InTurn, Gate, Pay, Record, Commit, Fail, Seal, StrayRelease

\* What another task's loop does leaves the rows, the payments in hand and their holds.
LEMMA OthersOwn ==
  ASSUME CareInv, NEW c \in Conns, Loop(c), Local(c), NEW d \in Conns, d # c
  PROVE  JobOwned(d)' /\ JobKept(d)'
<1>1. pc'[d] = pc[d] /\ task'[d] = task[d] /\ job'[d] = job[d] /\ JobOwned(d) /\ JobKept(d)
  BY DEF Local, Same, CareInv
<1>2. ASSUME pc[d] \in Holding PROVE job[d].key \in holds => job[d].key \in holds'
  <2>1. task[c] \in Tasks /\ task[d] \in Tasks /\ task[c] # task[d]
    BY <1>2 DEF CareInv, PatientInv, Solo, Local, Same, HoldsInv, Located, Working, Holding, PCs
  <2>2. ASSUME job[d].key \in holds \ holds' PROVE FALSE
    <3>1. job[c].key = job[d].key /\ job[c].key \in Proposes[task[c]]
      BY <2>2, OwnHold DEF CareInv, PatientInv, JobOwned
    <3> QED BY <1>1, <1>2, <2>1, <3>1 DEF JobOwned, CareInv, CarefulDay
  <2> QED BY <2>2
<1> QED BY <1>1, <1>2 DEF JobOwned, JobKept, Holding

\* The same of the rows of other tasks.
LEMMA OthersRow ==
  ASSUME CareInv, NEW c \in Conns, Loop(c), Local(c), NEW t \in Tasks, t # task[c]
  PROVE  RowOwned(t)' /\ RowKept(t)'
<1>1. pending'[t] = pending[t] /\ RowOwned(t) /\ RowKept(t) /\ task[c] \in Tasks
  BY DEF Local, Same, CareInv
<1>2. \A d \in Conns : Attends(d, t) => d # c /\ pc'[d] = pc[d] /\ task'[d] = t
  BY DEF Attends, Local, Same
<1>3. ASSUME pending[t] \in Payment, pending[t].key \in holds \ holds' PROVE FALSE
  <2>1. job[c].key = pending[t].key /\ job[c].key \in Proposes[task[c]]
    BY <1>3, OwnHold DEF CareInv, PatientInv, JobOwned
  <2> QED BY <1>1, <1>3, <2>1 DEF RowOwned, CareInv, CarefulDay
<1> QED BY <1>1, <1>2, <1>3 DEF RowOwned, RowKept, Attends

\* A step of a loop keeps the invariant.
LEMMA LoopCare ==
  ASSUME CareInv, PatientInv', NEW c \in Conns, Loop(c), Local(c)
  PROVE  CareInv'
<1>1. \A d \in Conns : JobOwned(d)' /\ JobKept(d)'
  <2>1. task[c] \in Tasks
    BY DEF Local, Same
  <2> QED BY <2>1, OwnJob, OthersOwn
<1>2. \A t \in Tasks : RowOwned(t)' /\ RowKept(t)'
  BY OwnJob, OwnRowKept, OthersRow
<1>3. StraysAlone'
  BY DEF CareInv, StraysAlone, Local, Same, Live, Working
<1>4. StraysMiss'
  <2> SUFFICES ASSUME NEW d \in Conns, NEW t \in Tasks, pc'[d] = "stray", pending'[t] \in Payment,
                      pending'[t].key = job'[d].key
               PROVE  job'[d].key \in Unmatched
    BY DEF StraysMiss
  <2>1. d # c /\ pc[d] = "stray" /\ job'[d] = job[d] /\ job[d].key \notin Proposes[task[c]]
    BY DEF CareInv, StraysAlone, Local, Same, Live, Working
  <2>2. t # task[c]
    BY <1>2, <2>1 DEF RowOwned
  <2> QED BY <2>1, <2>2 DEF CareInv, StraysMiss, Local, Same
<1> QED BY <1>1, <1>2, <1>3, <1>4 DEF CareInv, CarefulDay

\* Who resumes takes the row as it is.
LEMMA EnterOwned ==
  ASSUME CareInv, NEW c \in Conns, NEW t \in Tasks, Arrive(c), Enters(c, t)
  PROVE  JobOwned(c)'
<1> SUFFICES ASSUME pc'[c] \in Resuming PROVE job'[c].key \in Proposes[t]
  BY DEF Enters, Same, JobOwned, Holding
<1>1. RowInHand(c)' /\ task'[c] = t /\ pending' = pending
  BY ArriveRow DEF CareInv, PatientInv, Enters, Same
<1>2. pending[t] \in Payment /\ pending[t].key = job'[c].key
  BY <1>1 DEF RowInHand
<1> QED BY <1>2 DEF CareInv, RowOwned

\* So does a handler that enters.
LEMMA EnterCare ==
  ASSUME CareInv, PatientInv', NEW c \in Conns, NEW t \in Tasks, Arrive(c), Enters(c, t)
  PROVE  CareInv'
<1>1. \A d \in Conns : JobOwned(d)' /\ JobKept(d)'
  BY EnterOwned DEF CareInv, Enters, Same, JobOwned, JobKept
<1>2. \A u \in Tasks : RowOwned(u)' /\ RowKept(u)'
  BY DEF CareInv, Enters, Same, RowOwned, RowKept, Attends
<1>3. StraysAlone'
  BY DEF CareInv, StraysAlone, Enters, Same, Live, Working, PCs
<1>4. StraysMiss'
  BY DEF CareInv, StraysMiss, Enters, Same
<1> QED BY <1>1, <1>2, <1>3, <1>4 DEF CareInv, CarefulDay

\* So does a step of nobody, and a stray release, which hits no key in use.
LEMMA StillCare ==
  ASSUME CareInv, PatientInv', Still
  PROVE  CareInv'
<1> USE HoldsAssumption
<1>1. \A d \in Conns : JobOwned(d)' /\ JobKept(d)'
  <2> SUFFICES ASSUME NEW d \in Conns PROVE JobOwned(d)' /\ JobKept(d)'
    OBVIOUS
  <2>1. ASSUME pc[d] \in Holding, job[d].key \in holds \ holds' PROVE FALSE
    BY <2>1 DEF Still, Same, CareInv, StraysAlone, JobOwned, Live, Holding
  <2> QED BY <2>1 DEF Still, Same, CareInv, JobOwned, JobKept, Resuming, Holding, Working, PCs
<1>2. \A u \in Tasks : RowOwned(u)' /\ RowKept(u)'
  <2> SUFFICES ASSUME NEW u \in Tasks PROVE RowOwned(u)' /\ RowKept(u)'
    OBVIOUS
  <2>1. pending[u] \in Payment /\ pending[u].key \in holds \ holds' => pending[u].key \in Unmatched
    BY DEF Still, Same, CareInv, StraysMiss
  <2> QED BY <2>1 DEF Still, Same, CareInv, RowOwned, RowKept, Attends, tasksTable
<1>3. StraysAlone'
  BY DEF Still, Same, CareInv, CarefulDay, StraysAlone, Strays, QuietKey, Live, Working, PatientInv, HoldsInv, TypeOK, PCs
<1>4. StraysMiss'
  BY DEF Still, Same, CareInv, CarefulDay, StraysMiss, Strays, Owns, tasksTable, PatientInv, HoldsInv, PendingIffAwaiting
<1> QED BY <1>1, <1>2, <1>3, <1>4 DEF CareInv, CarefulDay

\* The invariant is inductive.
LEMMA CareInvStep == CareInv /\ [Next]_vars => CareInv'
<1> SUFFICES ASSUME CareInv, [Next]_vars PROVE CareInv'
  OBVIOUS
<1>1. PatientInv' /\ ~Restart
  BY PatientInvStep, HoldsAssumption DEF CareInv, CarefulDay, Restart, PatientInv, HoldsInv, TypeOK
<1> QED BY <1>1, StepKinds, LoopCare, EnterCare, StillCare DEF CareInv, PatientInv

\* It holds before anything happens.
LEMMA CareInvInit == CarefulDay /\ Init => CareInv
<1> SUFFICES ASSUME CarefulDay, Init PROVE CareInv
  OBVIOUS
<1>1. PatientInv
  BY PatientInvInit DEF CarefulDay
<1>2. (\A c \in Conns : pc[c] = "idle") /\ \A t \in Tasks : pending[t] \notin Payment
  BY HoldsAssumption DEF Init
<1> QED BY <1>1, <1>2 DEF CareInv, StraysAlone, StraysMiss, JobOwned, JobKept, RowOwned, RowKept, Resuming, Holding

\* A later "yes" finds its budget still set aside: between the save of a question and the resume
\* that reads it no release, failure or refusal of another task or key takes its hold.
THEOREM ParkedAreReserved == CarefulDay /\ Unmatched = {} => (Spec => []ParkedIsReserved)
<1> SUFFICES ASSUME CarefulDay, Unmatched = {} PROVE Spec => []ParkedIsReserved
  OBVIOUS
<1>1. CareInv => ParkedIsReserved
  BY DEF CareInv, RowKept, ParkedIsReserved, Attended, Attends, Live, Working
<1>2. Init => CareInv
  BY CareInvInit
<1> QED BY <1>1, <1>2, CareInvStep, PTL DEF Spec

-----------------------------------------------------------------------------
(***************************************************************************)
(* The day's budget                                                        *)
(***************************************************************************)

\* What moved is known by a row, or by the loop that is about to write the row.
Sent(c) ==
  /\ pc[c] \in {"record", "commit"} =>
       /\ txid[c] \in recent /\ ledger[txid[c]].key = job[c].key
  /\ pc[c] = "commit" => txid[c] \in rows

\* Transfers and their loops know each other until the row is written.
SentInv ==
  /\ \A x \in rows \cup recent : ledger[x] # NoTransfer
  /\ \A c \in Conns : Sent(c)
  /\ \A x \in recent \ rows : \E c \in Conns : pc[c] = "record" /\ txid[c] = x

\* With no receipt or row lost, recent transfers are accounted for.
MoneyInv == CareInv /\ MaxFaults = 0 /\ SentInv

\* A step that moves nothing and starts no recording.
LEMMA SentKept ==
  ASSUME SentInv, UNCHANGED money,
         \A c \in Conns : pc'[c] \in {"record", "commit"} \/ pc[c] = "record" => Same(c)
  PROVE  SentInv'
  BY DEF SentInv, Sent, Same, money

\* A transfer puts its loop in charge of the row.
LEMMA PaySent ==
  ASSUME MoneyInv, NEW c \in Conns, Pay(c), Local(c)
  PROVE  SentInv'
<1>1. TypeOK /\ job[c] \in Payment /\ pc[c] = "pay" /\ rows' = rows /\ job' = job
  BY DEF Pay, MoneyInv, CareInv, PatientInv, HoldsInv, Located, Paying
<1>2. CASE pc'[c] = "fail" /\ UNCHANGED <<ledger, recent, txid>>
  BY <1>1, <1>2, SentKept DEF Local, MoneyInv, money, Same
<1>3. CASE pc'[c] = "record"
  <2>1. PICK x \in Txs :
          /\ ledger[x] = NoTransfer
          /\ ledger' = [ledger EXCEPT ![x] = [key |-> job[c].key, asked |-> job[c].asked]]
          /\ recent' = recent \cup {x}
          /\ txid' = [txid EXCEPT ![c] = x]
    BY <1>1, <1>3 DEF Pay, Goto, TypeOK
  <2>2. [key |-> job[c].key, asked |-> job[c].asked] \in Transfer
    BY <1>1 DEF Payment, Transfer
  <2>3. \A y \in Txs : ledger'[y] = IF y = x THEN [key |-> job[c].key, asked |-> job[c].asked] ELSE ledger[y]
    BY <1>1, <2>1 DEF TypeOK
  <2>4. txid'[c] = x /\ x \notin rows \cup recent /\ rows \subseteq Txs /\ recent \subseteq Txs
    BY <1>1, <2>1 DEF TypeOK, MoneyInv, SentInv
  <2>5. \A y \in rows' \cup recent' : ledger'[y] # NoTransfer
    BY <1>1, <2>1, <2>2, <2>3, <2>4, HoldsAssumption DEF MoneyInv, SentInv
  <2>6. Sent(c)'
    BY <1>1, <1>3, <2>1, <2>3, <2>4 DEF Sent
  <2>7. ASSUME NEW d \in Conns, d # c PROVE Sent(d)'
    <3>1. Same(d) /\ Sent(d)
      BY <2>7 DEF Local, MoneyInv, SentInv
    <3> QED BY <1>1, <2>1, <2>3, <2>4, <3>1 DEF Same, Sent
  <2>8. \A y \in recent' \ rows' : \E d \in Conns : pc'[d] = "record" /\ txid'[d] = y
    <3> SUFFICES ASSUME NEW y \in recent \ rows
                 PROVE  \E d \in Conns : pc'[d] = "record" /\ txid'[d] = y
      BY <1>1, <1>3, <2>1, <2>4
    <3>1. PICK d \in Conns : pc[d] = "record" /\ txid[d] = y
      BY DEF MoneyInv, SentInv
    <3> QED BY <1>1, <3>1 DEF Local, Same
  <2> QED BY <2>5, <2>6, <2>7, <2>8 DEF SentInv
<1>4. ~(faults < MaxFaults)
  BY <1>1, HoldsAssumption DEF MoneyInv, TypeOK
<1> QED BY <1>1, <1>2, <1>3, <1>4 DEF Pay, Goto, TypeOK

\* The row relieves the loop.
LEMMA RecordSent ==
  ASSUME MoneyInv, NEW c \in Conns, Record(c), Local(c)
  PROVE  SentInv'
<1>1. TypeOK /\ pc[c] = "record" /\ pc'[c] = "commit" /\ UNCHANGED <<ledger, recent, txid, job>>
  BY DEF Record, Goto, MoneyInv, CareInv, PatientInv, HoldsInv, TypeOK, local
<1>2. rows' = rows \cup {txid[c]}
  BY <1>1, HoldsAssumption DEF Record, MoneyInv, TypeOK
<1>3. Sent(c) /\ \A d \in Conns : d # c => Same(d)
  BY DEF MoneyInv, SentInv, Local
<1> QED BY <1>1, <1>2, <1>3 DEF MoneyInv, SentInv, Sent, Same

\* The other steps do not touch it.
LEMMA SentStep ==
  ASSUME MoneyInv, [Next]_vars
  PROVE  SentInv'
<1>1. HoldsInv /\ Patient /\ SentInv /\ ~Restart
  BY HoldsAssumption DEF MoneyInv, CareInv, CarefulDay, PatientInv, HoldsInv, TypeOK, Restart
<1>2. ASSUME NEW c \in Conns, NEW t \in Tasks, Arrive(c), Enters(c, t) PROVE SentInv'
  <2>1. UNCHANGED money
    BY <1>2 DEF Arrive, Start, Answer, ApproveHold, ReleaseHold, Resume
  <2> QED BY <1>1, <1>2, <2>1, SentKept DEF Enters
<1>3. ASSUME NEW c \in Conns, Loop(c), Local(c) PROVE SentInv'
  <2>1. CASE ~Pay(c) /\ ~Record(c)
    <3>1. UNCHANGED money
      BY <1>3, <2>1 DEF Loop, Propose, Refuse, ParkPayment, AskUser, ParkAsk, EndTurn, Unask, Approve,
        Release, Clear, Gate, Commit, Fail, End, Seal, StrayRelease
    <3>2. pc[c] # "record" /\ pc'[c] \notin {"record", "commit"}
      BY <1>1, <1>3, <2>1 DEF Loop, Propose, Refuse, InTurn, ParkPayment, AskUser, ParkAsk, EndTurn, Unask, Approve,
        Release, Clear, Gate, Commit, Fail, End, Seal, StrayRelease, Goto, Close, HoldsInv, TypeOK
    <3> QED BY <1>1, <1>3, <3>1, <3>2, SentKept DEF Local
  <2> QED BY <1>3, <2>1, PaySent, RecordSent
<1>4. ASSUME NEW x \in Txs, LeaveDay(x) PROVE SentInv'
  BY <1>1, <1>4 DEF LeaveDay, SentInv, Sent, local
<1>5. CASE UNCHANGED money /\ Still
  BY <1>1, <1>5, SentKept DEF Still, Working, PCs
<1>6. CASE Still /\ ~\E x \in Txs : LeaveDay(x)
  <2>1. UNCHANGED money \/ \E c \in Conns : Loop(c)
    BY <1>1, <1>6 DEF Next, Environment, vars, Arrive, Start, Answer, ApproveHold, ReleaseHold, Resume, ToggleDlt, ConfigChange
  <2>2. ASSUME NEW c \in Conns, Loop(c) PROVE Local(c) \/ UNCHANGED money
    BY <1>1, <2>2, LoopLocal, StrayLoop DEF StrayRelease
  <2> QED BY <1>3, <1>5, <1>6, <2>1, <2>2
<1> QED BY <1>1, <1>2, <1>3, <1>4, <1>6, StepKinds

\* The invariant is inductive.
LEMMA MoneyInvStep == MoneyInv /\ [Next]_vars => MoneyInv'
  BY CareInvStep, SentStep DEF MoneyInv

\* It holds before anything happens.
LEMMA MoneyInvInit == CarefulDay /\ MaxFaults = 0 /\ Init => MoneyInv
  BY CareInvInit DEF Init, MoneyInv, SentInv, Sent

\* Two loops never have one key in hand.
LEMMA JobsApart ==
  ASSUME CareInv, NEW c \in Conns, NEW d \in Conns, pc[c] \in Holding, pc[d] \in Holding,
         job[c].key = job[d].key
  PROVE  c = d
<1>1. /\ task[c] \in Tasks /\ task[d] \in Tasks
      /\ job[c].key \in Proposes[task[c]] /\ job[d].key \in Proposes[task[d]]
  BY DEF CareInv, PatientInv, HoldsInv, Located, JobOwned, Holding, Working, PCs
<1>2. task[c] = task[d]
  BY <1>1 DEF CareInv, CarefulDay
<1> QED BY <1>2 DEF CareInv, PatientInv, Solo, Holding, Working, PCs

\* The holds in flight cover what the ledger has moved and no row tells yet: what
\* try_reserve_spend adds up is at least what is spent and reserved.
LEMMA FlightCovered ==
  ASSUME MoneyInv
  PROVE  /\ SumMoved(recent) \in Nat /\ Total(holds \ InFlight, Amount) \in Nat
         /\ SumMoved(recent \cap rows) \in Nat /\ Total(holds, Amount) \in Nat
         /\ SumMoved(recent) + Total(holds \ InFlight, Amount)
              <= SumMoved(recent \cap rows) + Total(holds, Amount)
<1> DEFINE w == [x \in recent |-> Moved(x)]
           told == recent \cap rows
           untold == recent \ rows
           flying == holds \cap InFlight
           waiting == holds \ InFlight
<1>1. /\ IsFiniteSet(recent) /\ IsFiniteSet(holds) /\ recent \subseteq Txs /\ holds \subseteq Keys
      /\ \A k \in holds : Amount[k] \in Nat
  BY HoldsAssumption, FS_Subset DEF MoneyInv, CareInv, PatientInv, HoldsInv, TypeOK
<1>2. \A x \in recent : ledger[x].key \in Keys
  <2> SUFFICES ASSUME NEW x \in recent PROVE ledger[x].key \in Keys
    OBVIOUS
  <2>1. ledger[x] \in Transfer
    BY <1>1 DEF MoneyInv, SentInv, CareInv, PatientInv, HoldsInv, TypeOK
  <2> QED BY <2>1 DEF Transfer
<1>3. \A x \in recent : w[x] \in Nat /\ w[x] = Amount[ledger[x].key]
  BY <1>2, HoldsAssumption DEF Moved
<1>4. /\ IsFiniteSet(told) /\ IsFiniteSet(untold) /\ recent = told \cup untold /\ told \cap untold = {}
      /\ IsFiniteSet(flying) /\ IsFiniteSet(waiting) /\ holds = waiting \cup flying
      /\ waiting \cap flying = {}
  <2>1. /\ told \subseteq recent /\ untold \subseteq recent
        /\ flying \subseteq holds /\ waiting \subseteq holds
    OBVIOUS
  <2>2. IsFiniteSet(told) /\ IsFiniteSet(untold) /\ IsFiniteSet(flying) /\ IsFiniteSet(waiting)
    BY <1>1, <2>1, FS_Subset
  <2> QED BY <2>2
<1>5. SumMoved(recent) = Total(recent, w) /\ SumMoved(told) = Total(told, w)
  <2>1. \A x \in told : [y \in told |-> Moved(y)][x] = w[x]
    OBVIOUS
  <2>2. Total(told, [y \in told |-> Moved(y)]) = Total(told, w)
    <3> HIDE DEF w, told
    <3> QED BY <2>1, TotalSame
  <2> QED BY <2>2 DEF SumMoved
<1>6. Total(recent, w) = Total(told, w) + Total(untold, w)
  <2> HIDE DEF w, told, untold
  <2> QED BY <1>3, <1>4, TotalDisjoint
<1>7. Total(holds, Amount) = Total(waiting, Amount) + Total(flying, Amount)
  <2> HIDE DEF waiting, flying
  <2> QED BY <1>1, <1>4, TotalDisjoint
<1>8. Total(untold, w) <= Total(flying, Amount)
  <2> DEFINE f == [x \in untold |-> ledger[x].key]
  <2>1. \A x \in untold : \E c \in Conns : pc[c] = "record" /\ txid[c] = x /\ job[c].key = f[x]
    BY DEF MoneyInv, SentInv, Sent
  <2>2. \A x \in untold : f[x] \in flying
    <3> SUFFICES ASSUME NEW x \in untold PROVE f[x] \in flying
      OBVIOUS
    <3>1. PICK c \in Conns : pc[c] = "record" /\ job[c].key = f[x]
      BY <2>1
    <3>2. job[c].key \in holds
      BY <3>1 DEF MoneyInv, CareInv, JobKept
    <3> QED BY <3>1, <3>2 DEF InFlight
  <2>3. \A x, y \in untold : f[x] = f[y] => x = y
    <3> SUFFICES ASSUME NEW x \in untold, NEW y \in untold, f[x] = f[y] PROVE x = y
      OBVIOUS
    <3>1. PICK c \in Conns : pc[c] = "record" /\ txid[c] = x /\ job[c].key = f[x]
      BY <2>1
    <3>2. PICK d \in Conns : pc[d] = "record" /\ txid[d] = y /\ job[d].key = f[y]
      BY <2>1
    <3>3. c = d
      BY <3>1, <3>2, JobsApart DEF MoneyInv, Holding
    <3> QED BY <3>1, <3>2, <3>3
  <2>4. f \in Injection(untold, flying)
    BY <2>2, <2>3 DEF Injection, IsInjective
  <2>5. \A x \in untold : w[x] = Amount[f[x]]
    BY <1>3
  <2>6. \A k \in flying : Amount[k] \in Nat
    BY <1>1
  <2> HIDE DEF f, untold, flying, w
  <2> QED BY <1>4, <2>4, <2>5, <2>6, TotalInjection
<1>9. /\ Total(told, w) \in Nat /\ Total(untold, w) \in Nat
      /\ Total(waiting, Amount) \in Nat /\ Total(flying, Amount) \in Nat
  <2>1. /\ \A x \in told : w[x] \in Nat
        /\ \A x \in untold : w[x] \in Nat
        /\ \A k \in waiting : Amount[k] \in Nat
        /\ \A k \in flying : Amount[k] \in Nat
    BY <1>1, <1>3
  <2> HIDE DEF told, untold, flying, waiting, w
  <2> QED BY <1>4, <2>1, TotalIsNat
<1> HIDE DEF w, untold
<1> QED BY <1>5, <1>6, <1>7, <1>8, <1>9

-----------------------------------------------------------------------------
\* What DailyBudget calls reserved.
Waiting == holds \ InFlight
\* And spent.
Day == [x \in recent |-> ledger[x].key]

\* A step of the daily budget, or none of its business.
BudgetStep == [Budget!BudgetNext]_(Budget!budgetVars)

\* Nothing starts or stops being in flight unless its loop records or commits.
LEMMA FlightKept ==
  ASSUME \A d \in Conns : /\ pc'[d] \in {"record", "commit"} <=> pc[d] \in {"record", "commit"}
                          /\ pc[d] \in {"record", "commit"} => job'[d] = job[d]
  PROVE  InFlight' = InFlight
<1>1. \A d \in Conns : pc'[d] \in {"record", "commit"} => job'[d].key = job[d].key
  OBVIOUS
<1>2. InFlight' = {job'[d].key : d \in {e \in Conns : pc'[e] \in {"record", "commit"}}}
  BY DEF InFlight
<1>3. {e \in Conns : pc'[e] \in {"record", "commit"}} = {e \in Conns : pc[e] \in {"record", "commit"}}
  OBVIOUS
<1> QED BY <1>1, <1>2, <1>3 DEF InFlight

\* A step that leaves the reservations and the day's transfers is none of the budget's.
LEMMA BudgetStutters ==
  ASSUME Waiting' = Waiting, UNCHANGED <<recent, ledger>>
  PROVE  BudgetStep
<1>1. Day' = Day
  BY DEF Day
<1> QED BY <1>1 DEF BudgetStep, Budget!budgetVars, Waiting, Day

\* A hold that goes is a reservation cancelled, or was in flight.
LEMMA BudgetDrops ==
  ASSUME NEW k \in Keys, ReleaseSpendHold(k), InFlight' = InFlight, UNCHANGED <<recent, ledger>>
  PROVE  BudgetStep
<1>1. CASE k \in Waiting
  <2>1. Budget!Cancel(k)
    BY <1>1 DEF Budget!Cancel, ReleaseSpendHold, Waiting
  <2> QED BY <2>1 DEF BudgetStep, Budget!BudgetNext
<1>2. CASE k \notin Waiting
  BY <1>2, BudgetStutters DEF ReleaseSpendHold, Waiting
<1> QED BY <1>1, <1>2

\* What the budget adds up is what the daemon adds up.
LEMMA BudgetSums == Budget!Reserved = Total(Waiting, Amount) /\ Budget!Spent = SumMoved(recent)
<1> DEFINE v == [x \in DOMAIN Day |-> Amount[Day[x]]]
           w == [x \in recent |-> Moved(x)]
<1>1. \A S, u : Budget!Total(S, u) = Total(S, u)
  <2> SUFFICES ASSUME NEW S, NEW u PROVE Budget!Total(S, u) = Total(S, u)
    OBVIOUS
  <2>1. \A x \in S : Budget!Units(x, u[x]) = Units(x, u[x])
    BY DEF Budget!Units, Units
  <2>2. {Budget!Units(x, u[x]) : x \in S} = {Units(x, u[x]) : x \in S}
    BY <2>1
  <2>3. \A U : Budget!Cardinality(U) = Cardinality(U)
    BY DEF Budget!Cardinality, Cardinality
  <2> QED BY <2>2, <2>3 DEF Budget!Total, Total
<1>2. DOMAIN Day = recent
  BY DEF Day
<1>3. v = w
  BY <1>2 DEF Day, Moved
<1> QED BY <1>1, <1>2, <1>3 DEF Budget!Reserved, Budget!Spent, Waiting, Day, SumMoved

\* try_reserve_spend counts a transfer of which no row tells by its hold, so what it grants
\* fits next to what is really spent.
LEMMA ProposeReserves ==
  ASSUME MoneyInv, NEW c \in Conns, NEW k \in Keys, Propose(c, k), Local(c)
  PROVE  BudgetStep
<1>1. /\ UNCHANGED <<recent, ledger>> /\ holds' = holds \cup {k} /\ Fits(k)
      /\ pc[c] \in {"turn", "rest"} /\ pc'[c] \in {"gate", "park"}
  BY DEF Propose, Admitted, InTurn, Goto, money, MoneyInv, CareInv, PatientInv, HoldsInv, TypeOK
<1>2. InFlight' = InFlight
  BY <1>1, FlightKept DEF Local, Same
<1>3. CASE k \in holds
  BY <1>1, <1>2, <1>3, BudgetStutters DEF Waiting
<1>4. CASE k \notin holds
  <2>1. SumMoved(recent \cap rows) + Total(holds, Amount) + Amount[k] <= DayCap
    BY <1>1, <1>4 DEF Fits
  <2>2. SumMoved(recent) + Total(holds \ InFlight, Amount) + Amount[k] <= DayCap
    BY <2>1, FlightCovered, HoldsAssumption
  <2>3. Budget!Spent + Budget!Reserved + Amount[k] <= DayCap
    BY <2>2, BudgetSums DEF Waiting
  <2>4. InFlight \subseteq holds
    BY DEF MoneyInv, CareInv, JobKept, InFlight
  <2>5. k \notin Waiting /\ Waiting' = Waiting \cup {k} /\ Day' = Day
    BY <1>1, <1>2, <1>4, <2>4 DEF Waiting, Day
  <2>6. Budget!Reserve(k)
    BY <2>3, <2>5 DEF Budget!Reserve, Waiting, Day
  <2> QED BY <2>6 DEF BudgetStep, Budget!BudgetNext
<1> QED BY <1>3, <1>4

\* The transfer uses up the reservation that its loop has kept since the proposal.
LEMMA PaySettles ==
  ASSUME MoneyInv, NEW c \in Conns, Pay(c), Local(c)
  PROVE  BudgetStep
<1>1. TypeOK /\ job[c] \in Payment /\ pc[c] = "pay" /\ UNCHANGED <<holds, job>>
  BY DEF Pay, MoneyInv, CareInv, PatientInv, HoldsInv, Located, Paying
<1>2. \A d \in Conns : d # c => pc'[d] = pc[d]
  BY DEF Local, Same
<1>3. CASE pc'[c] = "fail" /\ UNCHANGED <<ledger, recent>>
  <2>1. InFlight' = InFlight
    BY <1>1, <1>2, <1>3, FlightKept
  <2> QED BY <1>1, <1>3, <2>1, BudgetStutters DEF Waiting
<1>4. CASE pc'[c] = "record"
  <2> DEFINE k == job[c].key
  <2>1. PICK x \in Txs :
          /\ ledger[x] = NoTransfer
          /\ ledger' = [ledger EXCEPT ![x] = [key |-> job[c].key, asked |-> job[c].asked]]
          /\ recent' = recent \cup {x}
    BY <1>1, <1>4 DEF Pay, Goto, TypeOK
  <2>2. k \in Keys /\ k \in Waiting
    <3>1. k \in Keys /\ k \in holds
      BY <1>1 DEF Payment, MoneyInv, CareInv, JobKept
    <3>2. ASSUME NEW d \in Conns, pc[d] \in {"record", "commit"}, job[d].key = k PROVE FALSE
      BY <1>1, <3>2, JobsApart DEF MoneyInv, Holding
    <3> QED BY <3>1, <3>2 DEF Waiting, InFlight
  <2>3. InFlight' = InFlight \cup {k}
    <3>1. {d \in Conns : pc'[d] \in {"record", "commit"}}
             = {d \in Conns : pc[d] \in {"record", "commit"}} \cup {c}
      BY <1>2, <1>4
    <3> QED BY <1>1, <3>1 DEF InFlight
  <2>4. Waiting' = Waiting \ {k}
    BY <1>1, <2>3 DEF Waiting
  <2>5. x \notin recent
    BY <2>1 DEF MoneyInv, SentInv
  <2>6. \A y \in Txs : ledger'[y] = IF y = x THEN [key |-> job[c].key, asked |-> job[c].asked] ELSE ledger[y]
    BY <1>1, <2>1 DEF TypeOK
  <2>7. Day' = [y \in DOMAIN Day \cup {x} |-> IF y = x THEN k ELSE Day[y]]
    BY <1>1, <2>1, <2>6 DEF Day, TypeOK
  <2>8. Budget!Settle(k, x)
    BY <2>2, <2>4, <2>5, <2>7 DEF Budget!Settle, Waiting, Day
  <2> QED BY <2>2, <2>8 DEF BudgetStep, Budget!BudgetNext
<1>5. ~(faults < MaxFaults)
  BY <1>1, HoldsAssumption DEF MoneyInv, TypeOK
<1> QED BY <1>1, <1>3, <1>4, <1>5 DEF Pay, Goto, TypeOK

\* commit_spend_hold deletes a row that no longer reserves anything.
LEMMA CommitStutters ==
  ASSUME MoneyInv, NEW c \in Conns, Commit(c), Local(c)
  PROVE  BudgetStep
<1> DEFINE k == job[c].key
<1>1. /\ UNCHANGED <<recent, ledger, job>> /\ holds' = holds \ {k}
      /\ pc[c] = "commit" /\ pc'[c] \in {"rest", "turn"} /\ k \in InFlight
  BY DEF Commit, ReleaseSpendHold, Goto, money, local, InFlight, MoneyInv, CareInv, PatientInv, HoldsInv, TypeOK
<1>2. \A d \in Conns : d # c => pc'[d] = pc[d]
  BY DEF Local, Same
<1>3. ASSUME NEW d \in Conns, d # c, pc[d] \in {"record", "commit"} PROVE job[d].key # k
  BY <1>1, <1>3, JobsApart DEF MoneyInv, Holding
<1>4. InFlight' = InFlight \ {k}
  <2>1. {d \in Conns : pc'[d] \in {"record", "commit"}}
          = {d \in Conns : pc[d] \in {"record", "commit"}} \ {c}
    BY <1>1, <1>2
  <2> QED BY <1>1, <1>3, <2>1 DEF InFlight
<1> QED BY <1>1, <1>4, BudgetStutters DEF Waiting

\* The other steps of a loop drop a hold, or touch neither a hold nor the ledger.
LEMMA LoopBudget ==
  ASSUME MoneyInv, NEW c \in Conns, Loop(c), Local(c)
  PROVE  BudgetStep
<1>1. CASE \E k \in Keys : Propose(c, k)
  BY <1>1, ProposeReserves
<1>2. CASE Pay(c) \/ Commit(c)
  BY <1>2, PaySettles, CommitStutters
<1> USE DEF Local, Same, MoneyInv, CareInv, PatientInv, HoldsInv, TypeOK, Located, money, local
<1>3. CASE Record(c)
  <2>1. UNCHANGED <<holds, recent, ledger, job>> /\ pc[c] = "record" /\ pc'[c] = "commit"
    BY <1>3 DEF Record, Goto
  <2>2. InFlight' = InFlight
    BY <2>1, FlightKept
  <2> QED BY <2>1, <2>2, BudgetStutters DEF Waiting
<1>4. CASE pc[c] \notin {"record", "commit"} /\ pc'[c] \notin {"record", "commit"} /\ UNCHANGED <<recent, ledger>>
  <2>1. InFlight' = InFlight
    BY <1>4, FlightKept
  <2>2. CASE UNCHANGED holds
    BY <1>4, <2>1, <2>2, BudgetStutters DEF Waiting
  <2>3. CASE Release(c) \/ Fail(c) \/ (Approve(c) /\ ReleaseSpendHold(job[c].key))
    <3>1. job[c].key \in Keys /\ ReleaseSpendHold(job[c].key)
      BY <2>3 DEF Release, Fail, Approve, Paying, Payment
    <3> QED BY <1>4, <2>1, <3>1, BudgetDrops
  <2>4. ~StrayRelease(c)
    BY DEF StrayRelease, Working
  <2>5. CASE UNCHANGED holds \/ Release(c) \/ Fail(c) \/ (Approve(c) /\ ReleaseSpendHold(job[c].key))
    BY <2>2, <2>3, <2>5
  <2> QED BY <1>1, <1>2, <1>3, <2>4, <2>5
    DEF Loop, Refuse, ParkPayment, AskUser, ParkAsk, EndTurn, Unask, Approve, Clear, Gate, End, Seal
<1> QED
  BY <1>1, <1>2, <1>3, <1>4
  DEF Loop, Refuse, InTurn, ParkPayment, AskUser, ParkAsk, EndTurn, Unask, Approve, Release, Clear, Gate,
      Fail, End, Seal, StrayRelease, Goto, Close, Working

\* Every step of the daemon is a step of the budget, or none of its business.
LEMMA NextBudget ==
  ASSUME MoneyInv, [Next]_vars
  PROVE  BudgetStep
<1>1. HoldsInv /\ Patient /\ ~Restart
  BY HoldsAssumption DEF MoneyInv, CareInv, CarefulDay, PatientInv, HoldsInv, TypeOK, Restart
<1>2. ASSUME NEW c \in Conns, Arrive(c) PROVE BudgetStep
  <2>1. UNCHANGED <<holds, recent, ledger>>
    BY <1>2 DEF Arrive, Start, Answer, ApproveHold, ReleaseHold, Resume, money
  <2>2. \A d \in Conns : /\ pc'[d] \in {"record", "commit"} <=> pc[d] \in {"record", "commit"}
                         /\ pc[d] \in {"record", "commit"} => job'[d] = job[d]
    BY <1>1, <1>2, ArriveEnters DEF Enters, Still, Same, Working, PCs
  <2> QED BY <2>1, <2>2, FlightKept, BudgetStutters DEF Waiting
<1>3. ASSUME NEW c \in Conns, Loop(c) PROVE BudgetStep
  <2>1. CASE pc[c] # "stray"
    BY <1>1, <1>3, <2>1, LoopLocal, LoopBudget
  <2>2. CASE pc[c] = "stray"
    <3>1. StrayRelease(c) /\ Still /\ UNCHANGED <<recent, ledger>> /\ job[c].key \in Keys
      BY <1>1, <1>3, <2>2, StrayLoop, OthersStill DEF StrayRelease, money, HoldsInv, Located, Paying, Payment
    <3>2. InFlight' = InFlight
      BY <3>1, FlightKept DEF Still, Same, Working, PCs
    <3> QED BY <3>1, <3>2, BudgetDrops DEF StrayRelease
  <2> QED BY <2>1, <2>2
<1>4. ASSUME NEW x \in Txs, LeaveDay(x) PROVE BudgetStep
  <2>1. UNCHANGED <<holds, ledger, pc, job>> /\ x \in recent /\ recent' = recent \ {x}
    BY <1>4 DEF LeaveDay, local
  <2>2. Waiting' = Waiting
    BY <2>1 DEF Waiting, InFlight
  <2>3. Budget!Expire(x)
    BY <2>1, <2>2 DEF Budget!Expire, Waiting
  <2> QED BY <2>3 DEF BudgetStep, Budget!BudgetNext
<1>5. ASSUME ToggleDlt \/ ConfigChange \/ UNCHANGED vars PROVE BudgetStep
  <2>1. UNCHANGED <<holds, recent, ledger, pc, job>>
    BY <1>5 DEF ToggleDlt, ConfigChange, vars, money, local
  <2>2. Waiting' = Waiting
    BY <2>1 DEF Waiting, InFlight
  <2> QED BY <2>1, <2>2, BudgetStutters
<1> QED BY <1>1, <1>2, <1>3, <1>4, <1>5 DEF Next, Environment

\* The tables, the loops and the ledger implement the daily budget on a careful day without
\* a lost receipt: a transfer uses up the reservation of its own proposal, made when it fit.
THEOREM HoldsImplementBudget == CarefulDay /\ MaxFaults = 0 => (Spec => ImplementsBudget)
<1> SUFFICES ASSUME CarefulDay, MaxFaults = 0 PROVE Spec => ImplementsBudget
  OBVIOUS
<1>1. Init => Budget!BudgetInit
  <2> SUFFICES ASSUME Init PROVE Budget!BudgetInit
    OBVIOUS
  <2>1. holds = {} /\ recent = {}
    BY DEF Init
  <2> QED BY <2>1 DEF Budget!BudgetInit
<1>2. MoneyInv /\ [Next]_vars => [Budget!BudgetNext]_(Budget!budgetVars)
  BY NextBudget DEF BudgetStep
<1>3. Init => MoneyInv
  BY MoneyInvInit
<1> QED BY <1>1, <1>2, <1>3, MoneyInvStep, PTL DEF Spec, ImplementsBudget, Budget!BudgetSpec

-----------------------------------------------------------------------------
\* The theorem on DailyBudget, read for these tables.
Promise == INSTANCE DailyBudget_proofs WITH reserved <- Waiting, spent <- Day

\* The constants of a day are those of a budget.
LEMMA PromiseConstants == Promise!BudgetConstants
<1>1. \A S : Promise!IsFiniteSet(S) = IsFiniteSet(S)
  BY DEF Promise!IsFiniteSet, IsFiniteSet
<1> QED BY <1>1, HoldsAssumption DEF Promise!BudgetConstants

\* Its sums are the same.
LEMMA PromiseSums == Promise!Reserved = Budget!Reserved /\ Promise!Spent = Budget!Spent
<1>1. \A x, n : Promise!Units(x, n) = Budget!Units(x, n)
  BY DEF Promise!Units, Budget!Units
<1>2. \A U : Promise!Cardinality(U) = Budget!Cardinality(U)
  BY DEF Promise!Cardinality, Budget!Cardinality
<1>3. \A S, u : Promise!Total(S, u) = Budget!Total(S, u)
  BY <1>1, <1>2 DEF Promise!Total, Budget!Total
<1> QED BY <1>3 DEF Promise!Reserved, Promise!Spent, Budget!Reserved, Budget!Spent, Waiting, Day

\* The theorem on every budget applies to this one.
LEMMA PromiseKept == ImplementsBudget => []Promise!BudgetRespected
<1>1. Budget!BudgetInit => Promise!BudgetInit
  BY DEF Budget!BudgetInit, Promise!BudgetInit, Waiting, Day
<1>2. [Budget!BudgetNext]_(Budget!budgetVars) => [Promise!BudgetNext]_(Promise!budgetVars)
  <2> SUFFICES ASSUME BudgetStep PROVE [Promise!BudgetNext]_(Promise!budgetVars)
    BY DEF BudgetStep
  <2>1. Promise!Reserved = Budget!Reserved /\ Promise!Spent = Budget!Spent
    BY PromiseSums
  <2>2. ASSUME NEW k \in Keys, Budget!Reserve(k) PROVE Promise!Reserve(k)
    BY <2>1, <2>2 DEF Promise!Reserve, Budget!Reserve, Waiting, Day
  <2>3. ASSUME NEW k \in Keys, Budget!Cancel(k) PROVE Promise!Cancel(k)
    BY <2>3 DEF Promise!Cancel, Budget!Cancel, Waiting, Day
  <2>4. ASSUME NEW k \in Keys, NEW x \in Txs, Budget!Settle(k, x) PROVE Promise!Settle(k, x)
    BY <2>4 DEF Promise!Settle, Budget!Settle, Waiting, Day
  <2>5. ASSUME NEW x \in Txs, Budget!Expire(x) PROVE Promise!Expire(x)
    BY <2>5 DEF Promise!Expire, Budget!Expire, Waiting, Day
  <2>6. UNCHANGED Budget!budgetVars => UNCHANGED Promise!budgetVars
    BY DEF Promise!budgetVars, Budget!budgetVars, Waiting, Day
  <2> QED BY <2>2, <2>3, <2>4, <2>5, <2>6 DEF BudgetStep, Budget!BudgetNext, Promise!BudgetNext
<1> QED
  BY <1>1, <1>2, PromiseConstants, Promise!BudgetIsRespected, PTL
  DEF ImplementsBudget, Budget!BudgetSpec, Promise!BudgetSpec

\* per_day_cap bounds what the ledger moved in a day, for any numbers of tasks, connections
\* and keys, any amounts and any interleaving, although it is compared at the proposal only.
THEOREM DayCapHolds == CarefulDay /\ MaxFaults = 0 => (Spec => []WithinDayCap)
<1> SUFFICES ASSUME CarefulDay, MaxFaults = 0 PROVE Spec => []WithinDayCap
  OBVIOUS
<1>1. MoneyInv /\ Promise!BudgetRespected => WithinDayCap
  <2> SUFFICES ASSUME MoneyInv, Promise!BudgetRespected PROVE SumMoved(recent) <= DayCap
    BY DEF WithinDayCap
  <2>1. Promise!Reserved = Total(Waiting, Amount) /\ Promise!Spent = SumMoved(recent)
    BY PromiseSums, BudgetSums
  <2>2. SumMoved(recent) + Total(Waiting, Amount) <= DayCap
    BY <2>1 DEF Promise!BudgetRespected
  <2> QED BY <2>2, FlightCovered, HoldsAssumption DEF Waiting
<1>2. Init => MoneyInv
  BY MoneyInvInit
<1> QED BY <1>1, <1>2, MoneyInvStep, HoldsImplementBudget, PromiseKept, PTL DEF Spec
=============================================================================
