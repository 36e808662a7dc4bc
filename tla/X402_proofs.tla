----------------------------- MODULE X402_proofs -----------------------------
(***************************************************************************)
(* What holds of X402 for any calls, urls, prices, caps and allowlists,    *)
(* and any interleaving of concurrent calls: its types, the rate limit,    *)
(* that what a call reports has moved, and that the day's cap bounds what  *)
(* moves in a day.                                                         *)
(***************************************************************************)
EXTENDS X402, DataLemmas

\* A call that has not retried has sent no token.
Unsent ==
  \A c \in Calls :
    pc[c] \in {"idle", "probe", "log", "count", "reserve", "sign", "commit", "retry"}
      => ledger[c] = "unsent"

\* A call that the rate limit let through has been logged and counted.
PassedOn == \A c \in passed : pc[c] \notin {"idle", "probe", "log", "count"}

\* Two calls on one hold are an anomaly.
Alone ==
  "shared" \notin odd =>
    \A c, d \in Calls : Reserving(c) /\ Reserving(d) /\ key[c] = key[d] => c = d

\* What a row says of the ledger, and what it means that a token has none.
RowsTell ==
  \A c \in Calls :
    /\ c \in recent => rows[c] # "none"
    /\ /\ rows[c] = "none"
       /\ ledger[c] # "unsent" \/ pc[c] \in {"commit", "retry"}
       => "unrecorded" \in odd
    /\ "lie" \notin odd =>
         /\ rows[c] = "FAILED" => ledger[c] = "rejected"
         /\ rows[c] = "delivery_failed" => pc[c] = "failed"

-----------------------------------------------------------------------------
(***************************************************************************)
(* Types                                                                   *)
(***************************************************************************)
\* The tables start empty and the calls without terms.
LEMMA InitType == Init => TypeOK
<1> SUFFICES ASSUME Init PROVE TypeOK
  OBVIOUS
<1>1. events \in 0..MaxEvents
  BY X402Assumption DEF Init
<1> QED
  BY <1>1 DEF Init, TypeOK, PCs, Ended, Statuses, Anomalies

\* One step per action: what it writes has the type of what it overwrites.
LEMMA TypeStep ==
  ASSUME TypeOK, [Next]_vars
  PROVE  TypeOK'
<1>0. MaxEvents \in Nat
  BY X402Assumption
<1> USE <1>0 DEF TypeOK, PCs, Ended, Statuses, Anomalies, local, tables, history
<1>1. ASSUME NEW c \in Calls, Begin(c) PROVE TypeOK'
  BY <1>1 DEF Begin, Goto
<1>2. ASSUME NEW c \in Calls, ProbeEnds(c) PROVE TypeOK'
  BY <1>2 DEF ProbeEnds, Goto
<1>3. ASSUME NEW c \in Calls, ProbeAsks(c) PROVE TypeOK'
  <2>1. UrlOf[c] \in Urls /\ Offers[UrlOf[c]] \subseteq Keys
    BY X402Assumption
  <2>2. PICK k \in Keys : key' = [key EXCEPT ![c] = k]
    BY <1>3, <2>1 DEF ProbeAsks
  <2> QED BY <1>3, <2>2 DEF ProbeAsks, Goto
<1>4. ASSUME NEW c \in Calls, Log(c) PROVE TypeOK'
  <2>1. CASE Event
    <3>1. events' \in 0..MaxEvents
      BY <2>1 DEF Event
    <3> QED BY <1>4, <2>1, <3>1 DEF Log, Goto
  <2> QED BY <1>4, <2>1 DEF Log, Goto
<1>5. ASSUME NEW c \in Calls, Count(c) PROVE TypeOK'
  <2>1. CASE Event
    <3>1. events' \in 0..MaxEvents
      BY <2>1 DEF Event
    <3> QED BY <1>5, <2>1, <3>1 DEF Count, Goto
  <2> QED BY <1>5, <2>1 DEF Count, Goto
<1>6. ASSUME NEW c \in Calls, Reserve(c) PROVE TypeOK'
  <2>1. key[c] \in Keys
    BY <1>6 DEF Reserve
  <2>2. odd' \subseteq Anomalies
    BY <1>6 DEF Reserve
  <2> QED BY <1>6, <2>1, <2>2 DEF Reserve, Goto
<1>7. ASSUME NEW c \in Calls, Refuse(c) PROVE TypeOK'
  BY <1>7 DEF Refuse, Goto
<1>8. ASSUME NEW c \in Calls, Sign(c) PROVE TypeOK'
  <2>1. CASE Event
    <3>1. events' \in 0..MaxEvents
      BY <2>1 DEF Event
    <3> QED BY <1>8, <2>1, <3>1 DEF Sign, Goto
  <2> QED BY <1>8, <2>1 DEF Sign, Goto
<1>9. ASSUME NEW c \in Calls, SignFails(c) PROVE TypeOK'
  BY <1>9 DEF SignFails, Goto
<1>10. ASSUME NEW c \in Calls, Commit(c) PROVE TypeOK'
  BY <1>10 DEF Commit, Goto
<1>11. ASSUME NEW c \in Calls, Retry(c) PROVE TypeOK'
  BY <1>11 DEF Retry, Goto
<1>12. ASSUME NEW c \in Calls, RetryFails(c) PROVE TypeOK'
  BY <1>12 DEF RetryFails, Goto, SetStatus
<1>13. ASSUME NEW c \in Calls, Settled(c) PROVE TypeOK'
  BY <1>13 DEF Settled, Goto, Lie
<1>14. ASSUME NEW c \in Calls, Unsettled(c) PROVE TypeOK'
  BY <1>14 DEF Unsettled, Goto, SetStatus, Lie
<1>15. ASSUME NEW c \in Calls, Unconfirmed(c) PROVE TypeOK'
  BY <1>15 DEF Unconfirmed, Goto
<1>16. ASSUME NEW c \in Calls, Body(c) PROVE TypeOK'
  BY <1>16 DEF Body, Goto
<1>17. ASSUME NEW c \in Calls, BodyLost(c) PROVE TypeOK'
  BY <1>17 DEF BodyLost, Goto, SetStatus
<1>18. ASSUME NEW c \in Calls, WatchFinds(c) PROVE TypeOK'
  BY <1>18 DEF WatchFinds, Goto, SetStatus, Indexed
<1>19. ASSUME NEW c \in Calls, WatchGivesUp(c) PROVE TypeOK'
  BY <1>19 DEF WatchGivesUp, Goto
<1>20. ASSUME NEW c \in Calls, Submit(c) PROVE TypeOK'
  BY <1>20 DEF Submit
<1>21. ASSUME NEW c \in Calls, LeaveHour(c) PROVE TypeOK'
  BY <1>21 DEF LeaveHour
<1>22. ASSUME NEW c \in Calls, LeaveDay(c) PROVE TypeOK'
  BY <1>22 DEF LeaveDay
<1>23. ASSUME NEW e \in Entries, EditAllowlist(e) PROVE TypeOK'
  BY <1>23 DEF EditAllowlist, Edited, Event
<1>24. CASE Restart
  BY <1>24 DEF Restart, Event
<1>25. CASE UNCHANGED vars
  BY <1>25 DEF vars
<1> QED
  BY <1>1, <1>2, <1>3, <1>4, <1>5, <1>6, <1>7, <1>8, <1>9, <1>10, <1>11, <1>12, <1>13,
     <1>14, <1>15, <1>16, <1>17, <1>18, <1>19, <1>20, <1>21, <1>22, <1>23, <1>24, <1>25
  DEF Next, Rules, Vault, Exchange, Watch

\* Only a retry sends a token, and it leads past the retry.
LEMMA UnsentStep ==
  ASSUME TypeOK, Unsent, [Next]_vars
  PROVE  Unsent'
<1> USE DEF TypeOK, Unsent, Ended, local, tables, history
<1>1. ASSUME NEW c \in Calls, Begin(c) PROVE Unsent'
  BY <1>1 DEF Begin, Goto
<1>2. ASSUME NEW c \in Calls, ProbeEnds(c) PROVE Unsent'
  BY <1>2 DEF ProbeEnds, Goto
<1>3. ASSUME NEW c \in Calls, ProbeAsks(c) PROVE Unsent'
  BY <1>3 DEF ProbeAsks, Goto
<1>4. ASSUME NEW c \in Calls, Log(c) PROVE Unsent'
  BY <1>4 DEF Log, Goto, Event
<1>5. ASSUME NEW c \in Calls, Count(c) PROVE Unsent'
  BY <1>5 DEF Count, Goto, Event
<1>6. ASSUME NEW c \in Calls, Reserve(c) PROVE Unsent'
  BY <1>6 DEF Reserve, Goto
<1>7. ASSUME NEW c \in Calls, Refuse(c) PROVE Unsent'
  BY <1>7 DEF Refuse, Goto
<1>8. ASSUME NEW c \in Calls, Sign(c) PROVE Unsent'
  BY <1>8 DEF Sign, Goto, Event
<1>9. ASSUME NEW c \in Calls, SignFails(c) PROVE Unsent'
  BY <1>9 DEF SignFails, Goto
<1>10. ASSUME NEW c \in Calls, Commit(c) PROVE Unsent'
  BY <1>10 DEF Commit, Goto
<1>11. ASSUME NEW c \in Calls, Retry(c) PROVE Unsent'
  BY <1>11 DEF Retry, Goto
<1>12. ASSUME NEW c \in Calls, RetryFails(c) PROVE Unsent'
  BY <1>12 DEF RetryFails, Goto, SetStatus
<1>13. ASSUME NEW c \in Calls, Settled(c) PROVE Unsent'
  BY <1>13 DEF Settled, Goto, Lie
<1>14. ASSUME NEW c \in Calls, Unsettled(c) PROVE Unsent'
  BY <1>14 DEF Unsettled, Goto, SetStatus, Lie
<1>15. ASSUME NEW c \in Calls, Unconfirmed(c) PROVE Unsent'
  BY <1>15 DEF Unconfirmed, Goto
<1>16. ASSUME NEW c \in Calls, Body(c) PROVE Unsent'
  BY <1>16 DEF Body, Goto
<1>17. ASSUME NEW c \in Calls, BodyLost(c) PROVE Unsent'
  BY <1>17 DEF BodyLost, Goto, SetStatus
<1>18. ASSUME NEW c \in Calls, WatchFinds(c) PROVE Unsent'
  BY <1>18 DEF WatchFinds, Goto, SetStatus, Indexed
<1>19. ASSUME NEW c \in Calls, WatchGivesUp(c) PROVE Unsent'
  BY <1>19 DEF WatchGivesUp, Goto
<1>20. ASSUME NEW c \in Calls, Submit(c) PROVE Unsent'
  BY <1>20 DEF Submit
<1>21. ASSUME NEW c \in Calls, LeaveHour(c) PROVE Unsent'
  BY <1>21 DEF LeaveHour
<1>22. ASSUME NEW c \in Calls, LeaveDay(c) PROVE Unsent'
  BY <1>22 DEF LeaveDay
<1>23. ASSUME NEW e \in Entries, EditAllowlist(e) PROVE Unsent'
  BY <1>23 DEF EditAllowlist, Edited, Event
<1>24. CASE Restart
  BY <1>24 DEF Restart, Event
<1>25. CASE UNCHANGED vars
  BY <1>25 DEF vars
<1> QED
  BY <1>1, <1>2, <1>3, <1>4, <1>5, <1>6, <1>7, <1>8, <1>9, <1>10, <1>11, <1>12, <1>13,
     <1>14, <1>15, <1>16, <1>17, <1>18, <1>19, <1>20, <1>21, <1>22, <1>23, <1>24, <1>25
  DEF Next, Rules, Vault, Exchange, Watch

\* Only a call that counts passes, and it does not come back to count again.
LEMMA PassedStep ==
  ASSUME TypeOK, PassedOn, [Next]_vars
  PROVE  PassedOn'
<1> USE DEF TypeOK, PassedOn, Ended, local, tables, history
<1>1. ASSUME NEW c \in Calls, Begin(c) PROVE PassedOn'
  BY <1>1 DEF Begin, Goto
<1>2. ASSUME NEW c \in Calls, ProbeEnds(c) PROVE PassedOn'
  BY <1>2 DEF ProbeEnds, Goto
<1>3. ASSUME NEW c \in Calls, ProbeAsks(c) PROVE PassedOn'
  BY <1>3 DEF ProbeAsks, Goto
<1>4. ASSUME NEW c \in Calls, Log(c) PROVE PassedOn'
  BY <1>4 DEF Log, Goto, Event
<1>5. ASSUME NEW c \in Calls, Count(c) PROVE PassedOn'
  BY <1>5 DEF Count, Goto, Event
<1>6. ASSUME NEW c \in Calls, Reserve(c) PROVE PassedOn'
  BY <1>6 DEF Reserve, Goto
<1>7. ASSUME NEW c \in Calls, Refuse(c) PROVE PassedOn'
  BY <1>7 DEF Refuse, Goto
<1>8. ASSUME NEW c \in Calls, Sign(c) PROVE PassedOn'
  BY <1>8 DEF Sign, Goto, Event
<1>9. ASSUME NEW c \in Calls, SignFails(c) PROVE PassedOn'
  BY <1>9 DEF SignFails, Goto
<1>10. ASSUME NEW c \in Calls, Commit(c) PROVE PassedOn'
  BY <1>10 DEF Commit, Goto
<1>11. ASSUME NEW c \in Calls, Retry(c) PROVE PassedOn'
  BY <1>11 DEF Retry, Goto
<1>12. ASSUME NEW c \in Calls, RetryFails(c) PROVE PassedOn'
  BY <1>12 DEF RetryFails, Goto, SetStatus
<1>13. ASSUME NEW c \in Calls, Settled(c) PROVE PassedOn'
  BY <1>13 DEF Settled, Goto, Lie
<1>14. ASSUME NEW c \in Calls, Unsettled(c) PROVE PassedOn'
  BY <1>14 DEF Unsettled, Goto, SetStatus, Lie
<1>15. ASSUME NEW c \in Calls, Unconfirmed(c) PROVE PassedOn'
  BY <1>15 DEF Unconfirmed, Goto
<1>16. ASSUME NEW c \in Calls, Body(c) PROVE PassedOn'
  BY <1>16 DEF Body, Goto
<1>17. ASSUME NEW c \in Calls, BodyLost(c) PROVE PassedOn'
  BY <1>17 DEF BodyLost, Goto, SetStatus
<1>18. ASSUME NEW c \in Calls, WatchFinds(c) PROVE PassedOn'
  BY <1>18 DEF WatchFinds, Goto, SetStatus, Indexed
<1>19. ASSUME NEW c \in Calls, WatchGivesUp(c) PROVE PassedOn'
  BY <1>19 DEF WatchGivesUp, Goto
<1>20. ASSUME NEW c \in Calls, Submit(c) PROVE PassedOn'
  BY <1>20 DEF Submit
<1>21. ASSUME NEW c \in Calls, LeaveHour(c) PROVE PassedOn'
  BY <1>21 DEF LeaveHour
<1>22. ASSUME NEW c \in Calls, LeaveDay(c) PROVE PassedOn'
  BY <1>22 DEF LeaveDay
<1>23. ASSUME NEW e \in Entries, EditAllowlist(e) PROVE PassedOn'
  BY <1>23 DEF EditAllowlist, Edited, Event
<1>24. CASE Restart
  BY <1>24 DEF Restart, Event
<1>25. CASE UNCHANGED vars
  BY <1>25 DEF vars
<1> QED
  BY <1>1, <1>2, <1>3, <1>4, <1>5, <1>6, <1>7, <1>8, <1>9, <1>10, <1>11, <1>12, <1>13,
     <1>14, <1>15, <1>16, <1>17, <1>18, <1>19, <1>20, <1>21, <1>22, <1>23, <1>24, <1>25
  DEF Next, Rules, Vault, Exchange, Watch

\* A second call on one hold is noted as shared when it reserves.
LEMMA AloneStep ==
  ASSUME TypeOK, Alone, [Next]_vars
  PROVE  Alone'
<1> USE DEF TypeOK, Alone, Reserving, Ended, Anomalies, local, tables, history
<1>1. ASSUME NEW c \in Calls, Begin(c) PROVE Alone'
  BY <1>1 DEF Begin, Goto
<1>2. ASSUME NEW c \in Calls, ProbeEnds(c) PROVE Alone'
  BY <1>2 DEF ProbeEnds, Goto
<1>3. ASSUME NEW c \in Calls, ProbeAsks(c) PROVE Alone'
  BY <1>3 DEF ProbeAsks, Goto
<1>4. ASSUME NEW c \in Calls, Log(c) PROVE Alone'
  BY <1>4 DEF Log, Goto, Event
<1>5. ASSUME NEW c \in Calls, Count(c) PROVE Alone'
  BY <1>5 DEF Count, Goto, Event
<1>6. ASSUME NEW c \in Calls, Reserve(c) PROVE Alone'
  <2>1. odd \subseteq odd' /\ (Owned(key[c]) => "shared" \in odd')
    BY <1>6 DEF Reserve
  <2> QED BY <1>6, <2>1 DEF Reserve, Goto, Owned
<1>7. ASSUME NEW c \in Calls, Refuse(c) PROVE Alone'
  BY <1>7 DEF Refuse, Goto
<1>8. ASSUME NEW c \in Calls, Sign(c) PROVE Alone'
  BY <1>8 DEF Sign, Goto, Event
<1>9. ASSUME NEW c \in Calls, SignFails(c) PROVE Alone'
  BY <1>9 DEF SignFails, Goto
<1>10. ASSUME NEW c \in Calls, Commit(c) PROVE Alone'
  BY <1>10 DEF Commit, Goto
<1>11. ASSUME NEW c \in Calls, Retry(c) PROVE Alone'
  BY <1>11 DEF Retry, Goto
<1>12. ASSUME NEW c \in Calls, RetryFails(c) PROVE Alone'
  BY <1>12 DEF RetryFails, Goto, SetStatus
<1>13. ASSUME NEW c \in Calls, Settled(c) PROVE Alone'
  BY <1>13 DEF Settled, Goto, Lie
<1>14. ASSUME NEW c \in Calls, Unsettled(c) PROVE Alone'
  BY <1>14 DEF Unsettled, Goto, SetStatus, Lie
<1>15. ASSUME NEW c \in Calls, Unconfirmed(c) PROVE Alone'
  BY <1>15 DEF Unconfirmed, Goto
<1>16. ASSUME NEW c \in Calls, Body(c) PROVE Alone'
  BY <1>16 DEF Body, Goto
<1>17. ASSUME NEW c \in Calls, BodyLost(c) PROVE Alone'
  BY <1>17 DEF BodyLost, Goto, SetStatus
<1>18. ASSUME NEW c \in Calls, WatchFinds(c) PROVE Alone'
  BY <1>18 DEF WatchFinds, Goto, SetStatus, Indexed
<1>19. ASSUME NEW c \in Calls, WatchGivesUp(c) PROVE Alone'
  BY <1>19 DEF WatchGivesUp, Goto
<1>20. ASSUME NEW c \in Calls, Submit(c) PROVE Alone'
  BY <1>20 DEF Submit
<1>21. ASSUME NEW c \in Calls, LeaveHour(c) PROVE Alone'
  BY <1>21 DEF LeaveHour
<1>22. ASSUME NEW c \in Calls, LeaveDay(c) PROVE Alone'
  BY <1>22 DEF LeaveDay
<1>23. ASSUME NEW e \in Entries, EditAllowlist(e) PROVE Alone'
  BY <1>23 DEF EditAllowlist, Edited, Event
<1>24. CASE Restart
  BY <1>24 DEF Restart, Event
<1>25. CASE UNCHANGED vars
  BY <1>25 DEF vars
<1> QED
  BY <1>1, <1>2, <1>3, <1>4, <1>5, <1>6, <1>7, <1>8, <1>9, <1>10, <1>11, <1>12, <1>13,
     <1>14, <1>15, <1>16, <1>17, <1>18, <1>19, <1>20, <1>21, <1>22, <1>23, <1>24, <1>25
  DEF Next, Rules, Vault, Exchange, Watch

\* A row is never deleted, FAILED repeats the ledger, and delivery_failed ends its call.
LEMMA RowsStep ==
  ASSUME TypeOK, Unsent, RowsTell, [Next]_vars
  PROVE  RowsTell'
<1> USE DEF TypeOK, Unsent, RowsTell, Ended, local, tables, history
<1>1. ASSUME NEW c \in Calls, Begin(c) PROVE RowsTell'
  BY <1>1 DEF Begin, Goto
<1>2. ASSUME NEW c \in Calls, ProbeEnds(c) PROVE RowsTell'
  BY <1>2 DEF ProbeEnds, Goto
<1>3. ASSUME NEW c \in Calls, ProbeAsks(c) PROVE RowsTell'
  BY <1>3 DEF ProbeAsks, Goto
<1>4. ASSUME NEW c \in Calls, Log(c) PROVE RowsTell'
  BY <1>4 DEF Log, Goto, Event
<1>5. ASSUME NEW c \in Calls, Count(c) PROVE RowsTell'
  BY <1>5 DEF Count, Goto, Event
<1>6. ASSUME NEW c \in Calls, Reserve(c) PROVE RowsTell'
  BY <1>6 DEF Reserve, Goto
<1>7. ASSUME NEW c \in Calls, Refuse(c) PROVE RowsTell'
  BY <1>7 DEF Refuse, Goto
<1>8. ASSUME NEW c \in Calls, Sign(c) PROVE RowsTell'
  BY <1>8 DEF Sign, Goto, Event
<1>9. ASSUME NEW c \in Calls, SignFails(c) PROVE RowsTell'
  BY <1>9 DEF SignFails, Goto
<1>10. ASSUME NEW c \in Calls, Commit(c) PROVE RowsTell'
  BY <1>10 DEF Commit, Goto
<1>11. ASSUME NEW c \in Calls, Retry(c) PROVE RowsTell'
  BY <1>11 DEF Retry, Goto
<1>12. ASSUME NEW c \in Calls, RetryFails(c) PROVE RowsTell'
  BY <1>12 DEF RetryFails, Goto, SetStatus
<1>13. ASSUME NEW c \in Calls, Settled(c) PROVE RowsTell'
  BY <1>13 DEF Settled, Goto, Lie
<1>14. ASSUME NEW c \in Calls, Unsettled(c) PROVE RowsTell'
  BY <1>14 DEF Unsettled, Goto, SetStatus, Lie
<1>15. ASSUME NEW c \in Calls, Unconfirmed(c) PROVE RowsTell'
  BY <1>15 DEF Unconfirmed, Goto
<1>16. ASSUME NEW c \in Calls, Body(c) PROVE RowsTell'
  BY <1>16 DEF Body, Goto
<1>17. ASSUME NEW c \in Calls, BodyLost(c) PROVE RowsTell'
  BY <1>17 DEF BodyLost, Goto, SetStatus
<1>18. ASSUME NEW c \in Calls, WatchFinds(c) PROVE RowsTell'
  BY <1>18 DEF WatchFinds, Goto, SetStatus, Indexed
<1>19. ASSUME NEW c \in Calls, WatchGivesUp(c) PROVE RowsTell'
  BY <1>19 DEF WatchGivesUp, Goto
<1>20. ASSUME NEW c \in Calls, Submit(c) PROVE RowsTell'
  BY <1>20 DEF Submit
<1>21. ASSUME NEW c \in Calls, LeaveHour(c) PROVE RowsTell'
  BY <1>21 DEF LeaveHour
<1>22. ASSUME NEW c \in Calls, LeaveDay(c) PROVE RowsTell'
  BY <1>22 DEF LeaveDay
<1>23. ASSUME NEW e \in Entries, EditAllowlist(e) PROVE RowsTell'
  BY <1>23 DEF EditAllowlist, Edited, Event
<1>24. CASE Restart
  BY <1>24 DEF Restart, Event
<1>25. CASE UNCHANGED vars
  BY <1>25 DEF vars
<1> QED
  BY <1>1, <1>2, <1>3, <1>4, <1>5, <1>6, <1>7, <1>8, <1>9, <1>10, <1>11, <1>12, <1>13,
     <1>14, <1>15, <1>16, <1>17, <1>18, <1>19, <1>20, <1>21, <1>22, <1>23, <1>24, <1>25
  DEF Next, Rules, Vault, Exchange, Watch

\* SUCCESS is written of what moved, and what moved stays moved.
LEMMA SuccessStep ==
  ASSUME TypeOK, Unsent, SuccessIsReal, [Next]_vars
  PROVE  SuccessIsReal'
<1> USE DEF TypeOK, Unsent, SuccessIsReal, Ended, local, tables, history
<1>1. ASSUME NEW c \in Calls, Begin(c) PROVE SuccessIsReal'
  BY <1>1 DEF Begin, Goto
<1>2. ASSUME NEW c \in Calls, ProbeEnds(c) PROVE SuccessIsReal'
  BY <1>2 DEF ProbeEnds, Goto
<1>3. ASSUME NEW c \in Calls, ProbeAsks(c) PROVE SuccessIsReal'
  BY <1>3 DEF ProbeAsks, Goto
<1>4. ASSUME NEW c \in Calls, Log(c) PROVE SuccessIsReal'
  BY <1>4 DEF Log, Goto, Event
<1>5. ASSUME NEW c \in Calls, Count(c) PROVE SuccessIsReal'
  BY <1>5 DEF Count, Goto, Event
<1>6. ASSUME NEW c \in Calls, Reserve(c) PROVE SuccessIsReal'
  BY <1>6 DEF Reserve, Goto
<1>7. ASSUME NEW c \in Calls, Refuse(c) PROVE SuccessIsReal'
  BY <1>7 DEF Refuse, Goto
<1>8. ASSUME NEW c \in Calls, Sign(c) PROVE SuccessIsReal'
  BY <1>8 DEF Sign, Goto, Event
<1>9. ASSUME NEW c \in Calls, SignFails(c) PROVE SuccessIsReal'
  BY <1>9 DEF SignFails, Goto
<1>10. ASSUME NEW c \in Calls, Commit(c) PROVE SuccessIsReal'
  BY <1>10 DEF Commit, Goto
<1>11. ASSUME NEW c \in Calls, Retry(c) PROVE SuccessIsReal'
  BY <1>11 DEF Retry, Goto
<1>12. ASSUME NEW c \in Calls, RetryFails(c) PROVE SuccessIsReal'
  BY <1>12 DEF RetryFails, Goto, SetStatus
<1>13. ASSUME NEW c \in Calls, Settled(c) PROVE SuccessIsReal'
  BY <1>13 DEF Settled, Goto, Lie
<1>14. ASSUME NEW c \in Calls, Unsettled(c) PROVE SuccessIsReal'
  BY <1>14 DEF Unsettled, Goto, SetStatus, Lie
<1>15. ASSUME NEW c \in Calls, Unconfirmed(c) PROVE SuccessIsReal'
  BY <1>15 DEF Unconfirmed, Goto
<1>16. ASSUME NEW c \in Calls, Body(c) PROVE SuccessIsReal'
  BY <1>16 DEF Body, Goto
<1>17. ASSUME NEW c \in Calls, BodyLost(c) PROVE SuccessIsReal'
  BY <1>17 DEF BodyLost, Goto, SetStatus
<1>18. ASSUME NEW c \in Calls, WatchFinds(c) PROVE SuccessIsReal'
  BY <1>18 DEF WatchFinds, Goto, SetStatus, Indexed
<1>19. ASSUME NEW c \in Calls, WatchGivesUp(c) PROVE SuccessIsReal'
  BY <1>19 DEF WatchGivesUp, Goto
<1>20. ASSUME NEW c \in Calls, Submit(c) PROVE SuccessIsReal'
  BY <1>20 DEF Submit
<1>21. ASSUME NEW c \in Calls, LeaveHour(c) PROVE SuccessIsReal'
  BY <1>21 DEF LeaveHour
<1>22. ASSUME NEW c \in Calls, LeaveDay(c) PROVE SuccessIsReal'
  BY <1>22 DEF LeaveDay
<1>23. ASSUME NEW e \in Entries, EditAllowlist(e) PROVE SuccessIsReal'
  BY <1>23 DEF EditAllowlist, Edited, Event
<1>24. CASE Restart
  BY <1>24 DEF Restart, Event
<1>25. CASE UNCHANGED vars
  BY <1>25 DEF vars
<1> QED
  BY <1>1, <1>2, <1>3, <1>4, <1>5, <1>6, <1>7, <1>8, <1>9, <1>10, <1>11, <1>12, <1>13,
     <1>14, <1>15, <1>16, <1>17, <1>18, <1>19, <1>20, <1>21, <1>22, <1>23, <1>24, <1>25
  DEF Next, Rules, Vault, Exchange, Watch

\* A hold comes with its call to the signature, and goes with it.
LEMMA HoldsStep ==
  ASSUME TypeOK, Alone, HoldsMatchCalls, [Next]_vars
  PROVE  HoldsMatchCalls'
<1> USE DEF TypeOK, Alone, HoldsMatchCalls, Reserving, Ended, local, tables, history
<1>1. ASSUME NEW c \in Calls, Begin(c) PROVE HoldsMatchCalls'
  BY <1>1 DEF Begin, Goto
<1>2. ASSUME NEW c \in Calls, ProbeEnds(c) PROVE HoldsMatchCalls'
  BY <1>2 DEF ProbeEnds, Goto
<1>3. ASSUME NEW c \in Calls, ProbeAsks(c) PROVE HoldsMatchCalls'
  BY <1>3 DEF ProbeAsks, Goto
<1>4. ASSUME NEW c \in Calls, Log(c) PROVE HoldsMatchCalls'
  BY <1>4 DEF Log, Goto, Event
<1>5. ASSUME NEW c \in Calls, Count(c) PROVE HoldsMatchCalls'
  BY <1>5 DEF Count, Goto, Event
<1>6. ASSUME NEW c \in Calls, Reserve(c) PROVE HoldsMatchCalls'
  BY <1>6 DEF Reserve, Goto
<1>7. ASSUME NEW c \in Calls, Refuse(c) PROVE HoldsMatchCalls'
  BY <1>7 DEF Refuse, Goto
<1>8. ASSUME NEW c \in Calls, Sign(c) PROVE HoldsMatchCalls'
  BY <1>8 DEF Sign, Goto, Event
<1>9. ASSUME NEW c \in Calls, SignFails(c) PROVE HoldsMatchCalls'
  BY <1>9 DEF SignFails, Goto
<1>10. ASSUME NEW c \in Calls, Commit(c) PROVE HoldsMatchCalls'
  BY <1>10 DEF Commit, Goto
<1>11. ASSUME NEW c \in Calls, Retry(c) PROVE HoldsMatchCalls'
  BY <1>11 DEF Retry, Goto
<1>12. ASSUME NEW c \in Calls, RetryFails(c) PROVE HoldsMatchCalls'
  BY <1>12 DEF RetryFails, Goto, SetStatus
<1>13. ASSUME NEW c \in Calls, Settled(c) PROVE HoldsMatchCalls'
  BY <1>13 DEF Settled, Goto, Lie
<1>14. ASSUME NEW c \in Calls, Unsettled(c) PROVE HoldsMatchCalls'
  BY <1>14 DEF Unsettled, Goto, SetStatus, Lie
<1>15. ASSUME NEW c \in Calls, Unconfirmed(c) PROVE HoldsMatchCalls'
  BY <1>15 DEF Unconfirmed, Goto
<1>16. ASSUME NEW c \in Calls, Body(c) PROVE HoldsMatchCalls'
  BY <1>16 DEF Body, Goto
<1>17. ASSUME NEW c \in Calls, BodyLost(c) PROVE HoldsMatchCalls'
  BY <1>17 DEF BodyLost, Goto, SetStatus
<1>18. ASSUME NEW c \in Calls, WatchFinds(c) PROVE HoldsMatchCalls'
  BY <1>18 DEF WatchFinds, Goto, SetStatus, Indexed
<1>19. ASSUME NEW c \in Calls, WatchGivesUp(c) PROVE HoldsMatchCalls'
  BY <1>19 DEF WatchGivesUp, Goto
<1>20. ASSUME NEW c \in Calls, Submit(c) PROVE HoldsMatchCalls'
  BY <1>20 DEF Submit
<1>21. ASSUME NEW c \in Calls, LeaveHour(c) PROVE HoldsMatchCalls'
  BY <1>21 DEF LeaveHour
<1>22. ASSUME NEW c \in Calls, LeaveDay(c) PROVE HoldsMatchCalls'
  BY <1>22 DEF LeaveDay
<1>23. ASSUME NEW e \in Entries, EditAllowlist(e) PROVE HoldsMatchCalls'
  BY <1>23 DEF EditAllowlist, Edited, Event
<1>24. CASE Restart
  BY <1>24 DEF Restart, Event
<1>25. CASE UNCHANGED vars
  BY <1>25 DEF vars
<1> QED
  BY <1>1, <1>2, <1>3, <1>4, <1>5, <1>6, <1>7, <1>8, <1>9, <1>10, <1>11, <1>12, <1>13,
     <1>14, <1>15, <1>16, <1>17, <1>18, <1>19, <1>20, <1>21, <1>22, <1>23, <1>24, <1>25
  DEF Next, Rules, Vault, Exchange, Watch

-----------------------------------------------------------------------------
(***************************************************************************)
(* The rate limit.  Attempts that passed on a count only become more when  *)
(* a call counts, and it counts all of them.                               *)
(***************************************************************************)
Passed(u) == (Attempts(u) \cap passed) \ unread

\* Any attempts of one url can be counted.
LEMMA AttemptsFinite ==
  ASSUME TypeOK, NEW u \in Urls, NEW S \in SUBSET Attempts(u)
  PROVE  /\ Cardinality(S) \in Nat /\ Cardinality(Attempts(u)) \in Nat
         /\ Cardinality(S) <= Cardinality(Attempts(u))
<1>1. IsFiniteSet(Attempts(u))
  BY X402Assumption, FS_Subset DEF TypeOK, Attempts
<1> QED BY <1>1, FS_Subset, FS_CardinalityType

\* Fewer attempts that passed are within the limit, too.
LEMMA FewerPassed ==
  ASSUME TypeOK, RateBound, NEW u \in Urls, NEW S \in SUBSET Passed(u)
  PROVE  Cardinality(S) <= RateMax
<1>1. IsFiniteSet(Passed(u))
  BY X402Assumption, FS_Subset DEF TypeOK, Attempts, Passed
<1>2. Cardinality(S) <= Cardinality(Passed(u)) /\ Cardinality(S) \in Nat
       /\ Cardinality(Passed(u)) \in Nat
  BY <1>1, FS_Subset, FS_CardinalityType
<1>3. Cardinality(Passed(u)) <= RateMax
  BY DEF RateBound, Passed
<1> QED BY <1>2, <1>3, X402Assumption

\* A call counts all attempts that passed before it passes.
LEMMA RateStep ==
  ASSUME TypeOK, PassedOn, RateBound, [Next]_vars
  PROVE  RateBound'
<1> SUFFICES ASSUME NEW u \in Urls
             PROVE  Cardinality(Passed(u)') <= RateMax
  BY DEF RateBound, Passed
<1>1. ASSUME NEW c \in Calls, Count(c) PROVE Cardinality(Passed(u)') <= RateMax
  <2>1. CASE passed' = passed \/ UrlOf[c] # u \/ c \in unread'
    <3>1. Passed(u)' \subseteq Passed(u)
      BY <1>1, <2>1 DEF Count, Passed, Attempts, tables, TypeOK
    <3> QED BY <3>1, FewerPassed
  <2>2. CASE UrlOf[c] = u /\ ~(Cardinality(Attempts(u)) > RateMax)
    <3>1. Passed(u)' \subseteq Attempts(u)
      BY <1>1 DEF Count, Passed, Attempts, tables
    <3> QED BY <2>2, <3>1, AttemptsFinite, X402Assumption
  <2> QED BY <1>1, <2>1, <2>2, X402Assumption, AttemptsFinite DEF Count, TypeOK
<1>2. CASE passed' = passed /\ unread' = unread /\ logged' \subseteq logged
  <2>1. Passed(u)' \subseteq Passed(u)
    BY <1>2 DEF Passed, Attempts
  <2> QED BY <2>1, FewerPassed
<1>3. ASSUME NEW c \in Calls, Log(c) PROVE Cardinality(Passed(u)') <= RateMax
  <2>1. c \notin passed
    BY <1>3 DEF Log, PassedOn
  <2>2. Passed(u)' \subseteq Passed(u)
    BY <1>3, <2>1 DEF Log, Passed, Attempts
  <2> QED BY <2>2, FewerPassed
<1>4. \/ \E c \in Calls : Count(c) \/ Log(c)
      \/ passed' = passed /\ unread' = unread /\ logged' \subseteq logged
  BY DEF Next, Rules, Vault, Exchange, Watch, Begin, ProbeEnds, ProbeAsks, Reserve, Refuse,
         Sign, SignFails, Commit, Retry, RetryFails, Settled, Unsettled, Unconfirmed, Body,
         BodyLost, WatchFinds, WatchGivesUp, Submit, LeaveHour, LeaveDay, EditAllowlist,
         Restart, vars, tables, history
<1> QED BY <1>1, <1>2, <1>3, <1>4

-----------------------------------------------------------------------------
(***************************************************************************)
(* The results.                                                            *)
(***************************************************************************)
X402Inv == /\ TypeOK /\ Unsent /\ PassedOn /\ Alone /\ RowsTell
           /\ HoldsMatchCalls /\ SuccessIsReal /\ RateBound

\* Nothing has happened in an initial state.
LEMMA InitInv == Init => X402Inv
<1> SUFFICES ASSUME Init PROVE X402Inv
  OBVIOUS
<1>1. TypeOK
  BY InitType
<1>2. Unsent /\ PassedOn /\ Alone /\ RowsTell /\ HoldsMatchCalls /\ SuccessIsReal
  BY DEF Init, Unsent, PassedOn, Alone, Reserving, RowsTell, HoldsMatchCalls, SuccessIsReal
<1>3. RateBound
  <2> SUFFICES ASSUME NEW u \in Urls PROVE Cardinality(Passed(u)) <= RateMax
    BY DEF RateBound, Passed
  <2>1. Passed(u) = {}
    BY DEF Init, Passed
  <2> QED BY <2>1, FS_EmptySet, X402Assumption
<1> QED BY <1>1, <1>2, <1>3 DEF X402Inv

\* The parts are inductive one after another.
LEMMA InvStep == X402Inv /\ [Next]_vars => X402Inv'
  BY TypeStep, UnsentStep, PassedStep, AloneStep, RowsStep, HoldsStep, SuccessStep, RateStep
  DEF X402Inv

(***************************************************************************)
(* Every reachable state satisfies the inductive invariant: whatever the   *)
(* calls, servers, facilitator, crashes and edits of the allowlist do.     *)
(***************************************************************************)
THEOREM X402Invariant == Spec => []X402Inv
<1> QED BY InitInv, InvStep, PTL DEF Spec

(***************************************************************************)
(* The calls, the five tables' columns and the ledger keep their types; a  *)
(* call past its probe has terms.                                          *)
(***************************************************************************)
THEOREM X402Typing == Spec => []TypeOK
<1>1. X402Inv => TypeOK
  BY DEF X402Inv
<1> QED BY <1>1, X402Invariant, PTL

(***************************************************************************)
(* No error path of the vault leaks a hold, and no call that is about to   *)
(* sign has lost its own, for any number of calls and keys.                *)
(***************************************************************************)
THEOREM HoldsBelong == Spec => []HoldsMatchCalls
<1>1. X402Inv => HoldsMatchCalls
  BY DEF X402Inv
<1> QED BY <1>1, X402Invariant, PTL

(***************************************************************************)
(* Of the logged attempts of one hour at one url, at most RateMax pass     *)
(* without an error of the count, however many calls log and count at      *)
(* once.                                                                   *)
(***************************************************************************)
THEOREM RateLimited == Spec => []RateBound
<1>1. X402Inv => RateBound
  BY DEF X402Inv
<1> QED BY <1>1, X402Invariant, PTL

(***************************************************************************)
(* What the daemon calls SUCCESS moved, unless a server lied about it.     *)
(***************************************************************************)
THEOREM SuccessMoved == Spec => []SuccessIsReal
<1>1. X402Inv => SuccessIsReal
  BY DEF X402Inv
<1> QED BY <1>1, X402Invariant, PTL

(***************************************************************************)
(* Money that moved is counted by the cap for a day, except where its row  *)
(* could not be written, its call ended with delivery_failed, or a server  *)
(* lied.                                                                   *)
(***************************************************************************)
THEOREM MovedIsCounted == Spec => []UncountedIsUnheard
<1>1. X402Inv => UncountedIsUnheard
  BY DEF X402Inv, TypeOK, Statuses, RowsTell, UncountedIsUnheard, Committed, Aged, Unrecorded
<1> QED BY <1>1, X402Invariant, PTL

-----------------------------------------------------------------------------
(***************************************************************************)
(* The day's cap over x402 payments, for any calls, keys and prices.       *)
(***************************************************************************)

\* Nothing has happened that the cap does not promise to bear.
Clean == odd \cap {"shared", "stale", "negative", "lie"} = {}

\* A row in payments has been signed for, which only a positive price allows.
Signed ==
  \A c \in Calls :
    rows[c] # "none" =>
      /\ pc[c] \notin {"idle", "probe", "log", "count", "reserve", "sign"}
      /\ key[c] \in Keys \ Unsignable

\* A watch polls for its own call's transaction.
OwnClaim ==
  "lie" \notin odd => \A c \in Calls : pc[c] \in {"body", "paid"} => claimed[c] = c

\* No hold lowers the sum of the others.
NonNegative == "negative" \notin odd => \A k \in holds : Amount[k] >= 0

\* D: calls that a crash ended between their row and their commit.
Stranded(D) ==
  /\ \A c \in D : pc[c] = "dead" /\ key[c] \in holds
  /\ \A c \in D, d \in Calls : (d \in D \/ Reserving(d)) /\ key[c] = key[d] => c = d

\* The rows whose hold is not there any more.
Counted(D) == {c \in Committed : pc[c] # "commit" /\ c \notin D}

(***************************************************************************)
(* BudgetHolds is not inductive: it leaves out every dead call whose key   *)
(* has a hold, even where the hold is a later call's, and would count it   *)
(* again when that hold goes.  What is inductive is that the calls whose   *)
(* own hold a crash left can be told apart from the others.                *)
(***************************************************************************)
Covered ==
  Clean => \E D \in SUBSET Calls : Stranded(D) /\ SumCalls(Counted(D)) + Held <= DayCap

\* The day's cap, with the rows and holds it is the sum of.
BudgetInv == X402Inv /\ Signed /\ OwnClaim /\ NonNegative /\ Covered

-----------------------------------------------------------------------------
\* A row is written at the signature, after which a call has its terms for good.
LEMMA SignedStep ==
  ASSUME TypeOK, Signed, [Next]_vars
  PROVE  Signed'
<1> USE DEF TypeOK, Signed, Ended, local, tables, history
<1>1. ASSUME NEW c \in Calls, Begin(c) PROVE Signed'
  BY <1>1 DEF Begin, Goto
<1>2. ASSUME NEW c \in Calls, ProbeEnds(c) PROVE Signed'
  BY <1>2 DEF ProbeEnds, Goto
<1>3. ASSUME NEW c \in Calls, ProbeAsks(c) PROVE Signed'
  BY <1>3 DEF ProbeAsks, Goto
<1>4. ASSUME NEW c \in Calls, Log(c) PROVE Signed'
  BY <1>4 DEF Log, Goto, Event
<1>5. ASSUME NEW c \in Calls, Count(c) PROVE Signed'
  BY <1>5 DEF Count, Goto, Event
<1>6. ASSUME NEW c \in Calls, Reserve(c) PROVE Signed'
  BY <1>6 DEF Reserve, Goto
<1>7. ASSUME NEW c \in Calls, Refuse(c) PROVE Signed'
  BY <1>7 DEF Refuse, Goto
<1>8. ASSUME NEW c \in Calls, Sign(c) PROVE Signed'
  BY <1>8, X402Assumption DEF Sign, Signable, Goto
<1>9. ASSUME NEW c \in Calls, SignFails(c) PROVE Signed'
  BY <1>9 DEF SignFails, Goto
<1>10. ASSUME NEW c \in Calls, Commit(c) PROVE Signed'
  BY <1>10 DEF Commit, Goto
<1>11. ASSUME NEW c \in Calls, Retry(c) PROVE Signed'
  BY <1>11 DEF Retry, Goto
<1>12. ASSUME NEW c \in Calls, RetryFails(c) PROVE Signed'
  BY <1>12 DEF RetryFails, Goto, SetStatus
<1>13. ASSUME NEW c \in Calls, Settled(c) PROVE Signed'
  <2>1. \A d \in Calls : rows'[d] # "none" => rows[d] # "none"
    BY <1>13 DEF Settled
  <2> QED BY <1>13, <2>1 DEF Settled, Goto
<1>14. ASSUME NEW c \in Calls, Unsettled(c) PROVE Signed'
  BY <1>14 DEF Unsettled, Goto, SetStatus, Lie
<1>15. ASSUME NEW c \in Calls, Unconfirmed(c) PROVE Signed'
  BY <1>15 DEF Unconfirmed, Goto
<1>16. ASSUME NEW c \in Calls, Body(c) PROVE Signed'
  BY <1>16 DEF Body, Goto
<1>17. ASSUME NEW c \in Calls, BodyLost(c) PROVE Signed'
  BY <1>17 DEF BodyLost, Goto, SetStatus
<1>18. ASSUME NEW c \in Calls, WatchFinds(c) PROVE Signed'
  BY <1>18 DEF WatchFinds, Goto, SetStatus, Indexed
<1>19. ASSUME NEW c \in Calls, WatchGivesUp(c) PROVE Signed'
  BY <1>19 DEF WatchGivesUp, Goto
<1>20. ASSUME NEW c \in Calls, Submit(c) PROVE Signed'
  BY <1>20 DEF Submit
<1>21. ASSUME NEW c \in Calls, LeaveHour(c) PROVE Signed'
  BY <1>21 DEF LeaveHour
<1>22. ASSUME NEW c \in Calls, LeaveDay(c) PROVE Signed'
  BY <1>22 DEF LeaveDay
<1>23. ASSUME NEW e \in Entries, EditAllowlist(e) PROVE Signed'
  BY <1>23 DEF EditAllowlist, Edited, Event
<1>24. CASE Restart
  BY <1>24 DEF Restart, Event
<1>25. CASE UNCHANGED vars
  BY <1>25 DEF vars
<1> QED
  BY <1>1, <1>2, <1>3, <1>4, <1>5, <1>6, <1>7, <1>8, <1>9, <1>10, <1>11, <1>12, <1>13,
     <1>14, <1>15, <1>16, <1>17, <1>18, <1>19, <1>20, <1>21, <1>22, <1>23, <1>24, <1>25
  DEF Next, Rules, Vault, Exchange, Watch

\* Only a server that lies names another transaction than the one it was sent.
LEMMA ClaimStep ==
  ASSUME TypeOK, OwnClaim, [Next]_vars
  PROVE  OwnClaim'
<1> USE DEF TypeOK, OwnClaim, Ended, local, tables, history
<1>1. ASSUME NEW c \in Calls, Begin(c) PROVE OwnClaim'
  BY <1>1 DEF Begin, Goto
<1>2. ASSUME NEW c \in Calls, ProbeEnds(c) PROVE OwnClaim'
  BY <1>2 DEF ProbeEnds, Goto
<1>3. ASSUME NEW c \in Calls, ProbeAsks(c) PROVE OwnClaim'
  BY <1>3 DEF ProbeAsks, Goto
<1>4. ASSUME NEW c \in Calls, Log(c) PROVE OwnClaim'
  BY <1>4 DEF Log, Goto, Event
<1>5. ASSUME NEW c \in Calls, Count(c) PROVE OwnClaim'
  BY <1>5 DEF Count, Goto, Event
<1>6. ASSUME NEW c \in Calls, Reserve(c) PROVE OwnClaim'
  BY <1>6 DEF Reserve, Goto
<1>7. ASSUME NEW c \in Calls, Refuse(c) PROVE OwnClaim'
  BY <1>7 DEF Refuse, Goto
<1>8. ASSUME NEW c \in Calls, Sign(c) PROVE OwnClaim'
  BY <1>8 DEF Sign, Signable, Goto
<1>9. ASSUME NEW c \in Calls, SignFails(c) PROVE OwnClaim'
  BY <1>9 DEF SignFails, Goto
<1>10. ASSUME NEW c \in Calls, Commit(c) PROVE OwnClaim'
  BY <1>10 DEF Commit, Goto
<1>11. ASSUME NEW c \in Calls, Retry(c) PROVE OwnClaim'
  BY <1>11 DEF Retry, Goto
<1>12. ASSUME NEW c \in Calls, RetryFails(c) PROVE OwnClaim'
  BY <1>12 DEF RetryFails, Goto, SetStatus
<1>13. ASSUME NEW c \in Calls, Settled(c) PROVE OwnClaim'
  BY <1>13 DEF Settled, Goto, Lie
<1>14. ASSUME NEW c \in Calls, Unsettled(c) PROVE OwnClaim'
  BY <1>14 DEF Unsettled, Goto, SetStatus, Lie
<1>15. ASSUME NEW c \in Calls, Unconfirmed(c) PROVE OwnClaim'
  BY <1>15 DEF Unconfirmed, Goto
<1>16. ASSUME NEW c \in Calls, Body(c) PROVE OwnClaim'
  BY <1>16 DEF Body, Goto
<1>17. ASSUME NEW c \in Calls, BodyLost(c) PROVE OwnClaim'
  BY <1>17 DEF BodyLost, Goto, SetStatus
<1>18. ASSUME NEW c \in Calls, WatchFinds(c) PROVE OwnClaim'
  BY <1>18 DEF WatchFinds, Goto, SetStatus, Indexed
<1>19. ASSUME NEW c \in Calls, WatchGivesUp(c) PROVE OwnClaim'
  BY <1>19 DEF WatchGivesUp, Goto
<1>20. ASSUME NEW c \in Calls, Submit(c) PROVE OwnClaim'
  BY <1>20 DEF Submit
<1>21. ASSUME NEW c \in Calls, LeaveHour(c) PROVE OwnClaim'
  BY <1>21 DEF LeaveHour
<1>22. ASSUME NEW c \in Calls, LeaveDay(c) PROVE OwnClaim'
  BY <1>22 DEF LeaveDay
<1>23. ASSUME NEW e \in Entries, EditAllowlist(e) PROVE OwnClaim'
  BY <1>23 DEF EditAllowlist, Edited, Event
<1>24. CASE Restart
  BY <1>24 DEF Restart, Event
<1>25. CASE UNCHANGED vars
  BY <1>25 DEF vars
<1> QED
  BY <1>1, <1>2, <1>3, <1>4, <1>5, <1>6, <1>7, <1>8, <1>9, <1>10, <1>11, <1>12, <1>13,
     <1>14, <1>15, <1>16, <1>17, <1>18, <1>19, <1>20, <1>21, <1>22, <1>23, <1>24, <1>25
  DEF Next, Rules, Vault, Exchange, Watch

\* Whoever reserves a negative amount is noted.
LEMMA NonNegativeStep ==
  ASSUME TypeOK, NonNegative, [Next]_vars
  PROVE  NonNegative'
<1> USE DEF TypeOK, NonNegative, Ended, Anomalies, local, tables, history
<1>1. ASSUME NEW c \in Calls, Begin(c) PROVE NonNegative'
  BY <1>1 DEF Begin, Goto
<1>2. ASSUME NEW c \in Calls, ProbeEnds(c) PROVE NonNegative'
  BY <1>2 DEF ProbeEnds, Goto
<1>3. ASSUME NEW c \in Calls, ProbeAsks(c) PROVE NonNegative'
  BY <1>3 DEF ProbeAsks, Goto
<1>4. ASSUME NEW c \in Calls, Log(c) PROVE NonNegative'
  BY <1>4 DEF Log, Goto, Event
<1>5. ASSUME NEW c \in Calls, Count(c) PROVE NonNegative'
  BY <1>5 DEF Count, Goto, Event
<1>6. ASSUME NEW c \in Calls, Reserve(c) PROVE NonNegative'
  <2>1. /\ odd \subseteq odd' /\ holds' = holds \cup {key[c]}
        /\ Amount[key[c]] < 0 => "negative" \in odd'
    BY <1>6 DEF Reserve
  <2>2. key[c] \in Keys /\ Amount[key[c]] \in Int
    BY <1>6, X402Assumption DEF Reserve
  <2> QED BY <2>1, <2>2
<1>7. ASSUME NEW c \in Calls, Refuse(c) PROVE NonNegative'
  BY <1>7 DEF Refuse, Goto
<1>8. ASSUME NEW c \in Calls, Sign(c) PROVE NonNegative'
  BY <1>8 DEF Sign, Signable, Goto
<1>9. ASSUME NEW c \in Calls, SignFails(c) PROVE NonNegative'
  BY <1>9 DEF SignFails, Goto
<1>10. ASSUME NEW c \in Calls, Commit(c) PROVE NonNegative'
  BY <1>10 DEF Commit, Goto
<1>11. ASSUME NEW c \in Calls, Retry(c) PROVE NonNegative'
  BY <1>11 DEF Retry, Goto
<1>12. ASSUME NEW c \in Calls, RetryFails(c) PROVE NonNegative'
  BY <1>12 DEF RetryFails, Goto, SetStatus
<1>13. ASSUME NEW c \in Calls, Settled(c) PROVE NonNegative'
  BY <1>13 DEF Settled, Goto, Lie
<1>14. ASSUME NEW c \in Calls, Unsettled(c) PROVE NonNegative'
  BY <1>14 DEF Unsettled, Goto, SetStatus, Lie
<1>15. ASSUME NEW c \in Calls, Unconfirmed(c) PROVE NonNegative'
  BY <1>15 DEF Unconfirmed, Goto
<1>16. ASSUME NEW c \in Calls, Body(c) PROVE NonNegative'
  BY <1>16 DEF Body, Goto
<1>17. ASSUME NEW c \in Calls, BodyLost(c) PROVE NonNegative'
  BY <1>17 DEF BodyLost, Goto, SetStatus
<1>18. ASSUME NEW c \in Calls, WatchFinds(c) PROVE NonNegative'
  BY <1>18 DEF WatchFinds, Goto, SetStatus, Indexed
<1>19. ASSUME NEW c \in Calls, WatchGivesUp(c) PROVE NonNegative'
  BY <1>19 DEF WatchGivesUp, Goto
<1>20. ASSUME NEW c \in Calls, Submit(c) PROVE NonNegative'
  BY <1>20 DEF Submit
<1>21. ASSUME NEW c \in Calls, LeaveHour(c) PROVE NonNegative'
  BY <1>21 DEF LeaveHour
<1>22. ASSUME NEW c \in Calls, LeaveDay(c) PROVE NonNegative'
  BY <1>22 DEF LeaveDay
<1>23. ASSUME NEW e \in Entries, EditAllowlist(e) PROVE NonNegative'
  BY <1>23 DEF EditAllowlist, Edited, Event
<1>24. CASE Restart
  BY <1>24 DEF Restart, Event
<1>25. CASE UNCHANGED vars
  BY <1>25 DEF vars
<1> QED
  BY <1>1, <1>2, <1>3, <1>4, <1>5, <1>6, <1>7, <1>8, <1>9, <1>10, <1>11, <1>12, <1>13,
     <1>14, <1>15, <1>16, <1>17, <1>18, <1>19, <1>20, <1>21, <1>22, <1>23, <1>24, <1>25
  DEF Next, Rules, Vault, Exchange, Watch

-----------------------------------------------------------------------------
(***************************************************************************)
(* Sums.                                                                   *)
(***************************************************************************)
Prices == [c \in Calls |-> Price(c)]

\* Negative holds aside, the sum of positive and negative holds is a plain sum.
LEMMA NetIsTotal ==
  ASSUME NEW H \in SUBSET Keys, \A k \in H : Amount[k] >= 0
  PROVE  /\ IsFiniteSet(H) /\ \A k \in H : Amount[k] \in Nat
         /\ Total(H, Amount) \in Nat
         /\ Total(H, Amount) - Total(H, [k \in Keys |-> -Amount[k]]) = Total(H, Amount)
<1>1. IsFiniteSet(H)
  BY X402Assumption, FS_Subset
<1>2. \A k \in H : Amount[k] \in Nat
  BY X402Assumption
<1>3. Total(H, [k \in Keys |-> -Amount[k]]) = 0
  <2> DEFINE w == [k \in Keys |-> -Amount[k]]
  <2>1. ASSUME NEW k \in H PROVE Units(k, w[k]) = {}
    <3>1. w[k] \in Int /\ w[k] <= 0
      BY <1>2
    <3>2. 1..w[k] = {}
      BY <3>1
    <3> QED BY <3>2 DEF Units
  <2>2. UNION {Units(k, w[k]) : k \in H} = {}
    BY <2>1
  <2> QED BY <2>2, FS_EmptySet DEF Total
<1>4. Total(H, Amount) \in Nat
  BY <1>1, <1>2, TotalIsNat
<1> QED BY <1>1, <1>2, <1>3, <1>4

\* get_daily_held_spend adds up what the holds reserve.
LEMMA HeldIsTotal ==
  ASSUME TypeOK, NonNegative, Clean
  PROVE  /\ Held = Total(holds, Amount) /\ Held \in Nat
         /\ IsFiniteSet(holds) /\ \A k \in holds : Amount[k] \in Nat
<1>1. holds \in SUBSET Keys /\ \A k \in holds : Amount[k] >= 0
  BY DEF TypeOK, NonNegative, Clean
<1> QED BY <1>1, NetIsTotal DEF Held

\* A row in the sum has a price, that of its key.
LEMMA CommittedPrices ==
  ASSUME TypeOK, RowsTell, Signed
  PROVE  /\ IsFiniteSet(Committed)
         /\ \A c \in Committed : key[c] \in Keys /\ Prices[c] = Amount[key[c]] /\ Prices[c] \in Nat
<1>1. Committed \subseteq Calls
  BY DEF Committed, TypeOK
<1>2. IsFiniteSet(Committed)
  BY <1>1, X402Assumption, FS_Subset
<1>3. ASSUME NEW c \in Committed
      PROVE  key[c] \in Keys /\ Prices[c] = Amount[key[c]] /\ Prices[c] \in Nat
  <2>1. key[c] \in Keys \ Unsignable
    BY <1>1 DEF Committed, Signed
  <2>2. Amount[key[c]] \in Int /\ Amount[key[c]] > 0
    BY <2>1, X402Assumption
  <2> QED BY <1>1, <2>1, <2>2 DEF Prices, Price
<1> QED BY <1>2, <1>3

\* Fewer rows at the same prices cost no more.
LEMMA FewerRows ==
  ASSUME TypeOK, RowsTell, Signed, NEW S \in SUBSET Committed, NEW R \in SUBSET S,
         NEW w, \A c \in R : w[c] = Prices[c]
  PROVE  Total(R, w) <= SumCalls(S) /\ Total(R, w) \in Nat /\ SumCalls(S) \in Nat
<1>1. IsFiniteSet(S) /\ IsFiniteSet(R)
  BY CommittedPrices, FS_Subset
<1>2. \A c \in S : Prices[c] \in Nat
  BY CommittedPrices
<1>3. Total(R, w) = Total(R, Prices)
  BY TotalSame
<1>4. Total(R, Prices) <= Total(S, Prices) /\ Total(R, Prices) \in Nat /\ Total(S, Prices) \in Nat
  BY <1>1, <1>2, TotalMonotone, TotalIsNat
<1> QED BY <1>3, <1>4 DEF SumCalls, Prices

-----------------------------------------------------------------------------
(***************************************************************************)
(* The steps that leave the holds alone.                                   *)
(***************************************************************************)
\* No row enters the sum or changes its price, and nobody reserves anew.
Quiet ==
  /\ holds' = holds /\ Clean
  /\ \A c \in Calls :
       /\ pc[c] = "dead" => pc'[c] = "dead"
       /\ Reserving(c)' => Reserving(c)
       /\ pc[c] = "dead" \/ Reserving(c) => key'[c] = key[c]
       /\ c \in Committed' /\ pc'[c] # "commit" =>
            c \in Committed /\ pc[c] # "commit" /\ key'[c] = key[c]

\* Without a change of holds or a new row the sum does not grow.
LEMMA QuietCovers ==
  ASSUME BudgetInv, TypeOK', Quiet
  PROVE  Covered'
<1> USE DEF BudgetInv, X402Inv
<1>1. PICK D \in SUBSET Calls : Stranded(D) /\ SumCalls(Counted(D)) + Held <= DayCap
  BY DEF Covered, Quiet
<1>2. Stranded(D)'
  BY <1>1 DEF Stranded, Quiet
<1>3. Counted(D)' \subseteq Counted(D)
  BY DEF Counted, Committed, Quiet, TypeOK
<1>4. \A c \in Counted(D)' : Prices'[c] = Prices[c]
  BY DEF Counted, Committed, Quiet, TypeOK, Prices, Price
<1>5. /\ Total(Counted(D)', Prices') <= SumCalls(Counted(D))
      /\ Total(Counted(D)', Prices') \in Nat /\ SumCalls(Counted(D)) \in Nat
  BY <1>3, <1>4, FewerRows DEF Counted
<1>6. SumCalls(Counted(D))' = Total(Counted(D)', Prices')
  BY DEF SumCalls, Prices
<1>7. Held' = Held /\ Held \in Nat
  BY HeldIsTotal DEF Held, Quiet
<1>8. SumCalls(Counted(D))' + Held' <= DayCap
  BY <1>1, <1>5, <1>6, <1>7, X402Assumption
<1> QED BY <1>2, <1>8 DEF Covered

\* The steps that only take rows out of the sum, or do not touch it.
LEMMA QuietStep ==
  ASSUME BudgetInv, Clean', NEW c \in Calls,
         \/ Begin(c) \/ ProbeEnds(c) \/ ProbeAsks(c) \/ Log(c) \/ Count(c) \/ Refuse(c)
         \/ Sign(c) \/ Retry(c) \/ RetryFails(c) \/ Unsettled(c) \/ Unconfirmed(c) \/ Body(c)
         \/ BodyLost(c) \/ WatchGivesUp(c) \/ Submit(c) \/ LeaveHour(c) \/ LeaveDay(c)
  PROVE  Quiet
<1> USE DEF BudgetInv, X402Inv, TypeOK, Quiet, Clean, Reserving, Committed, Ended, local,
            tables, history, Goto
<1>1. CASE Begin(c)
  BY <1>1 DEF Begin
<1>2. CASE ProbeEnds(c)
  BY <1>2 DEF ProbeEnds
<1>3. CASE ProbeAsks(c)
  BY <1>3 DEF ProbeAsks, Signed
<1>4. CASE Log(c)
  BY <1>4 DEF Log, Event
<1>5. CASE Count(c)
  BY <1>5 DEF Count
<1>6. CASE Refuse(c)
  BY <1>6 DEF Refuse
<1>7. CASE Sign(c)
  BY <1>7 DEF Sign, Event
<1>8. CASE Retry(c)
  BY <1>8 DEF Retry
<1>9. CASE RetryFails(c)
  BY <1>9 DEF RetryFails, SetStatus
<1>10. CASE Unsettled(c)
  BY <1>10 DEF Unsettled, SetStatus, Lie
<1>11. CASE Unconfirmed(c)
  BY <1>11 DEF Unconfirmed
<1>12. CASE Body(c)
  BY <1>12 DEF Body
<1>13. CASE BodyLost(c)
  BY <1>13 DEF BodyLost, SetStatus
<1>14. CASE WatchGivesUp(c)
  BY <1>14 DEF WatchGivesUp
<1>15. CASE Submit(c)
  BY <1>15 DEF Submit
<1>16. CASE LeaveHour(c)
  BY <1>16 DEF LeaveHour
<1>17. CASE LeaveDay(c)
  BY <1>17 DEF LeaveDay
<1> QED
  BY <1>1, <1>2, <1>3, <1>4, <1>5, <1>6, <1>7, <1>8, <1>9, <1>10, <1>11, <1>12, <1>13,
     <1>14, <1>15, <1>16, <1>17

\* A report that is true confirms a row that was counted before.
LEMMA SettledQuiet ==
  ASSUME BudgetInv, Clean', NEW c \in Calls, Settled(c)
  PROVE  Quiet
<1> USE DEF BudgetInv, X402Inv, TypeOK, Reserving, Committed, Ended, Goto
<1>1. /\ ledger[c] = "moved" /\ Clean
      /\ \A d \in Calls : rows'[d] # rows[d] => d = c /\ rows[c] # "none"
  BY DEF Settled, Lie, Clean
<1>2. rows[c] = "none" \/ rows[c] \in {"SUCCESS", "PENDING"}
  BY <1>1 DEF RowsTell, Settled, Statuses, Clean
<1> QED BY <1>1, <1>2 DEF Settled, Quiet

\* A watch confirms a row that was counted, or takes it out.
LEMMA WatchQuiet ==
  ASSUME BudgetInv, Clean', NEW c \in Calls, WatchFinds(c)
  PROVE  Quiet
<1> USE DEF BudgetInv, X402Inv, TypeOK, Reserving, Committed, Ended, Goto, history
<1>1. claimed[c] = c /\ Clean
  BY DEF WatchFinds, OwnClaim, Clean
<1>2. rows[c] \in {"SUCCESS", "PENDING"} \/ rows'[c] = rows[c] \/ rows'[c] = "FAILED"
  BY <1>1 DEF RowsTell, WatchFinds, SetStatus, Indexed, Statuses, Clean
<1>3. \A d \in Calls : rows'[d] # rows[d] => d = c
  BY <1>1 DEF WatchFinds, SetStatus
<1> QED BY <1>1, <1>2, <1>3 DEF WatchFinds, Quiet

-----------------------------------------------------------------------------
(***************************************************************************)
(* The steps that change the holds.                                        *)
(***************************************************************************)
\* try_reserve_spend compares the new hold with all that is counted and held.
LEMMA ReserveCovers ==
  ASSUME BudgetInv, TypeOK', NonNegative', NEW c \in Calls, Reserve(c)
  PROVE  Covered'
<1> SUFFICES ASSUME Clean' PROVE Covered'
  BY DEF Covered
<1> USE DEF BudgetInv, X402Inv
<1> DEFINE k == key[c]
<1>1. k \in Keys /\ Amount[k] \in Int
  BY X402Assumption DEF Reserve, TypeOK
<1>2. Clean /\ k \notin holds /\ Fits(k) /\ holds' = holds \cup {k}
  BY DEF Reserve, Clean, Anomalies
<1>3. PICK D \in SUBSET Calls : Stranded(D) /\ SumCalls(Counted(D)) + Held <= DayCap
  BY <1>2 DEF Covered
<1>4. Stranded(D)'
  BY <1>2, <1>3 DEF Stranded, Reserve, Reserving, Goto, TypeOK
<1>5. Counted(D)' \subseteq Committed /\ Prices' = Prices
  BY DEF Counted, Committed, Prices, Price, Reserve
<1>6. /\ Total(Counted(D)', Prices) <= SumCalls(Committed)
      /\ Total(Counted(D)', Prices) \in Nat /\ SumCalls(Committed) \in Nat
  BY <1>5, FewerRows
<1>7. Held' = Held + Amount[k] /\ Held \in Nat
  <2>1. Held = Total(holds, Amount) /\ IsFiniteSet(holds) /\ \A l \in holds : Amount[l] \in Nat
    BY <1>2, HeldIsTotal
  <2>2. Held' = Total(holds', Amount) /\ Amount[k] \in Nat
    <3>1. holds' \in SUBSET Keys /\ \A l \in holds' : Amount[l] >= 0
      BY DEF TypeOK, NonNegative, Clean
    <3> QED BY <1>2, <3>1, NetIsTotal DEF Held
  <2> QED BY <1>2, <2>1, <2>2, HeldIsTotal, TotalAdd
<1>8. SumCalls(Committed) + Held + Amount[k] <= DayCap
  BY <1>2 DEF Fits
<1>9. SumCalls(Counted(D))' = Total(Counted(D)', Prices)
  BY <1>5 DEF SumCalls, Prices
<1>10. SumCalls(Counted(D))' + Held' <= DayCap
  BY <1>1, <1>6, <1>7, <1>8, <1>9, X402Assumption
<1> QED BY <1>4, <1>10 DEF Covered

\* A hold goes with its amount.
LEMMA HeldWithout ==
  ASSUME TypeOK, NonNegative, Clean, NEW k \in holds, holds' = holds \ {k}
  PROVE  Held' = Held - Amount[k] /\ Held \in Nat /\ Amount[k] \in Nat
<1>1. holds' \in SUBSET Keys /\ \A l \in holds' : Amount[l] >= 0
  BY DEF TypeOK, NonNegative, Clean
<1>2. Held' = Total(holds', Amount) /\ Held' \in Nat
  BY <1>1, NetIsTotal DEF Held
<1>3. Total(holds, Amount) = Total(holds', Amount) + Amount[k]
  BY HeldIsTotal, TotalRemove
<1> QED BY <1>2, <1>3, HeldIsTotal

\* A hold that is released leaves room.
LEMMA FailCovers ==
  ASSUME BudgetInv, TypeOK', NEW c \in Calls, SignFails(c)
  PROVE  Covered'
<1> SUFFICES ASSUME Clean PROVE Covered'
  BY DEF Covered, SignFails, Clean, history
<1> USE DEF BudgetInv, X402Inv
<1>1. PICK D \in SUBSET Calls : Stranded(D) /\ SumCalls(Counted(D)) + Held <= DayCap
  BY DEF Covered
<1>2. key[c] \in holds /\ \A d \in D : key[d] # key[c]
  BY <1>1 DEF SignFails, HoldsMatchCalls, Reserving, Clean, Stranded
<1>3. Stranded(D)'
  BY <1>1, <1>2 DEF Stranded, SignFails, Reserving, Goto, TypeOK
<1>4. Counted(D)' \subseteq Counted(D) /\ Prices' = Prices
  BY DEF Counted, Committed, Prices, Price, SignFails, Goto, TypeOK
<1>5. /\ Total(Counted(D)', Prices) <= SumCalls(Counted(D))
      /\ Total(Counted(D)', Prices) \in Nat /\ SumCalls(Counted(D)) \in Nat
  BY <1>4, FewerRows DEF Counted
<1>6. Held' = Held - Amount[key[c]] /\ Held \in Nat /\ Amount[key[c]] \in Nat
  BY <1>2, HeldWithout DEF SignFails
<1>7. SumCalls(Counted(D))' = Total(Counted(D)', Prices)
  BY <1>4 DEF SumCalls, Prices
<1>8. SumCalls(Counted(D))' + Held' <= DayCap
  BY <1>1, <1>5, <1>6, <1>7, X402Assumption
<1> QED BY <1>3, <1>8 DEF Covered

\* The row of a call takes the place of its hold.
LEMMA CommitCovers ==
  ASSUME BudgetInv, TypeOK', NEW c \in Calls, Commit(c)
  PROVE  Covered'
<1> SUFFICES ASSUME Clean PROVE Covered'
  BY DEF Covered, Commit, Clean, history
<1> USE DEF BudgetInv, X402Inv
<1>1. PICK D \in SUBSET Calls : Stranded(D) /\ SumCalls(Counted(D)) + Held <= DayCap
  BY DEF Covered
<1>2. key[c] \in holds /\ \A d \in D : key[d] # key[c]
  BY <1>1 DEF Commit, HoldsMatchCalls, Reserving, Clean, Stranded
<1>3. Stranded(D)'
  BY <1>1, <1>2 DEF Stranded, Commit, Reserving, Goto, TypeOK
<1>4. Counted(D)' \subseteq Counted(D) \cup {c} /\ Prices' = Prices /\ c \notin Counted(D)
  BY DEF Counted, Committed, Prices, Price, Commit, Goto, TypeOK
<1>5. Held' = Held - Amount[key[c]] /\ Held \in Nat /\ Amount[key[c]] \in Nat
  BY <1>2, HeldWithout DEF Commit
<1>6. SumCalls(Counted(D))' = Total(Counted(D)', Prices)
  BY <1>4 DEF SumCalls, Prices
<1>7. /\ Total(Counted(D)', Prices) <= SumCalls(Counted(D)) + Amount[key[c]]
      /\ Total(Counted(D)', Prices) \in Nat /\ SumCalls(Counted(D)) \in Nat
  <2>1. CASE Counted(D)' \subseteq Counted(D)
    <3>1. /\ Total(Counted(D)', Prices) <= SumCalls(Counted(D))
          /\ Total(Counted(D)', Prices) \in Nat /\ SumCalls(Counted(D)) \in Nat
      BY <2>1, FewerRows DEF Counted
    <3> QED BY <1>5, <3>1
  <2>2. CASE c \in Counted(D)'
    <3>1. c \in Committed /\ Prices[c] = Amount[key[c]]
      BY <2>2, CommittedPrices DEF Counted, Committed, Commit
    <3>2. Counted(D) \cup {c} \in SUBSET Committed
      BY <3>1 DEF Counted
    <3>3. /\ Total(Counted(D)', Prices) <= SumCalls(Counted(D) \cup {c})
          /\ Total(Counted(D)', Prices) \in Nat /\ SumCalls(Counted(D)) \in Nat
      BY <1>4, <3>2, FewerRows DEF Counted
    <3>4. Total(Counted(D) \cup {c}, Prices) = Total(Counted(D), Prices) + Prices[c]
      <4>1. IsFiniteSet(Counted(D)) /\ \A d \in Counted(D) : Prices[d] \in Nat
        BY CommittedPrices, FS_Subset DEF Counted
      <4> QED BY <1>4, <1>5, <3>1, <4>1, TotalAdd
    <3> QED BY <3>1, <3>3, <3>4 DEF SumCalls, Prices
  <2> QED BY <1>4, <2>1, <2>2
<1>8. SumCalls(Counted(D))' + Held' <= DayCap
  BY <1>1, <1>5, <1>6, <1>7, X402Assumption
<1> QED BY <1>3, <1>8 DEF Covered

(***************************************************************************)
(* A crash strands the calls between their row and their commit; a hold    *)
(* that reconcile_stale_holds drops may bring back at most one row, its    *)
(* own call's, at its own price.                                           *)
(***************************************************************************)
LEMMA RestartCovers ==
  ASSUME BudgetInv, TypeOK', Restart
  PROVE  Covered'
<1> SUFFICES ASSUME Clean PROVE Covered'
  BY DEF Covered, Restart, Clean
<1> USE DEF BudgetInv, X402Inv
<1>1. PICK D \in SUBSET Calls : Stranded(D) /\ SumCalls(Counted(D)) + Held <= DayCap
  BY DEF Covered
<1> DEFINE B == D \cup {c \in Calls : pc[c] = "commit"}
           S == Counted(D)
           G == {c \in Committed \cap B : key[c] \notin holds'}
           R == holds \ holds'
<1>0. PICK E \in SUBSET Calls : \A c \in Calls : c \in E <=> c \in B /\ key[c] \in holds'
  <2> WITNESS {c \in B : key[c] \in holds'} \in SUBSET Calls
  <2> QED OBVIOUS
<1>2. holds' \subseteq holds /\ key' = key /\ rows' = rows /\ recent' = recent
  BY DEF Restart
<1>3. \A c \in B : key[c] \in holds
  BY <1>1 DEF Stranded, HoldsMatchCalls, Reserving, Clean
<1>4. \A c, d \in B : key[c] = key[d] => c = d
  BY <1>1 DEF Stranded, Alone, Reserving, Clean
<1>5. Stranded(E)'
  <2>1. \A c \in B : pc'[c] = "dead"
    BY <1>1 DEF Stranded, Restart, Ended, TypeOK
  <2>2. \A c \in Calls : ~Reserving(c)'
    BY DEF Restart, Reserving, Ended, TypeOK
  <2> QED BY <1>0, <1>1, <1>2, <1>4, <2>1, <2>2 DEF Stranded
<1>6. Counted(E)' \subseteq S \cup G
  BY <1>0, <1>2 DEF Counted, Committed, TypeOK
<1>7. S \cap G = {} /\ S \in SUBSET Committed /\ G \in SUBSET Committed /\ S \cup G \in SUBSET Committed
  BY DEF Counted
<1>8. IsFiniteSet(S) /\ IsFiniteSet(G) /\ \A c \in S \cup G : Prices[c] \in Nat
  BY <1>7, CommittedPrices, FS_Subset
<1>9. Total(S \cup G, Prices) = Total(S, Prices) + Total(G, Prices)
  BY <1>7, <1>8, TotalDisjoint
<1>10. IsFiniteSet(R) /\ IsFiniteSet(holds') /\ \A k \in holds : Amount[k] \in Nat
  BY <1>2, HeldIsTotal, FS_Subset
<1>11. Total(G, Prices) <= Total(R, Amount)
  <2> DEFINE f == [c \in G |-> key[c]]
  <2>1. \A c \in G : f[c] \in R /\ Prices[c] = Amount[f[c]]
    BY <1>3, CommittedPrices
  <2>2. \A c, d \in G : f[c] = f[d] => c = d
    BY <1>4
  <2>3. f \in Injection(G, R)
    BY <2>1, <2>2 DEF Injection, IsInjective
  <2> QED BY <1>10, <2>1, <2>3, TotalInjection
<1>12. Total(holds, Amount) = Total(holds', Amount) + Total(R, Amount)
  <2>1. holds = holds' \cup R /\ holds' \cap R = {}
    BY <1>2
  <2> QED BY <1>10, <2>1, TotalDisjoint
<1>13. Held' = Total(holds', Amount) /\ Held = Total(holds, Amount)
  <2>1. holds' \in SUBSET Keys /\ \A k \in holds' : Amount[k] >= 0
    BY <1>2 DEF TypeOK, NonNegative, Clean
  <2> QED BY <2>1, NetIsTotal, HeldIsTotal DEF Held
<1>14. SumCalls(Counted(E))' <= SumCalls(S \cup G) /\ SumCalls(Counted(E))' \in Nat
  <2>1. SumCalls(Counted(E))' = Total(Counted(E)', Prices)
    BY <1>2 DEF SumCalls, Prices, Price
  <2> QED BY <1>6, <1>7, <2>1, FewerRows
<1>15. /\ SumCalls(S) = Total(S, Prices) /\ SumCalls(S \cup G) = Total(S \cup G, Prices)
  BY DEF SumCalls, Prices
<1>16. /\ Total(S, Prices) \in Nat /\ Total(G, Prices) \in Nat
       /\ Total(R, Amount) \in Nat /\ Total(holds', Amount) \in Nat
  BY <1>2, <1>8, <1>10, TotalIsNat
<1>17. SumCalls(Counted(E))' + Held' <= DayCap
  BY <1>1, <1>9, <1>11, <1>12, <1>13, <1>14, <1>15, <1>16, X402Assumption
<1> QED BY <1>5, <1>17 DEF Covered

\* One case per action, those that leave the holds alone together.
LEMMA CoveredStep ==
  ASSUME BudgetInv, TypeOK', NonNegative', [Next]_vars
  PROVE  Covered'
<1> SUFFICES ASSUME Clean' PROVE Covered'
  BY DEF Covered
<1>1. ASSUME NEW c \in Calls, Settled(c) PROVE Covered'
  BY <1>1, SettledQuiet, QuietCovers
<1>2. ASSUME NEW c \in Calls, WatchFinds(c) PROVE Covered'
  BY <1>2, WatchQuiet, QuietCovers
<1>3. ASSUME NEW c \in Calls, Reserve(c) PROVE Covered'
  BY <1>3, ReserveCovers
<1>4. ASSUME NEW c \in Calls, SignFails(c) PROVE Covered'
  BY <1>4, FailCovers
<1>5. ASSUME NEW c \in Calls, Commit(c) PROVE Covered'
  BY <1>5, CommitCovers
<1>6. ASSUME NEW c \in Calls,
             \/ Begin(c) \/ ProbeEnds(c) \/ ProbeAsks(c) \/ Log(c) \/ Count(c) \/ Refuse(c)
             \/ Sign(c) \/ Retry(c) \/ RetryFails(c) \/ Unsettled(c) \/ Unconfirmed(c) \/ Body(c)
             \/ BodyLost(c) \/ WatchGivesUp(c) \/ Submit(c) \/ LeaveHour(c) \/ LeaveDay(c)
      PROVE  Covered'
  BY <1>6, QuietStep, QuietCovers
<1>7. CASE (\E e \in Entries : EditAllowlist(e)) \/ UNCHANGED vars
  <2>1. Quiet
    BY <1>7 DEF EditAllowlist, vars, Quiet, Clean, Reserving, Committed, local, tables, history
  <2> QED BY <2>1, QuietCovers
<1>8. CASE Restart
  BY <1>8, RestartCovers
<1> QED
  BY <1>1, <1>2, <1>3, <1>4, <1>5, <1>6, <1>7, <1>8
  DEF Next, Rules, Vault, Exchange, Watch

-----------------------------------------------------------------------------
\* An empty budget is within the cap.
LEMMA InitBudget == Init => BudgetInv
<1> SUFFICES ASSUME Init PROVE BudgetInv
  OBVIOUS
<1>1. X402Inv
  BY InitInv
<1>2. Signed /\ OwnClaim /\ NonNegative
  BY DEF Init, Signed, OwnClaim, NonNegative
<1>3. Covered
  <2>1. Stranded({})
    BY DEF Stranded
  <2>2. Counted({}) = {} /\ holds = {}
    BY DEF Init, Counted, Committed
  <2>3. SumCalls(Counted({})) + Held <= DayCap
    <3>1. SumCalls(Counted({})) = 0
      BY <2>2, TotalEmpty DEF SumCalls
    <3>2. Held = 0
      BY <2>2, TotalEmpty DEF Held
    <3> QED BY <3>1, <3>2, X402Assumption
  <2> QED BY <2>1, <2>3 DEF Covered
<1> QED BY <1>1, <1>2, <1>3 DEF BudgetInv

\* The parts are inductive one after another.
LEMMA BudgetStep == BudgetInv /\ [Next]_vars => BudgetInv'
<1> SUFFICES ASSUME BudgetInv, [Next]_vars PROVE BudgetInv'
  OBVIOUS
<1>1. X402Inv' /\ TypeOK'
  BY InvStep DEF BudgetInv, X402Inv
<1>2. Signed' /\ OwnClaim' /\ NonNegative'
  BY SignedStep, ClaimStep, NonNegativeStep DEF BudgetInv, X402Inv
<1>3. Covered'
  BY <1>1, <1>2, CoveredStep
<1> QED BY <1>1, <1>2, <1>3 DEF BudgetInv

\* BudgetHolds leaves out more rows than the invariant does.
LEMMA CoveredHolds == BudgetInv => BudgetHolds
<1> SUFFICES ASSUME BudgetInv, Clean
             PROVE  SumCalls({c \in recent \ Twice : rows[c] \in {"SUCCESS", "PENDING"}}) + Held <= DayCap
  BY DEF BudgetHolds, Clean
<1> USE DEF BudgetInv, X402Inv
<1> DEFINE S == {c \in recent \ Twice : rows[c] \in {"SUCCESS", "PENDING"}}
<1>1. PICK D \in SUBSET Calls : Stranded(D) /\ SumCalls(Counted(D)) + Held <= DayCap
  BY DEF Covered
<1>2. S \subseteq Counted(D)
  BY <1>1 DEF Counted, Committed, Twice, Stranded, HoldsMatchCalls, Reserving, Clean, TypeOK
<1>3. /\ Total(S, Prices) <= SumCalls(Counted(D))
      /\ Total(S, Prices) \in Nat /\ SumCalls(Counted(D)) \in Nat
  BY <1>2, FewerRows DEF Counted
<1>4. SumCalls(S) = Total(S, Prices)
  BY DEF SumCalls, Prices
<1> QED BY <1>1, <1>3, <1>4, HeldIsTotal, X402Assumption

(***************************************************************************)
(* The day's cap bounds what the daemon has recorded and reserved for      *)
(* x402, for any number of concurrent calls, any prices and any crashes,   *)
(* unless one of the four named anomalies happened.                        *)
(***************************************************************************)
THEOREM DayCapKept == Spec => []BudgetHolds
<1> QED BY InitBudget, BudgetStep, CoveredHolds, PTL DEF Spec
=============================================================================
