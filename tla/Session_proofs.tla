----------------------------- MODULE Session_proofs -----------------------------
(***************************************************************************)
(* What holds of Session for any tasks, chat sessions, replies of the      *)
(* model, capacity of the channel, bound on turns, and for any failures,   *)
(* time-outs and sessions opened or deleted: its types, that no question   *)
(* loses its card without one of the named losses, and that an open        *)
(* question holds the loop's actions back.                                 *)
(***************************************************************************)
EXTENDS Session, DataLemmas

\* The steps that park a question.
Asks == {Park(q) : q \in Questions}

\* Every question that a script parks was sent right before.
AskedFirst(s) == \A k \in 1..Len(s) : s[k] \in Asks /\ k > 1 => s[k - 1] = Send("ask")

\* A script is at its end with "done", and no turn follows.
DoneLast(t) == \A k \in 1..Len(script[t]) : script[t][k] = Send("done") => k = Len(script[t]) /\ ~more[t]

\* No question is on its way in the channel s.
NoAsk(s) == \A k \in 1..Len(s) : s[k] # "ask"

\* After a "done" the loop is over, and the channel has no question.
DoneSent(t) ==
  \A k \in 1..Len(chan[t]) : chan[t][k] = "done" =>
    /\ script[t] = <<>> /\ ~more[t]
    /\ \A j \in k..Len(chan[t]) : chan[t][j] # "ask"

\* The client leaves a connection that works after the "done", or at a loss.
LeftAtEnd(t) ==
  /\ conn[t] = "broken" => reading[t] = None
  /\ conn[t] # "none" /\ reading[t] = None =>
       lost[t] # None \/ (script[t] = <<>> /\ ~more[t] /\ NoAsk(chan[t]))

\* The question is sent and not yet read.
Coming(t) == reading[t] # None /\ ~NoAsk(chan[t])

\* The loop is about to clear the question that was answered, or to ask anew.
Renewing(t) == script[t] # <<>> /\ Head(script[t]) \in {Clear, Send("ask")}

\* The loop is about to park the question it has just sent.
Parking(t) == script[t] # <<>> /\ Head(script[t]) \in Asks

\* The user sees the question, will see it, or has lost it.
Told(t) ==
  pending[t] # None \/ Parking(t) => Card(t) \/ lost[t] # None \/ Coming(t) \/ Renewing(t)

\* The open view shows what its row holds; other cards in it were overwritten.
ViewShown == \A t \in view : cards[current] = t \/ lost[t] # None

\* What becomes of the questions of a task is accounted for.
Followed(t) ==
  AskedFirst(script[t]) /\ DoneLast(t) /\ DoneSent(t) /\ LeftAtEnd(t) /\ Told(t)

\* A card stands or falls with the order of events: QuestionHasCard alone says nothing of a
\* connection that is still open.
CardInv == TypeOK /\ ViewShown /\ \A t \in Tasks : Followed(t)

\* A loop that takes another turn asks nothing in this one, but for what a batch lets go on.
AsksLast(t) ==
  more[t] /\ t \notin reopened => t \notin asked /\ \A k \in 1..Len(script[t]) : script[t][k] \notin Asks

\* A question of an earlier turn leaves no skill to run, or is cleared before.
Held(t) ==
  pending[t] \in {"ask", "pay"} /\ t \notin asked \cup reopened =>
    \/ ~more[t] /\ \A k \in 1..Len(script[t]) : script[t][k][1] # "run"
    \/ script[t] # <<>> /\ Head(script[t]) = Clear

\* What an open question leaves to do: AskHoldsTurn follows from it in every state.
TurnInv == TypeOK /\ \A t \in Tasks : AsksLast(t) /\ Held(t)

-----------------------------------------------------------------------------
(***************************************************************************)
(* What the script of a turn may hold.                                     *)
(***************************************************************************)

\* Steps of a turn: no "done", and every question parked right after it was sent.
Turned(s) ==
  /\ s \in Seq(Steps)
  /\ \A k \in 1..Len(s) : s[k] # Send("done") /\ (s[k] \in Asks => k > 1 /\ s[k - 1] = Send("ask"))

\* A script that parks no question.
Askless(s) == \A k \in 1..Len(s) : s[k] \notin Asks

\* An element of a concatenation is one of either, right after the one before in it.
LEMMA ConcatPlaces ==
  ASSUME NEW S, NEW a \in Seq(S), NEW b \in Seq(S), NEW c, c = a \o b
  PROVE  \A k \in 1..Len(c) :
           \/ k \in 1..Len(a) /\ c[k] = a[k] /\ (k > 1 => c[k - 1] = a[k - 1])
           \/ \E j \in 1..Len(b) : /\ k = Len(a) + j /\ c[k] = b[j]
                                   /\ j > 1 => k > 1 /\ c[k - 1] = b[j - 1]
<1> SUFFICES ASSUME NEW k \in 1..Len(c)
             PROVE  \/ k \in 1..Len(a) /\ c[k] = a[k] /\ (k > 1 => c[k - 1] = a[k - 1])
                    \/ \E j \in 1..Len(b) : /\ k = Len(a) + j /\ c[k] = b[j]
                                            /\ j > 1 => k > 1 /\ c[k - 1] = b[j - 1]
  OBVIOUS
<1>1. /\ c \in Seq(S) /\ Len(c) = Len(a) + Len(b) /\ Len(a) \in Nat /\ Len(b) \in Nat
      /\ \A i \in 1..Len(a) : c[i] = a[i]
      /\ \A i \in 1..Len(b) : c[Len(a) + i] = b[i]
  BY Concatenated
<1>2. CASE k \in 1..Len(a)
  <2>1. k > 1 => k - 1 \in 1..Len(a)
    BY <1>1, <1>2
  <2> QED BY <1>1, <1>2, <2>1
<1>3. CASE k \notin 1..Len(a)
  <2>1. PICK j \in 1..Len(b) : k = Len(a) + j
    <3>1. k - Len(a) \in 1..Len(b) /\ k = Len(a) + (k - Len(a))
      BY <1>1, <1>3
    <3> QED BY <3>1
  <2>2. c[k] = b[j]
    BY <1>1, <2>1
  <2>3. ASSUME j > 1 PROVE k > 1 /\ c[k - 1] = b[j - 1]
    <3>1. j - 1 \in 1..Len(b) /\ k - 1 = Len(a) + (j - 1) /\ k > 1
      BY <1>1, <2>1, <2>3
    <3> QED BY <1>1, <3>1
  <2> QED BY <2>1, <2>2, <2>3
<1> QED BY <1>2, <1>3

\* Two halves of a turn make a turn.
LEMMA TurnedConcat ==
  ASSUME NEW a, Turned(a), NEW b, Turned(b)
  PROVE  Turned(a \o b) /\ (Askless(a) /\ Askless(b) => Askless(a \o b))
<1>1. a \in Seq(Steps) /\ b \in Seq(Steps) /\ a \o b \in Seq(Steps)
  BY Concatenated DEF Turned
<1> DEFINE c == a \o b
<1>2. \A k \in 1..Len(c) :
         \/ k \in 1..Len(a) /\ c[k] = a[k] /\ (k > 1 => c[k - 1] = a[k - 1])
         \/ \E j \in 1..Len(b) : /\ k = Len(a) + j /\ c[k] = b[j]
                                 /\ j > 1 => k > 1 /\ c[k - 1] = b[j - 1]
  <2>1. c = a \o b
    OBVIOUS
  <2> HIDE DEF c
  <2> QED BY <1>1, <2>1, ConcatPlaces
<1> HIDE DEF c
<1>3. Turned(c)
  BY <1>1, <1>2 DEF Turned, c
<1>4. Askless(a) /\ Askless(b) => Askless(c)
  BY <1>2 DEF Askless
<1> QED BY <1>3, <1>4 DEF c

\* What holds of the parts holds of the script they make.
LEMMA TurnedFlat ==
  ASSUME NEW ss \in Seq(Seq(Steps)), \A i \in 1..Len(ss) : Turned(ss[i])
  PROVE  /\ Turned(FlattenSeq(ss))
         /\ (\A i \in 1..Len(ss) : Askless(ss[i])) => Askless(FlattenSeq(ss))
<1> DEFINE F == FlattenSeq(ss)
<1>1. F \in Seq(Steps) /\ \A k \in 1..Len(F) : Comes(F, ss, Len(ss), k)
  BY FlattenParts
<1> HIDE DEF F
<1>2. ASSUME NEW k \in 1..Len(F)
      PROVE  \E i \in 1..Len(ss) : \E j \in 1..Len(ss[i]) :
               F[k] = ss[i][j] /\ (j > 1 => k > 1 /\ F[k - 1] = ss[i][j - 1])
  BY <1>1 DEF Comes
<1>3. Turned(F)
  <2> SUFFICES ASSUME NEW k \in 1..Len(F)
               PROVE  F[k] # Send("done") /\ (F[k] \in Asks => k > 1 /\ F[k - 1] = Send("ask"))
    BY <1>1 DEF Turned
  <2>1. PICK i \in 1..Len(ss) : \E j \in 1..Len(ss[i]) :
               F[k] = ss[i][j] /\ (j > 1 => k > 1 /\ F[k - 1] = ss[i][j - 1])
    BY <1>2
  <2>2. Turned(ss[i])
    OBVIOUS
  <2> QED BY <2>1, <2>2 DEF Turned
<1>4. (\A i \in 1..Len(ss) : Askless(ss[i])) => Askless(F)
  BY <1>2 DEF Askless
<1> QED BY <1>3, <1>4 DEF F

\* An item makes the loop send, run, or ask and park; only two ask.
LEMMA AloneTurned ==
  ASSUME NEW i \in Items
  PROVE  Turned(Alone(i)) /\ (i \notin {"ask", "pay"} => Askless(Alone(i)))
<1> USE DEF Turned, Askless, Asks, Questions, Steps, Events, Send, Do, Park, Items, Actions, Plain, Delegations, Refused, Payments
<1>1. CASE i \in {"thought", "chat", "final"}
  BY <1>1 DEF Alone
<1>2. CASE i \in {"ask", "pay"}
  <2>1. Alone(i) = <<Send("ask"), Park(i)>> /\ Send("ask") \in Steps /\ Park(i) \in Steps
    BY <1>2 DEF Alone
  <2>2. Send("ask") \notin Asks /\ Send("ask") # Send("done") /\ Park(i) # Send("done")
    BY <1>2
  <2> HIDE DEF Send, Park, Steps, Asks
  <2> QED BY <1>2, <2>1, <2>2
<1>3. CASE i \in Refused \cup {"delegateBad"}
  BY <1>3 DEF Alone
<1>4. Turned(Carried(i)) /\ Askless(Carried(i)) /\ Turned(<<Send("final")>>) /\ Askless(<<Send("final")>>)
  BY DEF Carried
<1>5. CASE i \notin {"thought", "chat", "final"} \cup {"ask", "pay"} \cup Refused \cup {"delegateBad"}
  <2>1. Alone(i) = Carried(i) \o <<Send("final")>> \/ Alone(i) = Carried(i)
    BY <1>5 DEF Alone
  <2> HIDE DEF Turned, Askless, Asks, Questions, Steps, Events, Send, Do, Park, Items, Actions
  <2> QED BY <1>4, <1>5, <2>1, TurnedConcat
<1> QED BY <1>1, <1>2, <1>3, <1>5

\* A script of one step, or of none.
LEMMA TurnedOne ==
  ASSUME NEW x \in Steps, x \notin Asks, x # Send("done")
  PROVE  Turned(<<x>>) /\ Askless(<<x>>) /\ Turned(<<>>) /\ Askless(<<>>)
  BY DEF Turned, Askless

\* A batch asks nothing.
LEMMA EachTurned ==
  ASSUME NEW S, NEW steps \in Seq(Steps),
         \A i \in 1..Len(steps) : steps[i] \notin Asks /\ steps[i] # Send("done")
  PROVE  Turned(Each(S, steps)) /\ Askless(Each(S, steps))
<1> DEFINE ss == [i \in DOMAIN steps |-> IF i \in S THEN <<steps[i]>> ELSE <<>>]
<1>1. DOMAIN steps = 1..Len(steps) /\ Len(steps) \in Nat /\ \A i \in 1..Len(steps) : steps[i] \in Steps
  OBVIOUS
<1>2. ss \in Seq(Seq(Steps)) /\ Len(ss) = Len(steps)
  BY <1>1
<1>3. ASSUME NEW i \in 1..Len(ss) PROVE Turned(ss[i]) /\ Askless(ss[i])
  <2>1. i \in 1..Len(steps) /\ (ss[i] = <<steps[i]>> \/ ss[i] = <<>>)
    BY <1>1, <1>2
  <2> HIDE DEF ss
  <2>2. steps[i] \in Steps /\ steps[i] \notin Asks /\ steps[i] # Send("done")
    BY <1>1, <2>1
  <2> QED BY <2>1, <2>2, TurnedOne
<1> HIDE DEF ss
<1>4. Turned(FlattenSeq(ss)) /\ Askless(FlattenSeq(ss))
  BY <1>2, <1>3, TurnedFlat
<1> QED BY <1>4 DEF Each, ss

\* The script of a batch sends and runs, and asks nothing.
LEMMA TogetherTurned ==
  ASSUME NEW p \in Seq(Items)
  PROVE  Turned(Together(p)) /\ Askless(Together(p))
<1>1. DOMAIN p = 1..Len(p) /\ Len(p) \in Nat /\ \A i \in 1..Len(p) : p[i] \in Items
  OBVIOUS
<1> DEFINE Fine(s) == Turned(s) /\ Askless(s)
           says(e) == [i \in DOMAIN p |-> Send(e)]
           runs == [i \in DOMAIN p |-> Do(p[i])]
           a == Each(Ready(p), says("action"))
           b == Each(Ready(p), runs)
           c == Each(Batch(p), says("observation"))
           d == IF Deferred(p) # {} THEN <<Send("observation")>> ELSE <<>>
           e == IF \E i \in Batch(p) : p[i] = "last" THEN <<Send("final")>> ELSE <<>>
<1>2. \A f \in {"action", "observation", "final"} :
        Send(f) \in Steps /\ Send(f) \notin Asks /\ Send(f) # Send("done")
  BY DEF Steps, Asks, Send, Park, Events
<1>3. \A i \in Items : Do(i) \in Steps /\ Do(i) \notin Asks /\ Do(i) # Send("done")
  BY DEF Steps, Asks, Do, Send, Park
<1>4. \A f \in {"action", "observation"} : says(f) \in Seq(Steps) /\ Len(says(f)) = Len(p)
        /\ \A i \in 1..Len(p) : says(f)[i] = Send(f)
  BY <1>1, <1>2
<1>5. runs \in Seq(Steps) /\ Len(runs) = Len(p) /\ \A i \in 1..Len(p) : runs[i] = Do(p[i])
  BY <1>1, <1>3
<1>6. Together(p) = a \o b \o c \o d \o e
  BY DEF Together
<1> HIDE DEF says, runs
<1>7. Fine(a) /\ Fine(c)
  BY <1>1, <1>2, <1>4, EachTurned
<1>8. Fine(b)
  BY <1>1, <1>3, <1>5, EachTurned
<1>9. Fine(d) /\ Fine(e)
  <2>1. \A f \in {"observation", "final"} : Fine(<<Send(f)>>)
    BY <1>2 DEF Turned, Askless
  <2>2. Fine(<<>>)
    BY DEF Turned, Askless
  <2> HIDE DEF Fine
  <2> QED BY <2>1, <2>2
<1> HIDE DEF a, b, c, d, e
<1> QED BY <1>6, <1>7, <1>8, <1>9, TurnedConcat

\* A part of a script is a batch, or what one item makes of the loop; an item that asks,
\* or a payment that does, is not part of a turn that goes on.
LEMMA PartTurned ==
  ASSUME NEW p \in Seq(Items), NEW i \in 1..Len(p)
  PROVE  /\ Turned(Part(p, i))
         /\ ~Breaks(p, i) /\ p[i] # "ask" => Askless(Part(p, i))
<1>1. p[i] \in Items /\ Left(p, i) \in Items
  BY DEF Left, Items, Actions, Plain
<1>2. CASE AtBatch(p, i)
  BY <1>2, TogetherTurned DEF Part, AtBatch
<1>3. CASE ~AtBatch(p, i) /\ Plan(p) = "payment" /\ i = FirstPayment(p)
  <2>1. Part(p, i) = <<Send("observation")>> \o Alone(p[i]) /\ Left(p, i) = p[i]
    BY <1>3 DEF Part, Left
  <2>2. Turned(<<Send("observation")>>) /\ Askless(<<Send("observation")>>)
    <3>1. Send("observation") \in Steps /\ Send("observation") \notin Asks /\ Send("observation") # Send("done")
      BY DEF Steps, Asks, Send, Park, Events
    <3> QED BY <3>1, TurnedOne
  <2>3. Turned(Alone(p[i])) /\ (p[i] \notin {"ask", "pay"} => Askless(Alone(p[i])))
    BY <1>1, AloneTurned
  <2>4. p[i] = "pay" => Breaks(p, i)
    BY <1>3, <2>1 DEF Breaks
  <2> QED BY <2>1, <2>2, <2>3, <2>4, TurnedConcat
<1>4. CASE ~AtBatch(p, i) /\ ~(Plan(p) = "payment" /\ i = FirstPayment(p))
  <2>1. Part(p, i) = Alone(Left(p, i))
    BY <1>4 DEF Part
  <2>2. Turned(Alone(Left(p, i))) /\ (Left(p, i) \notin {"ask", "pay"} => Askless(Alone(Left(p, i))))
    BY <1>1, AloneTurned
  <2>3. Left(p, i) = "pay" => Breaks(p, i)
    BY <1>4 DEF Breaks
  <2>4. Left(p, i) = "ask" => p[i] = "ask"
    BY DEF Left
  <2> QED BY <2>1, <2>2, <2>3, <2>4
<1> QED BY <1>2, <1>3, <1>4

\* A turn's script asks before it parks, and a turn that goes on parks nothing but what it asks.
LEMMA ScriptTurned ==
  ASSUME NEW p \in Seq(Items)
  PROVE  /\ Turned(Script(p))
         /\ GoesOn(p) /\ ~Contains(p, "ask") => Askless(Script(p))
<1> DEFINE ss == [i \in DOMAIN p |-> IF i \in Visited(p) THEN Part(p, i) ELSE <<>>]
<1>1. DOMAIN p = 1..Len(p) /\ Len(p) \in Nat /\ Visited(p) \subseteq 1..Len(p)
  BY DEF Visited
<1>2. Turned(<<>>) /\ Askless(<<>>)
  BY DEF Turned, Askless
<1>3. \A i \in 1..Len(p) : (i \in Visited(p) /\ ss[i] = Part(p, i)) \/ (i \notin Visited(p) /\ ss[i] = <<>>)
  BY <1>1
<1>4. \A i \in 1..Len(p) : Turned(ss[i])
  <2> HIDE DEF ss
  <2> QED BY <1>2, <1>3, PartTurned
<1>5. ss \in Seq(Seq(Steps)) /\ Len(ss) = Len(p)
  <2>1. \A i \in 1..Len(p) : ss[i] \in Seq(Steps)
    BY <1>4 DEF Turned
  <2>2. DOMAIN ss = 1..Len(p) /\ ss = [i \in 1..Len(p) |-> ss[i]]
    BY <1>1
  <2> HIDE DEF ss
  <2> QED BY <1>1, <2>1, <2>2
<1>6. ASSUME GoesOn(p), ~Contains(p, "ask"), NEW i \in 1..Len(p) PROVE Askless(ss[i])
  <2>1. CASE i \in Visited(p)
    <3>1. ~Breaks(p, i) /\ p[i] # "ask"
      BY <1>6, <2>1 DEF GoesOn, Contains
    <3>2. ss[i] = Part(p, i)
      BY <1>3, <2>1
    <3> QED BY <3>1, <3>2, PartTurned
  <2>2. CASE i \notin Visited(p)
    BY <1>2, <1>3, <2>2
  <2> QED BY <2>1, <2>2
<1> HIDE DEF ss
<1>7. Turned(FlattenSeq(ss)) /\ (GoesOn(p) /\ ~Contains(p, "ask") => Askless(FlattenSeq(ss)))
  BY <1>4, <1>5, <1>6, TurnedFlat
<1> QED BY <1>7 DEF Script, ss

\* A script that may begin: each question is parked right after it was sent, "done" comes
\* last and ends the loop, and a loop that goes on asks nothing, unless it is told.
Plotted(s, goesOn) ==
  /\ s \in Seq(Steps) /\ goesOn \in BOOLEAN
  /\ \A k \in 1..Len(s) : /\ s[k] \in Asks => k > 1 /\ s[k - 1] = Send("ask")
                          /\ s[k] = Send("done") => k = Len(s) /\ ~goesOn

\* It clears the question that was answered first, or asks anew and ends.
Renews(s, goesOn) ==
  /\ s # <<>>
  /\ \/ Head(s) = Clear
     \/ Head(s) = Send("ask") /\ ~goesOn /\ \A k \in 1..Len(s) : s[k][1] # "run"

\* Steps of a turn may come before any script that may begin.
LEMMA PlottedConcat ==
  ASSUME NEW a, Turned(a), NEW b, NEW g, Plotted(b, g)
  PROVE  /\ Plotted(a \o b, g)
         /\ Askless(a) /\ Askless(b) => Askless(a \o b)
         /\ a # <<>> => a \o b # <<>> /\ Head(a \o b) = Head(a)
<1>1. a \in Seq(Steps) /\ b \in Seq(Steps)
  BY DEF Turned, Plotted
<1> DEFINE c == a \o b
<1>2. c \in Seq(Steps) /\ Len(c) = Len(a) + Len(b) /\ Len(a) \in Nat /\ Len(b) \in Nat
  BY <1>1, Concatenated
<1>3. \A k \in 1..Len(c) :
         \/ k \in 1..Len(a) /\ c[k] = a[k] /\ (k > 1 => c[k - 1] = a[k - 1])
         \/ \E j \in 1..Len(b) : /\ k = Len(a) + j /\ c[k] = b[j]
                                 /\ j > 1 => k > 1 /\ c[k - 1] = b[j - 1]
  <2>1. c = a \o b
    OBVIOUS
  <2> HIDE DEF c
  <2> QED BY <1>1, <2>1, ConcatPlaces
<1>4. a # <<>> => 1 \in 1..Len(a) /\ c[1] = a[1]
  BY <1>1, Concatenated
<1> HIDE DEF c
<1>5. a # <<>> => c # <<>> /\ Head(c) = Head(a)
  BY <1>1, <1>2, <1>4
<1>6. Plotted(c, g)
  <2> SUFFICES ASSUME NEW k \in 1..Len(c)
               PROVE  /\ c[k] \in Asks => k > 1 /\ c[k - 1] = Send("ask")
                      /\ c[k] = Send("done") => k = Len(c) /\ ~g
    BY <1>2 DEF Plotted
  <2>1. CASE k \in 1..Len(a) /\ c[k] = a[k] /\ (k > 1 => c[k - 1] = a[k - 1])
    BY <2>1 DEF Turned
  <2>2. ASSUME NEW j \in 1..Len(b), k = Len(a) + j, c[k] = b[j], j > 1 => k > 1 /\ c[k - 1] = b[j - 1]
        PROVE  /\ c[k] \in Asks => k > 1 /\ c[k - 1] = Send("ask")
               /\ c[k] = Send("done") => k = Len(c) /\ ~g
    <3>1. /\ b[j] \in Asks => j > 1 /\ b[j - 1] = Send("ask")
          /\ b[j] = Send("done") => j = Len(b) /\ ~g
      BY DEF Plotted
    <3> QED BY <1>2, <2>2, <3>1
  <2> QED BY <1>3, <2>1, <2>2
<1>7. Askless(a) /\ Askless(b) => Askless(c)
  BY <1>3 DEF Askless
<1> QED BY <1>5, <1>6, <1>7 DEF c

\* Every reply makes such a script.
LEMMA RepliedPlotted ==
  ASSUME NEW r \in Replied
  PROVE  /\ Plotted(r.script, r.goesOn)
         /\ r.goesOn /\ ~r.asks => Askless(r.script)
<1>1. PICK p \in Surfacings :
        r = [script |-> IF GoesOn(p) THEN Script(p) ELSE Script(p) \o <<Send("done")>>,
             goesOn |-> GoesOn(p), asks |-> Contains(p, "ask")]
  BY DEF Replied
<1>2. p \in Seq(Items)
  <2>1. PICK q \in Replies, m \in BOOLEAN : p = Surfaced(q, m)
    BY DEF Surfacings
  <2>2. q \in Seq(Items) /\ <<"final">> \in Seq(Items)
    BY SessionAssumption DEF Items
  <2> QED BY <2>1, <2>2 DEF Surfaced
<1>3. Turned(Script(p)) /\ (GoesOn(p) /\ ~Contains(p, "ask") => Askless(Script(p)))
  BY <1>2, ScriptTurned
<1>4. GoesOn(p) \in BOOLEAN
  BY DEF GoesOn
<1>5. CASE GoesOn(p)
  BY <1>1, <1>3, <1>4, <1>5 DEF Turned, Plotted
<1>6. CASE ~GoesOn(p)
  <2>1. Plotted(<<Send("done")>>, FALSE)
    BY DEF Plotted, Steps, Events, Send, Asks, Park
  <2>2. Plotted(Script(p) \o <<Send("done")>>, FALSE)
    BY <1>3, <2>1, PlottedConcat
  <2>3. r.script = Script(p) \o <<Send("done")>> /\ r.goesOn = FALSE
    BY <1>1, <1>4, <1>6
  <2> QED BY <2>2, <2>3
<1> QED BY <1>5, <1>6

\* So does every answer; and but for a message to a grant, it clears the question or asks anew.
LEMMA PlansPlotted ==
  /\ \A plan \in Fresh \cup Approved \cup Denied \cup Unsettled \cup Granted \cup {<<<<Clear>>, TRUE>>} :
       Plotted(plan[1], plan[2]) /\ (plan[2] => Askless(plan[1]))
  /\ \A plan \in Approved \cup Denied \cup Granted \cup {<<<<Clear>>, TRUE>>} : Renews(plan[1], plan[2])
<1> DEFINE Fine(s, goesOn) == Plotted(s, goesOn) /\ (goesOn => Askless(s))
           One(x) == Turned(<<x>>) /\ Askless(<<x>>)
<1>1. \A q \in Questions : Fine(Asking(q), FALSE) /\ Renews(Asking(q), FALSE)
  BY DEF Asking, Plotted, Renews, Steps, Asks, Send, Park, Do, Events, Questions, Clear
<1>2. Fine(<<>>, TRUE) /\ Fine(Failing, FALSE) /\ Fine(<<Send("final"), Send("done")>>, FALSE)
  BY DEF Failing, Plotted, Askless, Steps, Asks, Send, Park, Events
<1>C. Clear \in Steps /\ Clear \notin Asks /\ Clear # Send("done")
  BY NoneAssumption DEF Clear, Steps, Asks, Questions, Park, Send
<1>3. One(Clear)
  BY <1>C, TurnedOne
<1>4. \A i \in {"payAuto", "failed"} : Turned(Carried(i)) /\ Askless(Carried(i))
  BY DEF Carried, Turned, Askless, Steps, Asks, Send, Park, Do, Events, Items, Actions, Payments
<1>5. One(Send("observation"))
  <2>1. Send("observation") \in Steps /\ Send("observation") \notin Asks /\ Send("observation") # Send("done")
    BY DEF Steps, Asks, Send, Park, Events
  <2> QED BY <2>1, TurnedOne
<1>6. \A s, b : s # <<>> /\ Head(s) = Clear => Renews(s, b)
  BY DEF Renews
<1>7. ASSUME NEW s, NEW b, Fine(s, b) PROVE Fine(<<Clear>> \o s, b) /\ Renews(<<Clear>> \o s, b)
  <2>1. <<Clear>> # <<>> /\ Head(<<Clear>>) = Clear
    OBVIOUS
  <2> QED BY <1>3, <1>6, <1>7, <2>1, PlottedConcat
<1>8. ASSUME NEW s, Turned(s), Askless(s) PROVE Fine(s, TRUE)
  BY <1>8 DEF Turned, Plotted
<1>9. ASSUME NEW plan \in Approved PROVE Fine(plan[1], plan[2]) /\ Renews(plan[1], plan[2])
  <2>1. CASE plan = <<<<Clear>> \o Carried("payAuto"), TRUE>>
    <3>1. Fine(Carried("payAuto"), TRUE)
      BY <1>4, <1>8
    <3> QED BY <1>7, <2>1, <3>1
  <2>2. CASE plan = <<<<Clear>> \o Carried("failed") \o Failing, FALSE>>
    <3>1. Turned(<<Clear>> \o Carried("failed"))
      BY <1>3, <1>4, TurnedConcat
    <3>2. <<Clear>> \o Carried("failed") # <<>> /\ Head(<<Clear>> \o Carried("failed")) = Clear
      <4>1. Fine(Carried("failed"), TRUE)
        BY <1>4, <1>8
      <4> QED BY <1>3, <4>1, PlottedConcat
    <3> QED BY <1>2, <1>6, <2>2, <3>1, <3>2, PlottedConcat
  <2>3. CASE plan = <<<<Clear>> \o Failing, FALSE>>
    BY <1>2, <1>7, <2>3
  <2>4. CASE plan = <<Asking("pay"), FALSE>>
    BY <1>1, <2>4 DEF Questions
  <2> QED BY <2>1, <2>2, <2>3, <2>4 DEF Approved
<1>10. ASSUME NEW plan \in Granted PROVE Fine(plan[1], plan[2]) /\ Renews(plan[1], plan[2])
  <2>1. Fine(<<Send("observation")>>, TRUE)
    BY <1>5, <1>8
  <2>2. CASE plan = <<<<Clear, Send("observation")>>, TRUE>>
    <3>1. Fine(<<Clear, Send("observation")>>, TRUE)
      BY <1>C DEF Plotted, Askless, Steps, Asks, Send, Park, Events
    <3>2. /\ plan[1] = <<Clear, Send("observation")>> /\ plan[2] = TRUE
          /\ <<Clear, Send("observation")>> # <<>> /\ Head(<<Clear, Send("observation")>>) = Clear
      BY <2>2
    <3> HIDE DEF Fine
    <3> QED BY <1>6, <3>1, <3>2
  <2>3. CASE plan = <<<<Clear>> \o Failing, FALSE>>
    BY <1>2, <1>7, <2>3
  <2>4. CASE plan = <<Asking("grant"), FALSE>>
    BY <1>1, <2>4 DEF Questions
  <2> QED BY <2>2, <2>3, <2>4 DEF Granted
<1>11. ASSUME NEW plan \in Denied \cup {<<<<Clear>>, TRUE>>} PROVE Fine(plan[1], plan[2]) /\ Renews(plan[1], plan[2])
  <2>1. CASE plan = <<<<Clear>>, TRUE>>
    <3>1. Turned(<<Clear>>) /\ Askless(<<Clear>>) /\ <<Clear>> # <<>> /\ Head(<<Clear>>) = Clear
      BY <1>3
    <3> QED BY <1>6, <1>8, <2>1, <3>1
  <2>2. CASE plan = <<<<Clear, Send("final"), Send("done")>>, FALSE>>
    <3>1. Fine(<<Clear, Send("final"), Send("done")>>, FALSE)
      BY <1>C DEF Plotted, Askless, Steps, Asks, Send, Park, Events
    <3>2. /\ plan[1] = <<Clear, Send("final"), Send("done")>> /\ plan[2] = FALSE
          /\ <<Clear, Send("final"), Send("done")>> # <<>> /\ Head(<<Clear, Send("final"), Send("done")>>) = Clear
      BY <2>2
    <3> HIDE DEF Fine
    <3> QED BY <1>6, <3>1, <3>2
  <2> QED BY <2>1, <2>2 DEF Denied
<1>12. ASSUME NEW plan \in Fresh \cup Unsettled PROVE Fine(plan[1], plan[2])
  <2>1. CASE plan = <<<<>>, TRUE>>
    <3>1. plan[1] = <<>> /\ plan[2] = TRUE
      BY <2>1
    <3> HIDE DEF Fine
    <3> QED BY <1>2, <3>1
  <2>3. CASE plan = <<Failing, FALSE>>
    <3>1. plan[1] = Failing /\ plan[2] = FALSE
      BY <2>3
    <3> HIDE DEF Fine
    <3> QED BY <1>2, <3>1
  <2>2. CASE plan = <<Asking("grant"), FALSE>>
    BY <1>1, <2>2 DEF Questions
  <2> HIDE DEF Fine
  <2> QED BY <2>1, <2>2, <2>3 DEF Fresh, Unsettled
<1> HIDE DEF Fine
<1>14. \A plan \in Fresh \cup Approved \cup Denied \cup Unsettled \cup Granted \cup {<<<<Clear>>, TRUE>>} :
         Fine(plan[1], plan[2])
  BY <1>9, <1>10, <1>11, <1>12
<1> QED BY <1>9, <1>10, <1>11, <1>14 DEF Fine

-----------------------------------------------------------------------------
(***************************************************************************)
(* Types.                                                                  *)
(***************************************************************************)

\* A step sends an event, runs an item, or parks a question or clears it.
LEMMA StepKinds ==
  ASSUME NEW x \in Steps
  PROVE  /\ x[1] = "send" => x[2] \in Events /\ x = Send(x[2])
         /\ x[1] = "park" => x[2] \in Questions \cup {None} /\ x = Park(x[2])
         /\ x[1] = "run" => x \notin Asks /\ x # Send("done") /\ x # Send("ask") /\ x # Clear
  BY DEF Steps, Asks, Send, Do, Park, Clear

\* What an answer starts, by the question that is parked.
LEMMA AnswerPlotted ==
  ASSUME NEW q \in Questions \cup {None}, NEW plan \in Resumed(q)
  PROVE  /\ Plotted(plan[1], plan[2]) /\ (plan[2] => Askless(plan[1]))
         /\ q # None => Renews(plan[1], plan[2]) \/ (q = "grant" /\ plan \in Unsettled)
<1>1. CASE q = "ask"
  BY <1>1, PlansPlotted DEF Resumed
<1>2. CASE q = "pay"
  BY <1>2, PlansPlotted DEF Resumed
<1>3. CASE q = "grant"
  BY <1>3, PlansPlotted DEF Resumed
<1>4. CASE q = None
  BY <1>4, PlansPlotted, NoneAssumption DEF Resumed, Questions
<1> QED BY <1>1, <1>2, <1>3, <1>4 DEF Questions

\* A sequence without its first element.
LEMMA Rest ==
  ASSUME NEW S, NEW s \in Seq(S), s # <<>>
  PROVE  /\ Head(s) \in S /\ Head(s) = s[1] /\ Tail(s) \in Seq(S)
         /\ Len(s) \in Nat \ {0} /\ Len(Tail(s)) = Len(s) - 1
         /\ \A k \in 1..Len(Tail(s)) : Tail(s)[k] = s[k + 1]
  OBVIOUS

\* A sequence with one more element.
LEMMA OneMore ==
  ASSUME NEW S, NEW s \in Seq(S), NEW e \in S
  PROVE  /\ Append(s, e) \in Seq(S) /\ Len(Append(s, e)) = Len(s) + 1 /\ Append(s, e) # <<>>
         /\ \A k \in 1..Len(Append(s, e)) :
              Append(s, e)[k] = IF k \in 1..Len(s) THEN s[k] ELSE e
  OBVIOUS

\* Types hold before anything is sent.
LEMMA InitType == Init => TypeOK
<1>1. (CHOOSE s \in Sessions : TRUE) \in Sessions
  BY SessionAssumption
<1>2. 0 \in 0..MaxTurns /\ 0 \in 0..MaxSends /\ 0 \in 0..MaxLeaves /\ 0 <= Cap
  BY SessionAssumption
<1>3. <<>> \in Seq(Steps) /\ <<>> \in Seq(Events) /\ Len(<<>>) = 0
  OBVIOUS
<1> QED BY <1>1, <1>2, <1>3 DEF Init, TypeOK

\* A step of a script keeps them,
LEMMA StepType ==
  ASSUME TypeOK, NEW t \in Tasks, Step(t)
  PROVE  TypeOK'
<1> DEFINE s == Head(script[t])
<1>1. script[t] \in Seq(Steps) /\ script[t] # <<>> /\ conn[t] # "none"
  BY DEF TypeOK, Step
<1>2. s \in Steps /\ Tail(script[t]) \in Seq(Steps)
  BY <1>1, Rest
<1>3. chan[t] \in Seq(Events) /\ Len(chan[t]) \in Nat /\ Cap \in Nat
  BY SessionAssumption DEF TypeOK
<1> HIDE DEF s
<1>4. /\ script' = [script EXCEPT ![t] = Tail(@)]
      /\ UNCHANGED <<more, turns, reopened, hung, conn, reading, gui, lost, bounds>>
  BY DEF Step
<1>5. CASE s[1] = "send" /\ Len(chan[t]) < Cap /\ chan' = [chan EXCEPT ![t] = Append(@, s[2])] /\ UNCHANGED <<pending, watch, asked>>
  <2>1. Append(chan[t], s[2]) \in Seq(Events) /\ Len(Append(chan[t], s[2])) <= Cap
    BY <1>2, <1>3, <1>5, StepKinds, OneMore
  <2> QED BY <1>1, <1>2, <1>4, <1>5, <2>1 DEF TypeOK, gui, bounds
<1>6. CASE /\ s[1] = "park" /\ pending' = [pending EXCEPT ![t] = s[2]]
           /\ asked' = (IF s[2] = None THEN asked ELSE asked \cup {t}) /\ UNCHANGED <<watch, chan>>
  BY <1>1, <1>2, <1>4, <1>6, StepKinds DEF TypeOK, gui, bounds
<1>7. CASE /\ s[1] = "run" /\ (watch' = watch \cup {t} \/ UNCHANGED watch)
           /\ UNCHANGED <<pending, chan, asked>>
  BY <1>1, <1>2, <1>4, <1>7 DEF TypeOK, gui, bounds
<1> QED BY <1>5, <1>6, <1>7 DEF Step, s

\* What is streamed before the script of a turn asks nothing and ends nothing.
LEMMA StreamedPlotted ==
  ASSUME NEW tokens \in Streamed, NEW s, NEW g, Plotted(s, g)
  PROVE  Plotted(tokens \o s, g) /\ (Askless(s) => Askless(tokens \o s))
<1>1. Send("token") \in Steps /\ Send("token") \notin Asks /\ Send("token") # Send("done")
  BY DEF Steps, Asks, Send, Park, Events
<1>2. Turned(tokens) /\ Askless(tokens)
  BY <1>1, TurnedOne DEF Streamed
<1> QED BY <1>2, PlottedConcat

\* So a turn starts a script that may begin.
LEMMA TurnPlotted ==
  ASSUME NEW t \in Tasks, TakeTurn(t)
  PROVE  \E s, g : Plotted(s, g) /\ script' = [script EXCEPT ![t] = s] /\ more' = [more EXCEPT ![t] = g]
<1>1. Plotted(Failing, FALSE) /\ Plotted(<<Send("done")>>, FALSE)
  BY DEF Failing, Plotted, Steps, Asks, Send, Park, Events
<1>2. CASE /\ \E tokens \in Streamed, s \in {Failing, <<Send("done")>>} : script' = [script EXCEPT ![t] = tokens \o s]
           /\ more' = [more EXCEPT ![t] = FALSE]
  <2>1. PICK tokens \in Streamed, s \in {Failing, <<Send("done")>>} : script' = [script EXCEPT ![t] = tokens \o s]
    BY <1>2
  <2>2. Plotted(tokens \o s, FALSE)
    BY <1>1, StreamedPlotted
  <2> QED BY <1>2, <2>1, <2>2
<1>3. CASE \E tokens \in Streamed, r \in Replied :
             script' = [script EXCEPT ![t] = tokens \o r.script] /\ more' = [more EXCEPT ![t] = r.goesOn]
  <2>1. PICK tokens \in Streamed, r \in Replied :
             script' = [script EXCEPT ![t] = tokens \o r.script] /\ more' = [more EXCEPT ![t] = r.goesOn]
    BY <1>3
  <2>2. Plotted(tokens \o r.script, r.goesOn)
    BY RepliedPlotted, StreamedPlotted
  <2> QED BY <2>1, <2>2
<1> QED BY <1>2, <1>3 DEF TakeTurn

\* and so do the turns, their end, a settlement and what hangs,
LEMMA LoopType ==
  ASSUME TypeOK, NEW t \in Tasks, TakeTurn(t) \/ OutOfTurns(t) \/ Settle(t) \/ Hang(t)
  PROVE  TypeOK'
<1>1. Failing \in Seq(Steps) /\ <<Send("done")>> \in Seq(Steps)
  BY DEF Failing, Send, Steps, Events
<1>2. CASE TakeTurn(t)
  <2>1. turns[t] + 1 \in 0..MaxTurns
    BY <1>2, SessionAssumption DEF TakeTurn, TypeOK
  <2>2. ASSUME NEW s \in Seq(Steps), NEW b \in BOOLEAN,
               script' = [script EXCEPT ![t] = s], more' = [more EXCEPT ![t] = b],
               reopened' \in SUBSET Tasks
        PROVE  TypeOK'
    BY <1>2, <2>1, <2>2 DEF TakeTurn, TypeOK, waits, stream, gui, bounds
  <2>3. \E s, b : Plotted(s, b) /\ script' = [script EXCEPT ![t] = s] /\ more' = [more EXCEPT ![t] = b]
    BY <1>2, TurnPlotted
  <2>4. reopened' \in SUBSET Tasks
    BY <1>2 DEF TakeTurn, TypeOK
  <2> QED BY <2>2, <2>3, <2>4 DEF Plotted
<1>3. CASE OutOfTurns(t)
  BY <1>1, <1>3 DEF OutOfTurns, TypeOK, waits, stream, gui, bounds
<1>4. CASE Settle(t)
  <2>1. chan[t] \in Seq(Events) /\ "paymentsettled" \in Events /\ Len(chan[t]) \in Nat /\ Cap \in Nat
    BY SessionAssumption DEF TypeOK, Events
  <2>2. Append(chan[t], "paymentsettled") \in Seq(Events)
        /\ (Len(chan[t]) < Cap => Len(Append(chan[t], "paymentsettled")) <= Cap)
    BY <2>1, OneMore
  <2>3. conn[t] # "none"
    BY <1>4 DEF Settle, TypeOK
  <2>4. chan' \in [Tasks -> Seq(Events)] /\ (\A u \in Tasks : Len(chan'[u]) <= Cap)
    <3>1. CASE UNCHANGED chan
      BY <3>1 DEF TypeOK
    <3>2. CASE Len(chan[t]) < Cap /\ chan' = [chan EXCEPT ![t] = Append(@, "paymentsettled")]
      <4> DEFINE q == Append(chan[t], "paymentsettled")
      <4>1. q \in Seq(Events) /\ Len(q) <= Cap /\ chan' = [chan EXCEPT ![t] = q]
        BY <2>2, <3>2
      <4> HIDE DEF q
      <4> QED BY <4>1 DEF TypeOK
    <3> QED BY <1>4, <3>1, <3>2 DEF Settle
  <2> QED BY <1>4, <2>3, <2>4 DEF Settle, TypeOK, loop, gui, bounds
<1>5. CASE Hang(t)
  <2>1. leaves + 1 \in 0..MaxLeaves
    BY <1>5, SessionAssumption DEF Hang, TypeOK
  <2>2. conn[t] # "none" /\ hung' \in [Tasks -> {"skill", "mirror", None}]
        /\ \A u \in Tasks : u # t => hung'[u] = hung[u]
    BY <1>5 DEF Hang, InSkill, TypeOK
  <2> QED BY <1>5, <2>1, <2>2 DEF Hang, TypeOK, loop, stream, gui
<1> QED BY <1>2, <1>3, <1>4, <1>5

\* the connection,
LEMMA ConnectionType ==
  ASSUME TypeOK, NEW t \in Tasks, Sink(t) \/ Close(t)
  PROVE  TypeOK'
<1>1. CASE Sink(t)
  <2>1. chan[t] \in Seq(Events) /\ chan[t] # <<>> /\ Cap \in Nat /\ Len(chan[t]) <= Cap
    BY <1>1, SessionAssumption DEF Sink, TypeOK
  <2>2. Tail(chan[t]) \in Seq(Events) /\ Len(Tail(chan[t])) <= Cap
    BY <2>1, Rest
  <2> QED BY <1>1, <2>2 DEF Sink, TypeOK, loop, waits, gui, bounds
<1>2. CASE Close(t)
  <2>1. <<>> \in Seq(Events) /\ Len(<<>>) <= Cap /\ 0 \in 0..MaxTurns
    BY SessionAssumption
  <2>2. script[t] = <<>> /\ ~more[t]
    BY <1>2 DEF Close, Running
  <2> QED BY <1>2, <2>1, <2>2 DEF Close, TypeOK, gui, bounds
<1> QED BY <1>1, <1>2

\* the client,
LEMMA ClientType ==
  ASSUME TypeOK, NEW t \in Tasks, ReadAsk(t) \/ ReadOn(t) \/ ReadEnd(t) \/ DashEnd(t) \/ TimeOut(t)
  PROVE  TypeOK'
<1>1. ASSUME Reads(t)
      PROVE  /\ chan' \in [Tasks -> Seq(Events)] /\ \A u \in Tasks : Len(chan'[u]) <= Cap
             /\ \A u \in Tasks : conn[u] = "none" => chan'[u] = <<>>
             /\ UNCHANGED <<pending, script, more, turns, asked, reopened, watch, hung, conn, current, sends, leaves>>
  <2>1. chan[t] \in Seq(Events) /\ chan[t] # <<>> /\ Cap \in Nat /\ Len(chan[t]) <= Cap
    BY <1>1, SessionAssumption DEF Reads, TypeOK
  <2>2. Tail(chan[t]) \in Seq(Events) /\ Len(Tail(chan[t])) <= Cap
    BY <2>1, Rest
  <2> QED BY <1>1, <2>2 DEF Reads, TypeOK, loop, waits, bounds
<1>2. CASE ReadAsk(t)
  BY <1>1, <1>2 DEF ReadAsk, TypeOK, Readers, Losses
<1>3. CASE ReadOn(t)
  BY <1>1, <1>3 DEF ReadOn, TypeOK
<1>4. CASE ReadEnd(t)
  BY <1>1, <1>4 DEF ReadEnd, TypeOK, Losses
<1>5. CASE DashEnd(t)
  BY <1>5 DEF DashEnd, TypeOK, Losses, Cleared, loop, waits, bounds
<1>6. CASE TimeOut(t)
  <2>1. leaves' \in 0..MaxLeaves
    BY <1>6, SessionAssumption DEF TimeOut, TypeOK
  <2> QED BY <1>6, <2>1 DEF TimeOut, TypeOK, Losses, loop, waits
<1> QED BY <1>2, <1>3, <1>4, <1>5, <1>6

\* the user,
LEMMA UserType ==
  ASSUME TypeOK, NEW t \in Tasks, SendMessage(t) \/ Answer(t) \/ Dash(t)
  PROVE  TypeOK'
<1>1. sends < MaxSends => sends + 1 \in 0..MaxSends
  BY SessionAssumption DEF TypeOK
<1>2. ASSUME NEW how \in Readers, NEW plan, Plotted(plan[1], plan[2]), Opened(t, how, plan)
      PROVE  /\ script' \in [Tasks -> Seq(Steps)] /\ more' \in [Tasks -> BOOLEAN]
             /\ turns' \in [Tasks -> 0..MaxTurns] /\ conn' \in [Tasks -> {"none", "drain", "broken"}]
             /\ reading' \in [Tasks -> Readers \cup {None}] /\ {asked', reopened'} \subseteq SUBSET Tasks
             /\ \A u \in Tasks : conn'[u] = "none" =>
                  script'[u] = <<>> /\ ~more'[u] /\ chan[u] = <<>> /\ u \notin watch /\ hung[u] = None
             /\ UNCHANGED <<pending, watch, hung, chan, leaves>>
  <2>1. plan[1] \in Seq(Steps) /\ plan[2] \in BOOLEAN /\ 0 \in 0..MaxTurns
    BY <1>2, SessionAssumption DEF Plotted
  <2> QED BY <1>2, <2>1 DEF Opened, TypeOK, waits
<1>3. "chat" \in Readers /\ "resume" \in Readers /\ "dash" \in Readers
  BY DEF Readers
<1>4. CASE SendMessage(t)
  <2>1. PICK plan \in Fresh : Opened(t, "chat", plan)
    BY <1>4 DEF SendMessage
  <2>2. Plotted(plan[1], plan[2])
    BY PlansPlotted
  <2> HIDE DEF Opened
  <2>3. busy' = TRUE /\ sends' = sends + 1 /\ sends < MaxSends /\ UNCHANGED <<view, cards, current, lost>>
    BY <1>4 DEF SendMessage
  <2> QED BY <1>1, <1>2, <1>3, <2>1, <2>2, <2>3 DEF TypeOK
<1>5. CASE Answer(t)
  <2>1. /\ sends < MaxSends /\ sends' = sends + 1 /\ view' \in SUBSET Tasks /\ current' = current
        /\ cards' \in [Sessions -> Tasks \cup {None}]
    BY <1>5 DEF Answer, TypeOK
  <2>2. pending[t] \in Questions \cup {None}
    BY DEF TypeOK
  <2>3. CASE \E plan \in Resumed(pending[t]) : busy' = TRUE /\ Opened(t, "resume", plan)
                /\ lost' = [u \in Tasks |-> CASE u = t -> IF pending[t] = "grant" /\ plan \in Unsettled THEN "kept" ELSE None
                                              [] u \in {w \in Tasks : w # t /\ cards[current] = w} -> "wiped"
                                              [] OTHER -> lost[u]]
    <3>1. PICK plan \in Resumed(pending[t]) : busy' = TRUE /\ Opened(t, "resume", plan)
                /\ lost' = [u \in Tasks |-> CASE u = t -> IF pending[t] = "grant" /\ plan \in Unsettled THEN "kept" ELSE None
                                              [] u \in {w \in Tasks : w # t /\ cards[current] = w} -> "wiped"
                                              [] OTHER -> lost[u]]
      BY <2>3
    <3>2. Plotted(plan[1], plan[2])
      BY <2>2, AnswerPlotted
    <3>3. lost' \in [Tasks -> Losses \cup {None}]
      BY <3>1 DEF TypeOK, Losses
    <3> QED BY <1>1, <1>2, <1>3, <2>1, <3>1, <3>2, <3>3 DEF TypeOK
  <2>4. CASE /\ lost' = [u \in Tasks |-> CASE u = t -> "unsent"
                                           [] u \in {w \in Tasks : w # t /\ cards[current] = w} -> "wiped"
                                           [] OTHER -> lost[u]]
             /\ UNCHANGED busy /\ UNCHANGED <<pending, loop, waits, stream, leaves>>
    <3>3. lost' \in [Tasks -> Losses \cup {None}]
      BY <2>4 DEF TypeOK, Losses
    <3> QED BY <1>1, <2>1, <2>4, <3>3 DEF TypeOK, loop, waits, stream
  <2> QED BY <1>5, <2>3, <2>4 DEF Answer
<1>6. CASE Dash(t)
  <2>1. PICK plan \in Approved \cup Denied : Opened(t, "dash", plan)
    BY <1>6 DEF Dash
  <2>2. Plotted(plan[1], plan[2])
    BY PlansPlotted
  <2>3. sends' = sends + 1 /\ sends < MaxSends /\ UNCHANGED <<gui, lost>>
    BY <1>6 DEF Dash
  <2> QED BY <1>1, <1>2, <1>3, <2>1, <2>2, <2>3 DEF TypeOK, gui
<1> QED BY <1>4, <1>5, <1>6

\* and the sessions that are opened or deleted.
LEMMA ViewsType ==
  ASSUME TypeOK, NEW s \in Sessions, OpenSession(s) \/ DeleteSession(s)
  PROVE  TypeOK'
<1>1. leaves < MaxLeaves => leaves + 1 \in 0..MaxLeaves
  BY SessionAssumption DEF TypeOK
<1>2. \A c \in Sessions : Shown(c) \in SUBSET Tasks
  BY DEF Shown, TypeOK
<1>3. CASE OpenSession(s)
  BY <1>1, <1>2, <1>3 DEF OpenSession, TypeOK, loop, waits, stream
<1>4. CASE DeleteSession(s)
  <2>1. /\ current' \in Sessions /\ view' \in SUBSET Tasks
        /\ cards' \in [Sessions -> Tasks \cup {None}] /\ lost' \in [Tasks -> Losses \cup {None}]
        /\ leaves' = leaves + 1 /\ leaves < MaxLeaves
    BY <1>2, <1>4 DEF DeleteSession, TypeOK, Losses
  <2> QED BY <1>1, <1>4, <2>1 DEF DeleteSession, TypeOK, loop, waits, stream
<1> QED BY <1>3, <1>4

\* TypeOK is inductive by itself.
LEMMA NextType == TypeOK /\ [Next]_vars => TypeOK'
<1> SUFFICES ASSUME TypeOK, [Next]_vars PROVE TypeOK'
  OBVIOUS
<1>1. CASE UNCHANGED vars
  BY <1>1 DEF vars, loop, waits, stream, gui, bounds, TypeOK
<1>2. CASE Next
  BY <1>2, StepType, LoopType, ConnectionType, ClientType, UserType, ViewsType DEF Next, System
<1> QED BY <1>1, <1>2

(***************************************************************************)
(* Every state variable keeps its type; a connection that is over leaves   *)
(* no loop, no event and no settlement watch behind.                       *)
(***************************************************************************)
THEOREM TypeCorrect == Spec => []TypeOK
<1>1. Init => TypeOK
  BY InitType
<1>2. TypeOK /\ [Next]_vars => TypeOK'
  BY NextType
<1> QED BY <1>1, <1>2, PTL DEF Spec

-----------------------------------------------------------------------------
(***************************************************************************)
(* No question loses its card unnoticed.                                   *)
(***************************************************************************)

\* Nothing happens to a task whose loop, channel and reader stay, if what it
\* loses is marked.
Still(u) ==
  UNCHANGED <<pending[u], script[u], more[u], chan[u], conn[u], reading[u]>>

\* A card that goes is marked as lost, and a mark stays.
Marked(u) == (lost[u] # None => lost'[u] # None) /\ (Card(u) => Card(u)' \/ lost'[u] # None)

\* A task that another one's step leaves alone stays accounted for.
LEMMA Untouched ==
  ASSUME NEW u, Followed(u), Still(u), Marked(u)
  PROVE  Followed(u)'
  BY DEF Followed, Still, Marked, AskedFirst, DoneLast, DoneSent, LeftAtEnd, NoAsk, Told, Coming,
         Renewing, Parking

\* A loop that is not over and starts a new script.
LEMMA Scripted ==
  ASSUME CardInv, NEW t \in Tasks, script[t] = <<>>, NEW s, NEW g, Plotted(s, g),
         script' = [script EXCEPT ![t] = s], more' = [more EXCEPT ![t] = g], more[t],
         UNCHANGED <<pending, chan, conn, reading, view, cards, lost>>
  PROVE  \A u \in Tasks : Followed(u)'
<1>1. /\ script \in [Tasks -> Seq(Steps)] /\ more \in [Tasks -> BOOLEAN] /\ Followed(t)
      /\ script'[t] = s /\ more'[t] = g /\ conn[t] # "none"
  BY DEF CardInv, TypeOK
<1>2. Followed(t)'
  <2>1. ~Renewing(t)
    BY DEF Renewing
  <2>2. ~Parking(t)'
    <3>1. s # <<>> => Head(s) = s[1] /\ 1 \in 1..Len(s)
      BY Rest DEF Plotted
    <3> QED BY <1>1, <3>1 DEF Parking, Plotted
  <2>3. Told(t)'
    BY <1>1, <2>1, <2>2 DEF Followed, Told, Coming, Card, NoAsk
  <2>4. AskedFirst(script[t])' /\ DoneLast(t)'
    BY <1>1 DEF AskedFirst, DoneLast, Plotted
  <2>5. DoneSent(t)' /\ LeftAtEnd(t)'
    BY <1>1 DEF Followed, DoneSent, LeftAtEnd
  <2> QED BY <2>3, <2>4, <2>5 DEF Followed
<1>3. ASSUME NEW u \in Tasks, u # t PROVE Followed(u)'
  <2>1. Still(u) /\ Marked(u) /\ Followed(u)
    BY <1>1, <1>3 DEF Still, Marked, Card, CardInv
  <2> QED BY <2>1, Untouched
<1> QED BY <1>2, <1>3

\* A turn starts with a script that asks before it parks.
LEMMA TurnsFollowed ==
  ASSUME CardInv, NEW t \in Tasks, TakeTurn(t) \/ OutOfTurns(t)
  PROVE  \A u \in Tasks : Followed(u)'
<1>1. Plotted(Failing, FALSE)
  BY DEF Failing, Plotted, Steps, Asks, Send, Park, Events
<1>2. /\ script[t] = <<>> /\ more[t]
      /\ UNCHANGED <<pending, chan, conn, reading, view, cards, lost>>
  BY DEF TakeTurn, OutOfTurns, stream, gui
<1>3. \E s, g : Plotted(s, g) /\ script' = [script EXCEPT ![t] = s] /\ more' = [more EXCEPT ![t] = g]
  BY <1>1, TurnPlotted DEF OutOfTurns
<1> QED BY <1>2, <1>3, Scripted

\* A question that is parked was sent right before, so it is on its way, was read, or is lost.
LEMMA StepFollowed ==
  ASSUME CardInv, NEW t \in Tasks, Step(t)
  PROVE  \A u \in Tasks : Followed(u)'
<1> DEFINE s == script[t]
           x == Head(s)
           r == Tail(s)
<1>1. /\ TypeOK /\ Followed(t) /\ s \in Seq(Steps) /\ s # <<>> /\ conn[t] # "none"
      /\ chan \in [Tasks -> Seq(Events)] /\ script \in [Tasks -> Seq(Steps)]
  BY DEF CardInv, TypeOK, Step
<1>2. /\ x \in Steps /\ x = s[1] /\ Len(s) \in Nat \ {0} /\ Len(r) = Len(s) - 1
      /\ r \in Seq(Steps) /\ \A k \in 1..Len(r) : r[k] = s[k + 1]
  BY <1>1, Rest
<1>3. /\ script' = [script EXCEPT ![t] = r] /\ script'[t] = r
      /\ UNCHANGED <<more, conn, reading, view, cards, lost>>
  BY <1>1 DEF Step, gui
<1> HIDE DEF s, x, r
<1>4. AskedFirst(script[t])'
  <2> SUFFICES ASSUME NEW k \in 1..Len(r), r[k] \in Asks, k > 1
               PROVE  r[k - 1] = Send("ask")
    BY <1>3 DEF AskedFirst
  <2>1. k + 1 \in 1..Len(s) /\ k + 1 > 1 /\ s[k + 1] \in Asks /\ k - 1 \in 1..Len(r)
    BY <1>2
  <2>2. s[(k + 1) - 1] = Send("ask")
    BY <1>1, <2>1 DEF Followed, AskedFirst, s
  <2>3. r[k - 1] = s[(k - 1) + 1] /\ (k - 1) + 1 = (k + 1) - 1
    BY <1>2, <2>1
  <2> QED BY <2>2, <2>3
<1>5. \A k \in 1..Len(s) : s[k] = Send("done") => k = Len(s) /\ ~more[t]
  BY <1>1 DEF Followed, DoneLast, s
<1>6. DoneLast(t)'
  <2> SUFFICES ASSUME NEW k \in 1..Len(r), r[k] = Send("done")
               PROVE  k = Len(r) /\ ~more[t]
    BY <1>3 DEF DoneLast
  <2>1. k + 1 \in 1..Len(s) /\ s[k + 1] = Send("done")
    BY <1>2
  <2>2. k + 1 = Len(s) /\ ~more[t]
    BY <1>5, <2>1
  <2>3. k = Len(r)
    BY <1>2, <2>2
  <2> QED BY <2>2, <2>3
<1>7. \A k \in 1..Len(chan[t]) : chan[t][k] # "done"
  BY <1>1 DEF Followed, DoneSent, s
<1>8. reading[t] = None => lost[t] # None
  BY <1>1 DEF Followed, LeftAtEnd, s
<1>9. conn[t] = "broken" => reading[t] = None
  BY <1>1 DEF Followed, LeftAtEnd
<1>10. LeftAtEnd(t)'
  BY <1>3, <1>8, <1>9 DEF LeftAtEnd
<1>11. ~Parking(t)' \/ x = Send("ask")
  <2> SUFFICES ASSUME r # <<>>, Head(r) \in Asks PROVE x = Send("ask")
    BY <1>3 DEF Parking
  <2>1. Head(r) = r[1] /\ 1 \in 1..Len(r) /\ 2 \in 1..Len(s) /\ 2 > 1
    <3>1. Head(r) = r[1] /\ Len(r) \in Nat \ {0}
      BY <1>2, Rest
    <3> QED BY <1>2, <3>1
  <2>2. s[1 + 1] \in Asks /\ 1 + 1 = 2 /\ 2 - 1 = 1
    BY <1>2, <2>1
  <2> QED BY <1>1, <1>2, <2>1, <2>2 DEF Followed, AskedFirst, s
<1>12. CASE /\ x[1] = "send" /\ chan' = [chan EXCEPT ![t] = Append(@, x[2])]
            /\ UNCHANGED <<pending, watch, asked>>
  <2> DEFINE e == x[2]
             c == Append(chan[t], e)
  <2>1. e \in Events /\ x = Send(e) /\ chan[t] \in Seq(Events)
    BY <1>1, <1>2, <1>12, StepKinds
  <2> HIDE DEF e
  <2>2. /\ c \in Seq(Events) /\ Len(c) = Len(chan[t]) + 1
        /\ \A k \in 1..Len(c) : c[k] = IF k \in 1..Len(chan[t]) THEN chan[t][k] ELSE e
    BY <2>1, OneMore
  <2>3. Len(chan[t]) \in Nat
    BY <2>1
  <2>4. chan'[t] = c
    BY <1>1, <1>12 DEF e
  <2> HIDE DEF c
  <2>5. \A k \in 1..Len(c) : c[k] = "done" => k = Len(c) /\ e = "done"
    BY <1>7, <2>2, <2>3
  <2>6. e = "done" => r = <<>> /\ ~more[t]
    <3>1. 1 \in 1..Len(s) /\ (e = "done" => s[1] = Send("done"))
      BY <1>2, <2>1
    <3>2. e = "done" => 1 = Len(s) /\ ~more[t]
      BY <1>5, <3>1
    <3>3. ASSUME e = "done" PROVE Len(r) = 0
      <4>1. 1 = Len(s)
        BY <3>2, <3>3
      <4>2. Len(r) = Len(s) - 1 /\ 1 - 1 = 0
        BY <1>2
      <4> QED BY <4>1, <4>2
    <3>4. Len(r) = 0 => r = <<>>
      BY <1>2
    <3> QED BY <3>2, <3>3, <3>4
  <2>7. DoneSent(t)'
    <3> SUFFICES ASSUME NEW k \in 1..Len(c), c[k] = "done"
                 PROVE  /\ r = <<>> /\ ~more[t]
                        /\ \A j \in k..Len(c) : c[j] # "ask"
      BY <1>3, <2>4 DEF DoneSent
    <3>1. \A j \in k..Len(c) : j = k
      BY <2>2, <2>3, <2>5
    <3> QED BY <2>5, <2>6, <3>1
  <2>8. \A k \in 1..Len(chan[t]) : k \in 1..Len(c) /\ c[k] = chan[t][k]
    BY <2>2, <2>3
  <2>9. Told(t)'
    <3>1. CASE e = "ask"
      <4>1. Len(c) \in 1..Len(c) /\ c[Len(c)] = "ask"
        BY <2>2, <2>3, <3>1
      <4> QED BY <1>3, <1>8, <2>4, <4>1 DEF Told, Coming, NoAsk
    <3>2. CASE e # "ask"
      <4>1. x # Send("ask") /\ x # Clear
        BY <2>1, <3>2 DEF Send, Clear
      <4>2. ~Parking(t)' /\ ~Renewing(t)
        BY <1>11, <4>1 DEF Renewing, x, s
      <4> QED BY <1>1, <1>3, <1>12, <2>4, <2>8, <4>2 DEF Followed, Told, Coming, NoAsk, Card
    <3> QED BY <3>1, <3>2
  <2>10. \A u \in Tasks : u # t => chan'[u] = chan[u] /\ pending'[u] = pending[u]
    BY <1>1, <1>12
  <2>11. Followed(t)'
    BY <1>4, <1>6, <1>10, <2>7, <2>9 DEF Followed
  <2>12. ASSUME NEW u \in Tasks, u # t PROVE Followed(u)'
    <3>1. Still(u) /\ Marked(u) /\ Followed(u)
      BY <1>1, <1>3, <2>10, <2>12 DEF Still, Marked, Card, CardInv
    <3> QED BY <3>1, Untouched
  <2> QED BY <2>11, <2>12
<1>13. CASE x[1] # "send" /\ chan' = chan /\ \A u \in Tasks : u # t => pending'[u] = pending[u]
  <2>1. x # Send("ask") /\ ~Parking(t)'
    BY <1>11, <1>13 DEF Send
  <2>2. DoneSent(t)'
    BY <1>7, <1>13 DEF DoneSent
  <2>3. ASSUME pending'[t] = pending[t] \/ x \in Asks, x # Clear
        PROVE  Told(t)'
    <3>1. ~Renewing(t)
      BY <2>1, <2>3 DEF Renewing, x, s
    <3>2. pending'[t] # None => pending[t] # None \/ Parking(t)
      BY <1>1, <2>3 DEF Parking, x, s
    <3> QED BY <1>1, <1>3, <1>13, <2>1, <3>1, <3>2 DEF Followed, Told, Coming, NoAsk, Card
  <2>4. Told(t)'
    <3>1. CASE x[1] = "park" /\ pending' = [pending EXCEPT ![t] = x[2]]
      <4>1. x[2] \in Questions \cup {None} /\ x = Park(x[2]) /\ pending'[t] = x[2]
        BY <1>1, <1>2, <3>1, StepKinds DEF TypeOK
      <4>2. CASE x[2] = None
        BY <2>1, <4>1, <4>2 DEF Told
      <4>3. CASE x[2] # None
        <5>1. x \in Asks /\ x # Clear
          BY <4>1, <4>3 DEF Asks, Clear, Park
        <5> QED BY <2>3, <5>1
      <4> QED BY <4>2, <4>3
    <3>2. CASE x[1] = "run" /\ pending' = pending
      BY <1>2, <2>3, <3>2, StepKinds
    <3> QED BY <1>13, <3>1, <3>2 DEF Step, x, s
  <2>5. Followed(t)'
    BY <1>4, <1>6, <1>10, <2>2, <2>4 DEF Followed
  <2>6. ASSUME NEW u \in Tasks, u # t PROVE Followed(u)'
    <3>1. Still(u) /\ Marked(u) /\ Followed(u)
      BY <1>1, <1>3, <1>13, <2>6 DEF Still, Marked, Card, CardInv
    <3> QED BY <3>1, Untouched
  <2> QED BY <2>5, <2>6
<1>14. \/ x[1] = "send" /\ chan' = [chan EXCEPT ![t] = Append(@, x[2])] /\ UNCHANGED <<pending, watch, asked>>
       \/ x[1] = "park" /\ pending' = [pending EXCEPT ![t] = x[2]] /\ UNCHANGED <<watch, chan>>
       \/ x[1] = "run" /\ UNCHANGED <<pending, chan, asked>>
  BY DEF Step, x, s
<1>15. pending \in [Tasks -> Questions \cup {None}]
  BY <1>1 DEF TypeOK
<1> QED BY <1>12, <1>13, <1>14, <1>15

\* The channel gives up its first event.
LEMMA Shorter ==
  ASSUME CardInv, NEW t \in Tasks, chan[t] # <<>>, chan' = [chan EXCEPT ![t] = Tail(@)],
         UNCHANGED <<script, more>>
  PROVE  /\ DoneSent(t)' /\ (NoAsk(chan[t]) => NoAsk(chan'[t]))
         /\ Head(chan[t]) # "ask" /\ ~NoAsk(chan[t]) => ~NoAsk(chan'[t])
         /\ Head(chan[t]) = "done" => script[t] = <<>> /\ ~more[t] /\ NoAsk(chan[t])
         /\ \A u \in Tasks : u # t => chan'[u] = chan[u]
<1> DEFINE c == chan[t]
           r == Tail(c)
<1>1. /\ chan \in [Tasks -> Seq(Events)] /\ c \in Seq(Events) /\ c # <<>> /\ DoneSent(t)
  BY DEF CardInv, TypeOK, Followed
<1>2. /\ Head(c) = c[1] /\ Len(c) \in Nat \ {0} /\ Len(r) = Len(c) - 1
      /\ \A k \in 1..Len(r) : r[k] = c[k + 1]
  BY <1>1, Rest
<1>3. chan'[t] = r /\ \A u \in Tasks : u # t => chan'[u] = chan[u]
  BY <1>1
<1>4. \A k \in 1..Len(c) : c[k] = "done" => script[t] = <<>> /\ ~more[t] /\ \A j \in k..Len(c) : c[j] # "ask"
  BY <1>1 DEF DoneSent
<1> HIDE DEF c, r
<1>5. DoneSent(t)'
  <2> SUFFICES ASSUME NEW k \in 1..Len(r), r[k] = "done"
               PROVE  script[t] = <<>> /\ ~more[t] /\ \A j \in k..Len(r) : r[j] # "ask"
    BY <1>3 DEF DoneSent
  <2>1. k + 1 \in 1..Len(c) /\ c[k + 1] = "done"
    BY <1>2
  <2>2. script[t] = <<>> /\ ~more[t] /\ \A j \in (k + 1)..Len(c) : c[j] # "ask"
    BY <1>4, <2>1
  <2>3. ASSUME NEW j \in k..Len(r) PROVE r[j] # "ask"
    <3>1. j \in 1..Len(r) /\ j + 1 \in (k + 1)..Len(c)
      BY <1>2, <2>1
    <3> QED BY <1>2, <2>2, <3>1
  <2> QED BY <2>2, <2>3
<1>6. NoAsk(c) => NoAsk(r)
  <2>1. \A k \in 1..Len(r) : k + 1 \in 1..Len(c)
    BY <1>2
  <2> QED BY <1>2, <2>1 DEF NoAsk
<1>7. ASSUME Head(c) # "ask", NoAsk(r) PROVE NoAsk(c)
  <2> SUFFICES ASSUME NEW k \in 1..Len(c) PROVE c[k] # "ask"
    BY DEF NoAsk
  <2>1. CASE k = 1
    BY <1>2, <1>7, <2>1
  <2>2. CASE k # 1
    <3>1. k - 1 \in 1..Len(r) /\ (k - 1) + 1 = k
      BY <1>2, <2>2
    <3>2. r[k - 1] = c[(k - 1) + 1]
      BY <1>2, <3>1
    <3> QED BY <1>7, <3>1, <3>2 DEF NoAsk
  <2> QED BY <2>1, <2>2
<1>8. Head(c) = "done" => script[t] = <<>> /\ ~more[t] /\ NoAsk(c)
  <2>1. 1 \in 1..Len(c)
    BY <1>2
  <2> QED BY <1>2, <1>4, <2>1 DEF NoAsk
<1> QED BY <1>3, <1>5, <1>6, <1>7, <1>8 DEF c

\* A settlement is no question.
LEMMA SettleFollowed ==
  ASSUME CardInv, NEW t \in Tasks, Settle(t)
  PROVE  \A u \in Tasks : Followed(u)'
<1> DEFINE c == Append(chan[t], "paymentsettled")
<1>1. /\ chan \in [Tasks -> Seq(Events)] /\ chan[t] \in Seq(Events) /\ "paymentsettled" \in Events
      /\ Len(chan[t]) \in Nat /\ Followed(t)
  BY DEF CardInv, TypeOK, Events
<1>2. UNCHANGED <<pending, script, more, conn, reading, view, cards, lost>>
  BY DEF Settle, loop, gui
<1>3. /\ Len(c) = Len(chan[t]) + 1
      /\ \A k \in 1..Len(c) : c[k] = IF k \in 1..Len(chan[t]) THEN chan[t][k] ELSE "paymentsettled"
  BY <1>1, OneMore
<1> HIDE DEF c
<1>4. \A k \in 1..Len(chan[t]) : k \in 1..Len(c) /\ c[k] = chan[t][k]
  BY <1>1, <1>3
<1>5. CASE chan' = [chan EXCEPT ![t] = c]
  <2>1. chan'[t] = c
    BY <1>1, <1>5
  <2>2. DoneSent(t)'
    <3> SUFFICES ASSUME NEW k \in 1..Len(c), c[k] = "done"
                 PROVE  script[t] = <<>> /\ ~more[t] /\ \A j \in k..Len(c) : c[j] # "ask"
      BY <1>2, <2>1 DEF DoneSent
    <3>1. k \in 1..Len(chan[t]) /\ chan[t][k] = "done"
      BY <1>3
    <3>2. script[t] = <<>> /\ ~more[t] /\ \A j \in k..Len(chan[t]) : chan[t][j] # "ask"
      BY <1>1, <3>1 DEF Followed, DoneSent
    <3>3. ASSUME NEW j \in k..Len(c) PROVE c[j] # "ask"
      <4>1. j \in 1..Len(c) /\ (j \in 1..Len(chan[t]) => j \in k..Len(chan[t]))
        BY <1>1, <1>3, <3>1
      <4> QED BY <1>3, <3>2, <4>1
    <3> QED BY <3>2, <3>3
  <2>3. NoAsk(c) <=> NoAsk(chan[t])
    BY <1>3, <1>4 DEF NoAsk
  <2>4. Followed(t)'
    <3>1. AskedFirst(script[t])' /\ DoneLast(t)' /\ LeftAtEnd(t)' /\ Told(t)'
      BY <1>1, <1>2, <2>1, <2>3 DEF Followed, AskedFirst, DoneLast, LeftAtEnd, Told, Coming, Parking, Renewing, Card
    <3> QED BY <2>2, <3>1 DEF Followed
  <2>5. ASSUME NEW u \in Tasks, u # t PROVE Followed(u)'
    <3>1. Still(u) /\ Marked(u) /\ Followed(u)
      BY <1>1, <1>2, <1>5, <2>5 DEF Still, Marked, Card, CardInv
    <3> QED BY <3>1, Untouched
  <2> QED BY <2>4, <2>5
<1>6. CASE chan' = chan
  <2> SUFFICES ASSUME NEW u \in Tasks PROVE Followed(u)'
    OBVIOUS
  <2>1. Still(u) /\ Marked(u) /\ Followed(u)
    BY <1>2, <1>6 DEF Still, Marked, Card, CardInv
  <2> QED BY <2>1, Untouched
<1> QED BY <1>5, <1>6 DEF Settle, c

\* A connection that closes has nothing left to read, or no reader.
LEMMA ConnectionFollowed ==
  ASSUME CardInv, NEW t \in Tasks, Sink(t) \/ Close(t)
  PROVE  \A u \in Tasks : Followed(u)'
<1>1. /\ chan \in [Tasks -> Seq(Events)] /\ conn \in [Tasks -> {"none", "drain", "broken"}]
      /\ Followed(t)
  BY DEF CardInv, TypeOK
<1>2. UNCHANGED <<pending, script, more, reading, view, cards, lost>>
  BY DEF Sink, Close, loop, gui
<1>3. ASSUME NEW u \in Tasks, u # t PROVE Followed(u)'
  <2>1. chan'[u] = chan[u] /\ conn'[u] = conn[u]
    BY <1>1, <1>3 DEF Sink, Close
  <2>2. Still(u) /\ Marked(u) /\ Followed(u)
    BY <1>2, <2>1 DEF Still, Marked, Card, CardInv
  <2> QED BY <2>2, Untouched
<1>4. AskedFirst(script[t])' /\ DoneLast(t)'
  BY <1>1, <1>2 DEF Followed, AskedFirst, DoneLast
<1>5. CASE Sink(t)
  <2>1. /\ chan[t] # <<>> /\ chan' = [chan EXCEPT ![t] = Tail(@)] /\ reading[t] = None
        /\ conn[t] # "none" /\ conn'[t] # "none"
    BY <1>1, <1>5 DEF Sink
  <2>2. DoneSent(t)' /\ (NoAsk(chan[t]) => NoAsk(chan'[t]))
    BY <1>2, <2>1, Shorter
  <2>3. LeftAtEnd(t)'
    BY <1>1, <1>2, <2>1, <2>2 DEF Followed, LeftAtEnd
  <2>4. Told(t)'
    BY <1>1, <1>2, <2>1 DEF Followed, Told, Coming, Parking, Renewing, Card
  <2> QED BY <1>3, <1>4, <2>2, <2>3, <2>4 DEF Followed
<1>6. CASE Close(t)
  <2>1. chan'[t] = <<>> /\ conn'[t] = "none"
    BY <1>1, <1>6 DEF Close
  <2>2. reading[t] = None \/ chan[t] = <<>>
    BY <1>1, <1>6 DEF Close, Followed, LeftAtEnd
  <2>3. ~Coming(t)
    BY <2>2 DEF Coming, NoAsk
  <2>4. DoneSent(t)' /\ LeftAtEnd(t)'
    BY <2>1 DEF DoneSent, LeftAtEnd
  <2>5. Told(t)'
    BY <1>1, <1>2, <2>3 DEF Followed, Told, Parking, Renewing, Card
  <2> QED BY <1>3, <1>4, <2>4, <2>5 DEF Followed
<1> QED BY <1>5, <1>6

\* What is read shows a card; what is left at an "error" is lost, and after "done" nothing comes.
LEMMA ReadFollowed ==
  ASSUME CardInv, NEW t \in Tasks, ReadAsk(t) \/ ReadOn(t) \/ ReadEnd(t)
  PROVE  ViewShown' /\ \A u \in Tasks : Followed(u)'
<1>1. /\ chan \in [Tasks -> Seq(Events)] /\ reading \in [Tasks -> Readers \cup {None}]
      /\ lost \in [Tasks -> Losses \cup {None}] /\ current \in Sessions
      /\ cards \in [Sessions -> Tasks \cup {None}] /\ Followed(t) /\ ViewShown /\ view \subseteq Tasks
  BY DEF CardInv, TypeOK
<1>2. /\ chan[t] # <<>> /\ chan' = [chan EXCEPT ![t] = Tail(@)] /\ conn[t] = "drain" /\ reading[t] # None
      /\ UNCHANGED <<pending, script, more, conn, current>>
  BY DEF ReadAsk, ReadOn, ReadEnd, Reads, loop
<1>3. /\ DoneSent(t)' /\ (NoAsk(chan[t]) => NoAsk(chan'[t]))
      /\ Head(chan[t]) # "ask" /\ ~NoAsk(chan[t]) => ~NoAsk(chan'[t])
      /\ Head(chan[t]) = "done" => script[t] = <<>> /\ ~more[t] /\ NoAsk(chan[t])
      /\ \A u \in Tasks : u # t => chan'[u] = chan[u]
  BY <1>2, Shorter
<1>4. AskedFirst(script[t])' /\ DoneLast(t)'
  BY <1>1, <1>2 DEF Followed, AskedFirst, DoneLast
<1>5. ASSUME NEW u \in Tasks, u # t, Marked(u), reading'[u] = reading[u] PROVE Followed(u)'
  <2>1. Still(u) /\ Followed(u)
    BY <1>2, <1>3, <1>5 DEF Still, CardInv
  <2> QED BY <1>5, <2>1, Untouched
<1>6. CASE ReadAsk(t)
  <2>1. /\ view' = view \cup {t} /\ cards' = [cards EXCEPT ![current] = t]
        /\ reading' = [reading EXCEPT ![t] = IF @ = "chat" THEN "asked" ELSE @]
        /\ lost' = [u \in Tasks |-> CASE u = t -> None
                                      [] u # t /\ u = cards[current] -> "overwritten"
                                      [] OTHER -> lost[u]]
    BY <1>6 DEF ReadAsk
  <2>2. ASSUME NEW u \in Tasks, u # t
        PROVE  reading'[u] = reading[u] /\ lost'[u] = IF u = cards[current] THEN "overwritten" ELSE lost[u]
    BY <1>1, <2>1, <2>2
  <2>3. "overwritten" # None /\ "asked" # None
    BY NoneAssumption DEF Losses, Readers
  <2>4. ASSUME NEW u \in Tasks, u # t PROVE Marked(u)
    <3>1. Card(u) => Card(u)' \/ u = cards[current]
      BY <1>1, <2>1 DEF Card
    <3> QED BY <2>2, <2>3, <2>4, <3>1 DEF Marked
  <2>5. ViewShown'
    <3> SUFFICES ASSUME NEW u \in view' PROVE cards'[current] = u \/ lost'[u] # None
      BY <1>2 DEF ViewShown
    <3>1. CASE u = t
      BY <1>1, <2>1, <3>1
    <3>2. CASE u # t
      <4>1. u \in view /\ u \in Tasks /\ (cards[current] = u \/ lost[u] # None)
        BY <1>1, <2>1, <3>2 DEF ViewShown
      <4> QED BY <2>2, <2>3, <3>2, <4>1
    <3> QED BY <3>1, <3>2
  <2>6. reading'[t] # None /\ t \in view'
    BY <1>1, <1>2, <2>1, <2>3
  <2>7. LeftAtEnd(t)' /\ Told(t)'
    BY <1>2, <2>6 DEF LeftAtEnd, Told, Card
  <2> QED BY <1>3, <1>4, <1>5, <2>2, <2>4, <2>5, <2>7 DEF Followed
<1>7. CASE ReadOn(t)
  <2>1. Head(chan[t]) # "ask" /\ UNCHANGED <<reading, view, cards, lost>>
    BY <1>7 DEF ReadOn
  <2>2. LeftAtEnd(t)'
    BY <1>2, <2>1 DEF LeftAtEnd
  <2>3. Told(t)'
    BY <1>1, <1>2, <1>3, <2>1 DEF Followed, Told, Coming, Parking, Renewing, Card
  <2>4. ViewShown'
    BY <1>1, <1>2, <2>1 DEF ViewShown
  <2>5. \A u \in Tasks : Marked(u)
    BY <2>1 DEF Marked, Card
  <2> QED BY <1>3, <1>4, <1>5, <2>1, <2>2, <2>3, <2>4, <2>5 DEF Followed
<1>8. CASE ReadEnd(t)
  <2>1. /\ Head(chan[t]) \in {"done", "error"} /\ UNCHANGED <<view, cards>>
        /\ reading' = [reading EXCEPT ![t] = None]
        /\ lost' = IF Head(chan[t]) = "error" THEN [lost EXCEPT ![t] = "error"] ELSE lost
    BY <1>8 DEF ReadEnd, Terminal
  <2>2. "error" # None
    BY NoneAssumption DEF Losses
  <2>3. ASSUME NEW u \in Tasks PROVE Marked(u)
    BY <1>1, <2>1, <2>2 DEF Marked, Card
  <2>4. ViewShown'
    <3>1. \A u \in Tasks : lost[u] # None => lost'[u] # None
      BY <2>3 DEF Marked
    <3> QED BY <1>1, <1>2, <2>1, <3>1 DEF ViewShown
  <2>5. lost'[t] # None \/ (script[t] = <<>> /\ ~more[t] /\ NoAsk(chan[t]) /\ NoAsk(chan'[t]))
    BY <1>1, <1>3, <2>1, <2>2
  <2>6. LeftAtEnd(t)'
    BY <1>1, <1>2, <2>1, <2>5 DEF LeftAtEnd
  <2>7. Told(t)'
    <3>1. lost[t] # None => lost'[t] # None
      BY <2>3 DEF Marked
    <3> QED BY <1>1, <1>2, <2>1, <2>5, <3>1 DEF Followed, Told, Coming, Parking, Renewing, Card
  <2>8. \A u \in Tasks : u # t => reading'[u] = reading[u]
    BY <1>1, <2>1
  <2> QED BY <1>3, <1>4, <1>5, <2>3, <2>4, <2>6, <2>7, <2>8 DEF Followed
<1> QED BY <1>6, <1>7, <1>8

\* What is cleared, or left at a time-out, is lost.
LEMMA LeaveFollowed ==
  ASSUME CardInv, NEW t \in Tasks, DashEnd(t) \/ TimeOut(t)
  PROVE  ViewShown' /\ \A u \in Tasks : Followed(u)'
<1>1. /\ reading \in [Tasks -> Readers \cup {None}] /\ lost \in [Tasks -> Losses \cup {None}]
      /\ cards \in [Sessions -> Tasks \cup {None}] /\ Followed(t) /\ ViewShown /\ view \subseteq Tasks
      /\ (conn[t] = "none" => script[t] = <<>> /\ ~more[t] /\ chan[t] = <<>>)
  BY DEF CardInv, TypeOK
<1>2. "wiped" # None /\ "left" # None
  BY NoneAssumption DEF Losses
<1>3. /\ reading' = [reading EXCEPT ![t] = None] /\ chan[t] = <<>>
      /\ UNCHANGED <<pending, script, more, chan, conn, current>>
  BY <1>1 DEF DashEnd, TimeOut, loop
<1>4. ASSUME NEW u \in Tasks, u # t, Marked(u) PROVE Followed(u)'
  <2>1. Still(u) /\ Followed(u)
    BY <1>1, <1>3, <1>4 DEF Still, CardInv
  <2> QED BY <1>4, <2>1, Untouched
<1>5. AskedFirst(script[t])' /\ DoneLast(t)' /\ DoneSent(t)' /\ ~Coming(t)
  BY <1>1, <1>3 DEF Followed, AskedFirst, DoneLast, DoneSent, Coming, NoAsk
<1>6. CASE DashEnd(t)
  <2>1. /\ conn[t] = "none" /\ view' = {} /\ \A s \in Sessions : cards'[s] = None
        /\ lost' = [u \in Tasks |-> IF Card(u) THEN "wiped" ELSE lost[u]]
    BY <1>6 DEF DashEnd, Cleared
  <2>2. \A u \in Tasks : Marked(u)
    BY <1>2, <2>1 DEF Marked
  <2>3. LeftAtEnd(t)' /\ ViewShown'
    BY <1>3, <2>1 DEF LeftAtEnd, ViewShown
  <2>4. Told(t)'
    <3>1. Card(t) \/ lost[t] # None => lost'[t] # None
      BY <1>2, <2>1
    <3> QED BY <1>1, <1>3, <1>5, <3>1 DEF Followed, Told, Parking, Renewing
  <2> QED BY <1>4, <1>5, <2>2, <2>3, <2>4 DEF Followed
<1>7. CASE TimeOut(t)
  <2>1. lost' = [lost EXCEPT ![t] = "left"] /\ UNCHANGED <<view, cards>>
    BY <1>7 DEF TimeOut
  <2>2. lost'[t] # None /\ \A u \in Tasks : lost[u] # None => lost'[u] # None
    BY <1>1, <1>2, <2>1
  <2>3. \A u \in Tasks : Marked(u)
    BY <2>1, <2>2 DEF Marked, Card
  <2>4. ViewShown'
    BY <1>1, <1>3, <2>1, <2>2 DEF ViewShown
  <2>5. LeftAtEnd(t)' /\ Told(t)'
    BY <1>1, <1>3, <2>2 DEF LeftAtEnd, Told
  <2> QED BY <1>4, <1>5, <2>3, <2>4, <2>5 DEF Followed
<1> QED BY <1>6, <1>7

\* A task that a message or an answer wakes.
LEMMA OpenedFollowed ==
  ASSUME CardInv, NEW t \in Tasks, Idle(t), NEW how \in Readers, NEW plan, Plotted(plan[1], plan[2]),
         Opened(t, how, plan),
         pending[t] # None => Renews(plan[1], plan[2]) \/ lost'[t] # None,
         \A u \in Tasks : u # t => Marked(u)
  PROVE  \A u \in Tasks : Followed(u)'
<1>1. /\ reading \in [Tasks -> Readers \cup {None}] /\ script \in [Tasks -> Seq(Steps)]
      /\ more \in [Tasks -> BOOLEAN] /\ conn \in [Tasks -> {"none", "drain", "broken"}]
      /\ chan[t] = <<>>
  BY DEF CardInv, TypeOK, Idle
<1>2. /\ script'[t] = plan[1] /\ more'[t] = plan[2] /\ conn'[t] = "drain" /\ reading'[t] = how /\ how # None
      /\ chan' = chan /\ pending' = pending
      /\ \A u \in Tasks : u # t => script'[u] = script[u] /\ more'[u] = more[u]
                                   /\ conn'[u] = conn[u] /\ reading'[u] = reading[u]
  BY <1>1, NoneAssumption DEF Opened
<1>3. Followed(t)'
  <2>1. AskedFirst(script[t])' /\ DoneLast(t)'
    BY <1>2 DEF AskedFirst, DoneLast, Plotted
  <2>2. DoneSent(t)' /\ LeftAtEnd(t)'
    BY <1>1, <1>2 DEF DoneSent, LeftAtEnd
  <2>3. ~Parking(t)'
    <3>1. plan[1] # <<>> => Head(plan[1]) = plan[1][1] /\ 1 \in 1..Len(plan[1])
      BY Rest DEF Plotted
    <3> QED BY <1>2, <3>1 DEF Parking, Plotted
  <2>4. Renews(plan[1], plan[2]) => Renewing(t)'
    BY <1>2 DEF Renews, Renewing
  <2>5. Told(t)'
    BY <1>2, <2>3, <2>4 DEF Told
  <2> QED BY <2>1, <2>2, <2>5 DEF Followed
<1>4. ASSUME NEW u \in Tasks, u # t PROVE Followed(u)'
  <2>1. Still(u) /\ Followed(u) /\ Marked(u)
    BY <1>2, <1>4 DEF Still, CardInv
  <2> QED BY <2>1, Untouched
<1> QED BY <1>3, <1>4

\* An answer clears its question or asks anew, and what else its row had is lost.
LEMMA UserFollowed ==
  ASSUME CardInv, NEW t \in Tasks, SendMessage(t) \/ Answer(t) \/ Dash(t)
  PROVE  ViewShown' /\ \A u \in Tasks : Followed(u)'
<1>1. /\ cards \in [Sessions -> Tasks \cup {None}] /\ lost \in [Tasks -> Losses \cup {None}]
      /\ ViewShown /\ view \subseteq Tasks /\ current \in Sessions /\ pending[t] \in Questions \cup {None}
  BY DEF CardInv, TypeOK
<1>2. "chat" \in Readers /\ "resume" \in Readers /\ "dash" \in Readers
  BY DEF Readers
<1>3. ASSUME UNCHANGED <<view, cards, lost>> PROVE \A u \in Tasks : Marked(u)
  BY <1>3 DEF Marked, Card
<1>4. CASE SendMessage(t)
  <2>1. PICK plan \in Fresh : Opened(t, "chat", plan)
    BY <1>4 DEF SendMessage
  <2>2. Plotted(plan[1], plan[2])
    BY PlansPlotted
  <2>3. UNCHANGED <<view, cards, current, lost>> /\ Idle(t) /\ pending[t] = None
    BY <1>4 DEF SendMessage, Unused
  <2>4. ViewShown'
    BY <1>1, <2>3 DEF ViewShown
  <2> QED BY <1>2, <1>3, <2>1, <2>2, <2>3, <2>4, OpenedFollowed
<1>5. CASE Dash(t)
  <2>1. PICK plan \in Approved \cup Denied : Opened(t, "dash", plan)
    BY <1>5 DEF Dash
  <2>2. Plotted(plan[1], plan[2]) /\ Renews(plan[1], plan[2])
    BY PlansPlotted
  <2>3. UNCHANGED <<view, cards, current, lost>> /\ Idle(t)
    BY <1>5 DEF Dash, gui
  <2>4. ViewShown'
    BY <1>1, <2>3 DEF ViewShown
  <2> QED BY <1>2, <1>3, <2>1, <2>2, <2>3, <2>4, OpenedFollowed
<1>6. CASE Answer(t)
  <2>1. /\ Idle(t) /\ t \in view /\ view' = view \ {t} /\ current' = current
        /\ cards' = [cards EXCEPT ![current] = None]
    BY <1>6 DEF Answer
  <2>2. PICK why \in Losses \cup {None} :
          /\ lost' = [u \in Tasks |-> CASE u = t -> why
                                        [] u \in {w \in Tasks : w # t /\ cards[current] = w} -> "wiped"
                                        [] OTHER -> lost[u]]
          /\ \/ why = "unsent" /\ UNCHANGED <<pending, loop, waits, stream, leaves>>
             \/ \E plan \in Resumed(pending[t]) :
                  /\ Opened(t, "resume", plan)
                  /\ why = IF pending[t] = "grant" /\ plan \in Unsettled THEN "kept" ELSE None
    BY <1>6 DEF Answer, Losses
  <2>3. "unsent" # None /\ "wiped" # None /\ "kept" # None
    BY NoneAssumption DEF Losses
  <2>4. lost'[t] = why
    BY <2>2
  <2>5. ASSUME NEW u \in Tasks, u # t
        PROVE  lost'[u] = IF cards[current] = u THEN "wiped" ELSE lost[u]
    BY <2>2, <2>5
  <2>6. ASSUME NEW u \in Tasks, u # t PROVE Marked(u)
    <3>1. Card(u) => Card(u)' \/ cards[current] = u
      BY <1>1, <2>1, <2>6 DEF Card
    <3> QED BY <2>3, <2>5, <2>6, <3>1 DEF Marked
  <2>7. ViewShown'
    <3> SUFFICES ASSUME NEW u \in view' PROVE lost'[u] # None
      BY DEF ViewShown
    <3>1. u # t /\ u \in Tasks /\ (cards[current] = u \/ lost[u] # None)
      BY <1>1, <2>1 DEF ViewShown
    <3> QED BY <2>3, <2>5, <3>1
  <2>8. CASE why = "unsent" /\ UNCHANGED <<pending, loop, waits, stream, leaves>>
    <3>1. UNCHANGED <<pending, script, more, chan, conn, reading>>
      BY <2>8 DEF loop, stream
    <3>2. ASSUME NEW u \in Tasks PROVE Followed(u)'
      <4>1. Marked(u)
        BY <2>3, <2>4, <2>6, <2>8 DEF Marked
      <4>2. Still(u) /\ Followed(u)
        BY <3>1 DEF Still, CardInv
      <4> QED BY <4>1, <4>2, Untouched
    <3> QED BY <2>7, <3>2
  <2>9. CASE \E plan \in Resumed(pending[t]) :
                  /\ Opened(t, "resume", plan)
                  /\ why = IF pending[t] = "grant" /\ plan \in Unsettled THEN "kept" ELSE None
    <3>1. PICK plan \in Resumed(pending[t]) :
                  /\ Opened(t, "resume", plan)
                  /\ why = IF pending[t] = "grant" /\ plan \in Unsettled THEN "kept" ELSE None
      BY <2>9
    <3>2. /\ Plotted(plan[1], plan[2])
          /\ pending[t] # None => Renews(plan[1], plan[2]) \/ (pending[t] = "grant" /\ plan \in Unsettled)
      BY <1>1, AnswerPlotted
    <3>3. pending[t] # None => Renews(plan[1], plan[2]) \/ lost'[t] # None
      BY <2>3, <2>4, <3>1, <3>2
    <3> QED BY <1>2, <2>1, <2>6, <2>7, <3>1, <3>2, <3>3, OpenedFollowed
  <2> QED BY <2>2, <2>8, <2>9
<1> QED BY <1>4, <1>5, <1>6

\* A session that is opened shows what its row holds; one that is deleted loses it.
LEMMA ViewsFollowed ==
  ASSUME CardInv, NEW s \in Sessions, OpenSession(s) \/ DeleteSession(s)
  PROVE  ViewShown' /\ \A u \in Tasks : Followed(u)'
<1>1. /\ cards \in [Sessions -> Tasks \cup {None}] /\ lost \in [Tasks -> Losses \cup {None}]
      /\ ViewShown /\ view \subseteq Tasks /\ current \in Sessions
  BY DEF CardInv, TypeOK
<1>2. UNCHANGED <<pending, script, more, chan, conn, reading>>
  BY DEF OpenSession, DeleteSession, loop, stream
<1>3. "deleted" # None
  BY NoneAssumption DEF Losses
<1>4. ASSUME \A u \in Tasks : Marked(u) PROVE \A u \in Tasks : Followed(u)'
  <2> SUFFICES ASSUME NEW u \in Tasks PROVE Followed(u)'
    OBVIOUS
  <2>1. Still(u) /\ Followed(u)
    BY <1>2 DEF Still, CardInv
  <2> QED BY <1>4, <2>1, Untouched
<1>5. CASE OpenSession(s)
  <2>1. current' = s /\ view' = Shown(s) /\ UNCHANGED <<cards, lost>>
    BY <1>5 DEF OpenSession
  <2>2. ViewShown'
    BY <2>1 DEF ViewShown, Shown
  <2>3. \A u \in Tasks : Marked(u)
    BY <1>1, <2>1 DEF Marked, Card, ViewShown
  <2> QED BY <1>4, <2>2, <2>3
<1>6. CASE DeleteSession(s)
  <2>1. /\ cards' = [cards EXCEPT ![s] = None]
        /\ lost' = [u \in Tasks |-> IF u \in Shown(s) THEN "deleted" ELSE lost[u]]
        /\ \/ s = current /\ \E c \in Sessions : current' = c /\ view' = Shown(c) \ Shown(s)
           \/ s # current /\ UNCHANGED <<current, view>>
    BY <1>6 DEF DeleteSession
  <2>2. ASSUME NEW u \in Tasks
        PROVE  lost'[u] = IF cards[s] = u /\ u # None THEN "deleted" ELSE lost[u]
    BY <2>1 DEF Shown
  <2>3. \A u \in Tasks : u # None
    BY SessionAssumption
  <2>4. ASSUME NEW u \in Tasks PROVE Marked(u)
    <3>1. (\E c \in Sessions : cards[c] = u) => (\E c \in Sessions : cards'[c] = u) \/ cards[s] = u
      BY <1>1, <2>1
    <3>2. u \in view => u \in view' \/ cards[s] = u \/ lost[u] # None
      <4>1. CASE s = current
        BY <1>1, <4>1 DEF ViewShown
      <4>2. CASE s # current
        BY <2>1, <4>2
      <4> QED BY <4>1, <4>2
    <3> QED BY <1>3, <2>2, <2>3, <3>1, <3>2 DEF Marked, Card
  <2>5. ViewShown'
    <3> SUFFICES ASSUME NEW u \in view' PROVE cards'[current'] = u \/ lost'[u] # None
      BY DEF ViewShown
    <3>1. CASE s = current
      <4>1. PICK c \in Sessions : current' = c /\ view' = Shown(c) \ Shown(s)
        BY <2>1, <3>1
      <4>2. cards[c] = u /\ c # s
        BY <4>1 DEF Shown
      <4> QED BY <1>1, <2>1, <4>1, <4>2
    <3>2. CASE s # current
      <4>1. u \in view /\ u \in Tasks /\ cards'[current'] = cards[current]
        BY <1>1, <2>1, <3>2
      <4> QED BY <1>1, <1>3, <2>2, <4>1 DEF ViewShown
    <3> QED BY <3>1, <3>2
  <2> QED BY <1>4, <2>4, <2>5
<1> QED BY <1>5, <1>6

\* No step breaks it.
LEMMA CardStep == CardInv /\ [Next]_vars => CardInv'
<1> SUFFICES ASSUME CardInv, [Next]_vars PROVE CardInv'
  OBVIOUS
<1>1. TypeOK'
  BY NextType DEF CardInv
<1>2. ASSUME UNCHANGED <<view, cards, current, lost>> PROVE ViewShown'
  BY <1>2 DEF CardInv, ViewShown
<1>3. CASE UNCHANGED vars
  <2>1. ViewShown'
    BY <1>2, <1>3 DEF vars, gui
  <2>2. ASSUME NEW u \in Tasks PROVE Followed(u)'
    <3>1. Still(u) /\ Marked(u) /\ Followed(u)
      BY <1>3 DEF vars, loop, stream, gui, Still, Marked, Card, CardInv
    <3> QED BY <3>1, Untouched
  <2> QED BY <1>1, <2>1, <2>2 DEF CardInv
<1>8. ASSUME NEW t \in Tasks, Hang(t) PROVE CardInv'
  <2>1. ViewShown'
    BY <1>2, <1>8 DEF Hang, gui
  <2>2. ASSUME NEW u \in Tasks PROVE Followed(u)'
    <3>1. Still(u) /\ Marked(u) /\ Followed(u)
      BY <1>8 DEF Hang, loop, stream, gui, Still, Marked, Card, CardInv
    <3> QED BY <3>1, Untouched
  <2> QED BY <1>1, <2>1, <2>2 DEF CardInv
<1>4. ASSUME NEW t \in Tasks, TakeTurn(t) \/ OutOfTurns(t) \/ Step(t) \/ Settle(t) \/ Sink(t) \/ Close(t)
      PROVE  CardInv'
  <2>1. ViewShown'
    BY <1>2, <1>4 DEF TakeTurn, OutOfTurns, Step, Settle, Sink, Close, gui
  <2>2. \A u \in Tasks : Followed(u)'
    BY <1>4, TurnsFollowed, StepFollowed, SettleFollowed, ConnectionFollowed
  <2> QED BY <1>1, <2>1, <2>2 DEF CardInv
<1>5. ASSUME NEW t \in Tasks, ReadAsk(t) \/ ReadOn(t) \/ ReadEnd(t) \/ DashEnd(t) \/ TimeOut(t)
      PROVE  CardInv'
  BY <1>1, <1>5, ReadFollowed, LeaveFollowed DEF CardInv
<1>6. ASSUME NEW t \in Tasks, SendMessage(t) \/ Answer(t) \/ Dash(t)
      PROVE  CardInv'
  BY <1>1, <1>6, UserFollowed DEF CardInv
<1>7. ASSUME NEW s \in Sessions, OpenSession(s) \/ DeleteSession(s)
      PROVE  CardInv'
  BY <1>1, <1>7, ViewsFollowed DEF CardInv
<1> QED BY <1>3, <1>4, <1>5, <1>6, <1>7, <1>8 DEF Next, System

\* With nothing parked there is nothing to lose.
LEMMA CardInit == Init => CardInv
<1> SUFFICES ASSUME Init PROVE CardInv
  OBVIOUS
<1>1. TypeOK
  BY InitType
<1>2. ViewShown /\ \A t \in Tasks : script[t] = <<>> /\ chan[t] = <<>> /\ conn[t] = "none" /\ pending[t] = None
  BY DEF Init, ViewShown
<1>3. ASSUME NEW t \in Tasks PROVE Followed(t)
  BY <1>2 DEF Followed, AskedFirst, DoneLast, DoneSent, LeftAtEnd, Told, Parking
<1> QED BY <1>1, <1>2, <1>3 DEF CardInv

(***************************************************************************)
(* Once its connection is over, a task parked with a question has a card   *)
(* the user can answer, unless one of the named losses cost it its card.   *)
(***************************************************************************)
THEOREM QuestionsHaveCards == Spec => []QuestionHasCard
<1>1. Init => CardInv
  BY CardInit
<1>2. CardInv /\ [Next]_vars => CardInv'
  BY CardStep
<1>3. CardInv => QuestionHasCard
  <2> SUFFICES ASSUME CardInv, NEW t \in Tasks, pending[t] # None, Idle(t)
               PROVE  Card(t) \/ lost[t] # None
    BY DEF QuestionHasCard
  <2>1. Told(t) /\ script[t] = <<>> /\ reading[t] = None
    BY DEF CardInv, TypeOK, Followed, Idle
  <2> QED BY <2>1 DEF Told, Coming, Renewing
<1> QED BY <1>1, <1>2, <1>3, PTL DEF Spec

-----------------------------------------------------------------------------
(***************************************************************************)
(* An open question holds the actions back.                                *)
(***************************************************************************)

\* What the loop of a task does next, and the question it waits with, stay.
Paused(u) ==
  /\ UNCHANGED <<pending[u], script[u], more[u]>>
  /\ (u \in asked <=> u \in asked') /\ (u \in reopened <=> u \in reopened')

\* A task that another one's step leaves alone goes on holding.
LEMMA PausedKeeps ==
  ASSUME NEW u, AsksLast(u), Held(u), Paused(u)
  PROVE  AsksLast(u)' /\ Held(u)'
  BY DEF AsksLast, Held, Paused

\* A turn, or the end of the turns, starts with nothing left of the one before.
LEMMA TurnHeld ==
  ASSUME TurnInv, NEW t \in Tasks, TakeTurn(t) \/ OutOfTurns(t)
  PROVE  AsksLast(t)' /\ Held(t)'
<1>1. /\ script \in [Tasks -> Seq(Steps)] /\ more \in [Tasks -> BOOLEAN] /\ AsksLast(t) /\ Held(t)
  BY DEF TurnInv, TypeOK
<1>2. script[t] = <<>> /\ more[t] /\ UNCHANGED pending /\ (t \in reopened => t \in reopened')
  BY DEF TakeTurn, OutOfTurns
<1>3. ASSUME NEW tokens \in Streamed, NEW s \in {Failing, <<Send("done")>>}, script'[t] = tokens \o s, more'[t] = FALSE
      PROVE  AsksLast(t)' /\ Held(t)'
  <2>1. /\ tokens \in Seq(Steps) /\ \A k \in 1..Len(tokens) : tokens[k][1] # "run"
        /\ s \in Seq(Steps) /\ \A k \in 1..Len(s) : s[k][1] # "run"
    <3>1. \A e \in {"token", "error", "done"} : Send(e) \in Steps /\ Send(e)[1] # "run"
      BY DEF Send, Steps, Events
    <3>2. tokens = <<>> \/ tokens = <<Send("token")>>
      BY DEF Streamed
    <3>3. s = <<Send("error"), Send("done")>> \/ s = <<Send("done")>>
      BY DEF Failing
    <3>4. \A x, y \in Steps : x[1] # "run" /\ y[1] # "run" =>
            /\ <<>> \in Seq(Steps) /\ <<x>> \in Seq(Steps) /\ <<x, y>> \in Seq(Steps)
            /\ \A k \in 1..1 : <<x>>[k][1] # "run"
            /\ \A k \in 1..2 : <<x, y>>[k][1] # "run"
      <4> SUFFICES ASSUME NEW x \in Steps, NEW y \in Steps, x[1] # "run", y[1] # "run"
                   PROVE  /\ <<>> \in Seq(Steps) /\ <<x>> \in Seq(Steps) /\ <<x, y>> \in Seq(Steps)
                          /\ \A k \in 1..1 : <<x>>[k][1] # "run"
                          /\ \A k \in 1..2 : <<x, y>>[k][1] # "run"
        OBVIOUS
      <4> HIDE DEF Steps
      <4> QED OBVIOUS
    <3>5. \A x, y : Len(<<>>) = 0 /\ Len(<<x>>) = 1 /\ Len(<<x, y>>) = 2
      OBVIOUS
    <3>6. tokens \in Seq(Steps) /\ \A k \in 1..Len(tokens) : tokens[k][1] # "run"
      <4>1. CASE tokens = <<Send("token")>>
        BY <3>1, <3>4, <3>5, <4>1
      <4>2. CASE tokens = <<>>
        <5>1. tokens \in Seq(Steps) /\ 1..Len(tokens) = {}
          BY <4>2
        <5> QED BY <5>1
      <4> QED BY <3>2, <4>1, <4>2
    <3>7. s \in Seq(Steps) /\ \A k \in 1..Len(s) : s[k][1] # "run"
      <4>1. CASE s = <<Send("error"), Send("done")>>
        <5>1. \A k \in 1..2 : s[k][1] # "run"
          BY <3>1, <3>4, <4>1
        <5>2. s \in Seq(Steps) /\ Len(s) = 2
          BY <3>1, <3>4, <3>5, <4>1
        <5> QED BY <5>1, <5>2
      <4>2. CASE s = <<Send("done")>>
        BY <3>1, <3>4, <3>5, <4>2
      <4> QED BY <3>3, <4>1, <4>2
    <3> QED BY <3>6, <3>7
  <2>2. \A k \in 1..Len(tokens \o s) : (tokens \o s)[k][1] # "run"
    <3> DEFINE c == tokens \o s
    <3>1. c = tokens \o s
      OBVIOUS
    <3> HIDE DEF c
    <3>2. \A k \in 1..Len(c) : (k \in 1..Len(tokens) /\ c[k] = tokens[k]) \/ \E j \in 1..Len(s) : c[k] = s[j]
      BY <2>1, <3>1, ConcatPlaces
    <3> QED BY <2>1, <3>1, <3>2
  <2> QED BY <1>3, <2>2 DEF AsksLast, Held
<1>4. CASE TakeTurn(t) /\ \E tokens \in Streamed, r \in Replied :
              /\ script' = [script EXCEPT ![t] = tokens \o r.script]
              /\ more' = [more EXCEPT ![t] = r.goesOn]
              /\ reopened' = IF r.goesOn /\ r.asks THEN reopened \cup {t} ELSE reopened
  <2>1. PICK tokens \in Streamed, r \in Replied :
              /\ script' = [script EXCEPT ![t] = tokens \o r.script]
              /\ more' = [more EXCEPT ![t] = r.goesOn]
              /\ reopened' = IF r.goesOn /\ r.asks THEN reopened \cup {t} ELSE reopened
    BY <1>4
  <2>2. script'[t] = tokens \o r.script /\ more'[t] = r.goesOn /\ t \notin asked'
    BY <1>1, <1>4, <2>1 DEF TakeTurn
  <2>3. r.goesOn /\ ~r.asks => Askless(tokens \o r.script)
    BY RepliedPlotted, StreamedPlotted
  <2>4. AsksLast(t)'
    BY <2>1, <2>2, <2>3 DEF AsksLast, Askless
  <2>5. pending[t] \in {"ask", "pay"} => t \in reopened
    BY <1>1, <1>2 DEF AsksLast, Held
  <2> QED BY <1>2, <2>4, <2>5 DEF Held
<1>5. CASE TakeTurn(t) /\ \E tokens \in Streamed, s \in {Failing, <<Send("done")>>} :
              script' = [script EXCEPT ![t] = tokens \o s] /\ more' = [more EXCEPT ![t] = FALSE]
  BY <1>1, <1>3, <1>5
<1>6. CASE OutOfTurns(t)
  <2>1. script'[t] = <<>> \o Failing /\ more'[t] = FALSE
    BY <1>1, <1>6 DEF OutOfTurns, Failing
  <2> QED BY <1>3, <2>1 DEF Streamed
<1> QED BY <1>4, <1>5, <1>6 DEF TakeTurn

\* A question is parked only by a loop that takes no other turn.
LEMMA StepHeld ==
  ASSUME TurnInv, NEW t \in Tasks, Step(t)
  PROVE  AsksLast(t)' /\ Held(t)'
<1> DEFINE s == script[t]
           x == Head(s)
           r == Tail(s)
<1>1. /\ script \in [Tasks -> Seq(Steps)] /\ s \in Seq(Steps) /\ s # <<>> /\ AsksLast(t) /\ Held(t)
      /\ pending \in [Tasks -> Questions \cup {None}]
  BY DEF TurnInv, TypeOK, Step
<1>2. /\ x \in Steps /\ x = s[1] /\ Len(s) \in Nat \ {0} /\ Len(r) = Len(s) - 1
      /\ \A k \in 1..Len(r) : r[k] = s[k + 1]
  BY <1>1, Rest
<1>3. script'[t] = r /\ UNCHANGED <<more, reopened>>
  BY <1>1 DEF Step
<1>4. \/ x[1] # "park" /\ UNCHANGED <<pending, asked>>
      \/ /\ x[1] = "park" /\ pending' = [pending EXCEPT ![t] = x[2]]
         /\ asked' = IF x[2] = None THEN asked ELSE asked \cup {t}
  BY DEF Step
<1>5. more[t] /\ t \notin reopened => t \notin asked /\ \A k \in 1..Len(s) : s[k] \notin Asks
  BY <1>1 DEF AsksLast
<1>6. pending[t] \in {"ask", "pay"} /\ t \notin asked \cup reopened =>
        (~more[t] /\ \A k \in 1..Len(s) : s[k][1] # "run") \/ x = Clear
  BY <1>1 DEF Held
<1> HIDE DEF s, x, r
<1>7. 1 \in 1..Len(s) /\ \A k \in 1..Len(r) : k + 1 \in 1..Len(s)
  BY <1>2
<1>8. CASE x[1] # "park" /\ UNCHANGED <<pending, asked>>
  <2>1. x # Clear
    BY <1>8 DEF Clear
  <2>2. AsksLast(t)'
    BY <1>2, <1>3, <1>5, <1>7, <1>8 DEF AsksLast
  <2>3. Held(t)'
    BY <1>2, <1>3, <1>6, <1>7, <1>8, <2>1 DEF Held
  <2> QED BY <2>2, <2>3
<1>9. CASE /\ x[1] = "park" /\ pending' = [pending EXCEPT ![t] = x[2]]
           /\ asked' = IF x[2] = None THEN asked ELSE asked \cup {t}
  <2>1. x[2] \in Questions \cup {None} /\ x = Park(x[2]) /\ pending'[t] = x[2]
    BY <1>1, <1>2, <1>9, StepKinds
  <2>2. CASE x[2] = None
    <3>1. Held(t)'
      BY <2>1, <2>2, NoneAssumption DEF Held, Questions
    <3>2. AsksLast(t)'
      BY <1>2, <1>3, <1>5, <1>7, <1>9, <2>2 DEF AsksLast
    <3> QED BY <3>1, <3>2
  <2>3. CASE x[2] # None
    <3>1. x \in Asks /\ t \in asked'
      BY <1>9, <2>1, <2>3 DEF Asks
    <3>2. ~more[t] \/ t \in reopened
      BY <1>2, <1>5, <1>7, <3>1
    <3> QED BY <1>3, <3>1, <3>2 DEF AsksLast, Held
  <2> QED BY <2>2, <2>3
<1> QED BY <1>4, <1>8, <1>9

\* An answer to a question clears it before anything runs, or asks anew and runs nothing.
LEMMA OpenedHeld ==
  ASSUME TurnInv, NEW t \in Tasks, NEW how, NEW plan, Opened(t, how, plan),
         plan[2] => Askless(plan[1]), pending[t] \in {"ask", "pay"} => Renews(plan[1], plan[2])
  PROVE  AsksLast(t)' /\ Held(t)'
<1>1. /\ script \in [Tasks -> Seq(Steps)] /\ more \in [Tasks -> BOOLEAN]
      /\ asked \subseteq Tasks /\ reopened \subseteq Tasks
  BY DEF TurnInv, TypeOK
<1>2. /\ script'[t] = plan[1] /\ more'[t] = plan[2] /\ t \notin asked' \cup reopened'
      /\ pending' = pending
  BY <1>1 DEF Opened
<1>3. AsksLast(t)'
  BY <1>2 DEF AsksLast, Askless
<1>4. Held(t)'
  BY <1>2 DEF Held, Renews
<1> QED BY <1>3, <1>4

\* Tasks other than the one that steps are left alone.
LEMMA OthersPaused ==
  ASSUME TurnInv, NEW t \in Tasks, System(t) \/ TimeOut(t) \/ SendMessage(t) \/ Answer(t) \/ Dash(t),
         NEW u \in Tasks, u # t
  PROVE  Paused(u)
<1>1. /\ script \in [Tasks -> Seq(Steps)] /\ more \in [Tasks -> BOOLEAN]
      /\ pending \in [Tasks -> Questions \cup {None}]
  BY DEF TurnInv, TypeOK
<1>2. CASE TakeTurn(t) \/ OutOfTurns(t) \/ Step(t)
  BY <1>1, <1>2 DEF TakeTurn, OutOfTurns, Step, Paused
<1>3. CASE Settle(t) \/ Sink(t) \/ Close(t)
  BY <1>3 DEF Settle, Sink, Close, Paused, loop
<1>4. CASE ReadAsk(t) \/ ReadOn(t) \/ ReadEnd(t) \/ DashEnd(t) \/ TimeOut(t)
  BY <1>4 DEF ReadAsk, ReadOn, ReadEnd, DashEnd, TimeOut, Reads, Paused, loop
<1>5. CASE SendMessage(t) \/ Answer(t) \/ Dash(t)
  <2>1. ASSUME NEW how, NEW plan, Opened(t, how, plan) PROVE Paused(u)
    BY <1>1, <2>1 DEF Opened, Paused
  <2>2. ASSUME UNCHANGED <<pending, loop>> PROVE Paused(u)
    BY <2>2 DEF loop, Paused
  <2> QED BY <1>5, <2>1, <2>2 DEF SendMessage, Answer, Dash
<1> QED BY <1>2, <1>3, <1>4, <1>5 DEF System

\* TurnInv is inductive.
LEMMA TurnStep == TurnInv /\ [Next]_vars => TurnInv'
<1> SUFFICES ASSUME TurnInv, [Next]_vars PROVE TurnInv'
  OBVIOUS
<1>1. TypeOK' /\ \A u \in Tasks : AsksLast(u) /\ Held(u)
  BY NextType DEF TurnInv
<1>2. ASSUME \A u \in Tasks : Paused(u) PROVE TurnInv'
  BY <1>1, <1>2, PausedKeeps DEF TurnInv
<1>3. ASSUME UNCHANGED <<pending, loop>> PROVE TurnInv'
  BY <1>2, <1>3 DEF loop, Paused
<1>4. CASE UNCHANGED vars
  BY <1>3, <1>4 DEF vars
<1>5. ASSUME NEW t \in Tasks, System(t) \/ TimeOut(t) \/ SendMessage(t) \/ Answer(t) \/ Dash(t),
             (AsksLast(t) /\ Held(t))'
      PROVE  TurnInv'
  <2>1. ASSUME NEW u \in Tasks, u # t PROVE AsksLast(u)' /\ Held(u)'
    <3>1. Paused(u)
      BY <1>5, <2>1, OthersPaused
    <3> QED BY <1>1, <3>1, PausedKeeps
  <2> QED BY <1>1, <1>5, <2>1 DEF TurnInv
<1>6. ASSUME NEW t \in Tasks, TakeTurn(t) \/ OutOfTurns(t) \/ Step(t) PROVE TurnInv'
  BY <1>5, <1>6, TurnHeld, StepHeld DEF System
<1>7. ASSUME NEW t \in Tasks, Close(t) PROVE TurnInv'
  <2>1. UNCHANGED <<pending, script, more>> /\ script[t] = <<>> /\ ~more[t]
    BY <1>7 DEF Close, Running
  <2>2. AsksLast(t)' /\ Held(t)'
    BY <2>1 DEF AsksLast, Held
  <2> QED BY <1>5, <1>7, <2>2 DEF System
<1>8. ASSUME NEW t \in Tasks, SendMessage(t) \/ Answer(t) \/ Dash(t) PROVE TurnInv'
  <2>1. pending[t] \in Questions \cup {None}
    BY DEF TurnInv, TypeOK
  <2>2. (AsksLast(t)' /\ Held(t)') \/ UNCHANGED <<pending, loop>>
    <3>1. CASE SendMessage(t)
      <4>1. PICK plan \in Fresh : Opened(t, "chat", plan)
        BY <3>1 DEF SendMessage
      <4>2. pending[t] \notin {"ask", "pay"}
        BY <3>1, NoneAssumption DEF SendMessage, Unused, Questions
      <4> QED BY <4>1, <4>2, PlansPlotted, OpenedHeld
    <3>2. CASE Dash(t)
      <4>1. PICK plan \in Approved \cup Denied : Opened(t, "dash", plan)
        BY <3>2 DEF Dash
      <4> QED BY <4>1, PlansPlotted, OpenedHeld
    <3>3. CASE Answer(t)
      <4>1. CASE \E plan \in Resumed(pending[t]) : Opened(t, "resume", plan)
        <5>1. PICK plan \in Resumed(pending[t]) : Opened(t, "resume", plan)
          BY <4>1
        <5>2. plan[2] => Askless(plan[1])
          BY <2>1, AnswerPlotted
        <5>3. pending[t] \in {"ask", "pay"} => Renews(plan[1], plan[2])
          BY <2>1, AnswerPlotted, NoneAssumption DEF Questions
        <5> QED BY <5>1, <5>2, <5>3, OpenedHeld
      <4> QED BY <3>3, <4>1 DEF Answer
    <3> QED BY <1>8, <3>1, <3>2, <3>3
  <2> QED BY <1>3, <1>5, <1>8, <2>2
<1>9. ASSUME NEW t \in Tasks,
             Hang(t) \/ Settle(t) \/ Sink(t) \/ ReadAsk(t) \/ ReadOn(t) \/ ReadEnd(t) \/ DashEnd(t) \/ TimeOut(t)
      PROVE  TurnInv'
  BY <1>3, <1>9 DEF Hang, Settle, Sink, ReadAsk, ReadOn, ReadEnd, DashEnd, TimeOut, Reads
<1>10. ASSUME NEW s \in Sessions, OpenSession(s) \/ DeleteSession(s) PROVE TurnInv'
  BY <1>3, <1>10 DEF OpenSession, DeleteSession
<1> QED BY <1>4, <1>6, <1>7, <1>8, <1>9, <1>10 DEF Next, System

(***************************************************************************)
(* A task with an open question runs skills only in the rest of the turn   *)
(* that asked it, when a batch later in that turn let it go on, or when a  *)
(* reply to a skill grant left the grant parked.                           *)
(***************************************************************************)
THEOREM AsksHoldTurns == Spec => AskHoldsTurn
<1>1. Init => TurnInv
  <2> SUFFICES ASSUME Init PROVE TurnInv
    OBVIOUS
  <2>1. TypeOK
    BY InitType
  <2>2. ASSUME NEW t \in Tasks PROVE more[t] = FALSE /\ pending[t] \notin {"ask", "pay"}
    BY NoneAssumption DEF Init, Questions
  <2> QED BY <2>1, <2>2 DEF TurnInv, AsksLast, Held
<1>2. TurnInv /\ [Next]_vars => TurnInv'
  BY TurnStep
<1>3. TurnInv /\ [Next]_vars =>
        [\A t \in Tasks :
           script[t] # <<>> /\ Head(script[t])[1] = "run" /\ script'[t] # script[t]
             => pending[t] \in {None, "grant"} \/ t \in asked \cup reopened]_vars
  <2> SUFFICES ASSUME TurnInv, NEW t \in Tasks, script[t] # <<>>, Head(script[t])[1] = "run"
               PROVE  pending[t] \in {None, "grant"} \/ t \in asked \cup reopened
    OBVIOUS
  <2>1. script[t] \in Seq(Steps) /\ pending[t] \in Questions \cup {None} /\ Held(t)
    BY DEF TurnInv, TypeOK
  <2>2. Head(script[t]) = script[t][1] /\ 1 \in 1..Len(script[t]) /\ Head(script[t]) # Clear
    <3>1. Head(script[t]) = script[t][1] /\ Len(script[t]) \in Nat \ {0}
      BY <2>1, Rest
    <3> QED BY <3>1 DEF Clear
  <2> QED BY <2>1, <2>2 DEF Held, Questions
<1> QED BY <1>1, <1>2, <1>3, PTL DEF Spec, AskHoldsTurn
=============================================================================
