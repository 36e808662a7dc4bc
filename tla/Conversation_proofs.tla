------------------------- MODULE Conversation_proofs -------------------------
(***************************************************************************)
(* What holds of Conversation for any replies, numbers of turns and of     *)
(* calls whose frames mingle, and size of a batch: a streamed reply        *)
(* arrives as it was sent, which of its actions can run twice, and that    *)
(* the next request tells what became of them.                             *)
(***************************************************************************)
EXTENDS Conversation, DataLemmas

-----------------------------------------------------------------------------
(***************************************************************************)
(* The frames of a reply.                                                  *)
(***************************************************************************)
\* Every form a call may come in.
AllForms ==
  {<<"start", "head", "tail", "done">>, <<"head", "tail", "done">>, <<"done">>,
   <<"start", "head", "tail">>}

\* The frames that may still be due of a call of form f.
StillDue(f) ==
  CASE f = <<"done">> -> {<<"done">>, <<>>}
    [] f = <<"start", "head", "tail">> -> {f, <<"head", "tail">>, <<"tail">>, <<>>}
    [] OTHER -> {f, <<"head", "tail", "done">>, <<"tail", "done">>, <<"done">>, <<>>}

\* The id of a call that came in whole.
IdOf(i) == IF sent[i].form[1] = "head" THEN ItemKey(i) ELSE GivenId(i)

\* What the frames that came so far make of call i, when those of d are due.
SoFar(i, d) ==
  [id |-> IdOf(i),
   skill |-> IF sent[i].form[1] = "head" /\ d # <<>> THEN "" ELSE sent[i].skill,
   args |-> IF d # <<>> /\ d[1] = "head" THEN <<>>
            ELSE IF d # <<>> /\ d[1] = "tail" THEN <<<<i, "head">>>> ELSE Whole(i)]

\* Frames of call i came.
Came(i) == due[i] # sent[i].form

\* The calls the provider streams, in some order and form.
Sends ==
  /\ sent \in Seq([skill : Actions \cup {"ask"}, form : AllForms])
  /\ \A i \in 1..Len(sent) : sent[i].form \in Forms

\* Of each call the frames that came are gathered under its key.
CallGathered(i) ==
  /\ due[i] \in StillDue(sent[i].form)
  /\ Came(i) => ItemKey(i) \in DOMAIN chunks /\ chunks[ItemKey(i)] = SoFar(i, due[i])

\* The keys of the calls of which frames came, each once in the order.
KeysOrdered ==
  /\ \A k \in DOMAIN chunks : \E i \in 1..Len(sent) : k = ItemKey(i) /\ Came(i)
  /\ order \in Seq(DOMAIN chunks)
  /\ \A k \in DOMAIN chunks : \E m \in 1..Len(order) : order[m] = k
  /\ \A m, n \in 1..Len(order) : order[m] = order[n] => m = n

Streaming ==
  /\ Sends /\ DOMAIN due = 1..Len(sent)
  /\ \A i \in 1..Len(sent) : CallGathered(i)
  /\ KeysOrdered

\* A call that came in, as call i was sent.
CallOf(i) == [id |-> IdOf(i), skill |-> sent[i].skill, args |-> Whole(i)]

\* The reply that came in is the one that was sent.
Arrived ==
  /\ Sends
  /\ DOMAIN calls = 1..Len(sent)
  /\ \A j \in 1..Len(sent) : \E i \in 1..Len(sent) :
       calls[j] = CallOf(i) /\ (protocol # "responses" => i = j)
  /\ \A j, k \in 1..Len(sent) : calls[j].args = calls[k].args => j = k

\* An action of a model with calls is one of the calls.
Answers ==
  \/ calls = <<>> /\ (native => \A i \in 1..Len(reply) : reply[i] \notin Actions)
  \/ /\ Arrived /\ Len(reply) = Len(sent)
     /\ \A i \in 1..Len(reply) :
          reply[i] \in Actions \/ calls[i].skill \in Actions => reply[i] = calls[i].skill

\* Types, and what the phases of a turn have at hand.
ConvTypes ==
  /\ protocol \in Protocols /\ numbering \in {"fresh", "repeated", "missing"}
  /\ capability \in Capabilities /\ mode \in Capabilities
  /\ phase \in {"call", "wait", "stream", "act", "child", "done", "stuck"}
  /\ turns \in Nat
  /\ reply \in Seq(Items) /\ at \in Nat \ {0}
  /\ ran \in [1..Len(reply) -> Nat]

Phases ==
  /\ phase \in {"call", "wait"} => sent = <<>> 
  /\ phase \notin {"act", "child", "stuck"} => calls = <<>>
  /\ phase \notin {"act", "child", "done", "stuck"} => reply = <<>>
  /\ phase \notin {"stream", "stuck"} => due = <<>> /\ chunks = <<>> /\ order = <<>>
  /\ phase = "stream" => Streaming
  /\ phase \in {"act", "child"} => Answers

StreamInv == ConvTypes /\ Phases

-----------------------------------------------------------------------------
\* The loop came by action i, and ran it.
Passed(i) == i < at /\ Reached(reply, i) /\ ~AtBatch(reply, i)

\* The batch ran, with action i.
Batched(i) == i \in Batch(reply) /\ \E f \in 1..Len(reply) : f < at /\ AtBatch(reply, f)

\* The runs of an action are those the loop came by.
RunsCounted ==
  \A i \in 1..Len(reply) :
    /\ ran[i] > 0 => Passed(i) \/ Batched(i)
    /\ ran[i] > 1 => ran[i] = 2 /\ Passed(i) /\ Batched(i)

\* A delegation was come by like any other action.
Delegating ==
  phase = "child" =>
    at \in 1..Len(reply) /\ Reached(reply, at) /\ ~AtBatch(reply, at) /\ reply[at] = "delegate"

RunInv == ConvTypes /\ Delegating /\ RunsCounted

-----------------------------------------------------------------------------
(***************************************************************************)
(* A frame.                                                                *)
(***************************************************************************)
\* After a frame the rest is due.
LEMMA RestIsDue ==
  ASSUME NEW f \in AllForms, NEW d \in StillDue(f), d # <<>>
  PROVE  /\ Head(d) = d[1] /\ Tail(d) \in StillDue(f) /\ Tail(d) # f
         /\ f \in StillDue(f) /\ f # <<>>
         /\ d = f \/ d \in {<<"head", "tail", "done">>, <<"tail", "done">>, <<"done">>,
                           <<"head", "tail">>, <<"tail">>}
<1> DEFINE A == <<"start", "head", "tail", "done">>
           B == <<"head", "tail", "done">>
           C == <<"tail", "done">>
           D == <<"done">>
           E == <<"start", "head", "tail">>
           F == <<"head", "tail">>
           G == <<"tail">>
<1>1. Tail(A) = B /\ Tail(B) = C /\ Tail(C) = D /\ Tail(D) = <<>>
  OBVIOUS
<1>2. Tail(E) = F /\ Tail(F) = G /\ Tail(G) = <<>>
  OBVIOUS
<1>3. /\ Len(A) = 4 /\ Len(B) = 3 /\ Len(C) = 2 /\ Len(D) = 1
      /\ Len(E) = 3 /\ Len(F) = 2 /\ Len(G) = 1 /\ Len(<<>>) = 0
  OBVIOUS
<1>4. \A d_ \in {A, B, C, D, E, F, G} : Head(d_) = d_[1]
  OBVIOUS
<1>5. B # E
  <2>1. B[1] = "head" /\ E[1] = "start"
    OBVIOUS
  <2> QED BY <2>1
<1>6. f \in {A, B, D, E}
  BY DEF AllForms
<1>7. /\ StillDue(D) = {D, <<>>} /\ StillDue(E) = {E, F, G, <<>>}
      /\ StillDue(A) = {A, B, C, D, <<>>} /\ StillDue(B) = {B, B, C, D, <<>>}
  <2> HIDE DEF A, B, C, D, E, F, G
  <2>1. A # D /\ A # E /\ B # D /\ D # E
    BY <1>3
  <2> USE DEF A, B, C, D, E, F, G
  <2>2. \A f_ : StillDue(f_) = CASE f_ = D -> {D, <<>>} [] f_ = E -> {f_, F, G, <<>>}
                                 [] OTHER -> {f_, B, C, D, <<>>}
    BY DEF StillDue
  <2> HIDE DEF A, B, C, D, E, F, G
  <2> QED BY <2>1, <2>2, <1>5
<1>8. d \in {f, B, C, D, F, G}
  <2> HIDE DEF A, B, C, D, E, F, G
  <2> QED BY <1>6, <1>7
<1>9. /\ Tail(d) \in StillDue(f) /\ Tail(d) # f /\ f # <<>> /\ f \in StillDue(f) /\ Head(d) = d[1]
  <2> HIDE DEF A, B, C, D, E, F, G
  <2>0. /\ A # B /\ A # C /\ A # D /\ A # <<>> /\ B # C /\ B # D /\ B # <<>> /\ D # <<>>
        /\ E # F /\ E # G /\ E # <<>>
    <3>1. A # B /\ A # C /\ A # D
      BY SMTT(30), <1>3
    <3>3. B # C /\ B # D
      BY SMTT(30), <1>3
    <3>4. E # F /\ E # G
      BY SMTT(30), <1>3
    <3>2. A # <<>> /\ B # <<>> /\ D # <<>> /\ E # <<>>
      BY DEF A, B, D, E
    <3> QED BY <3>1, <3>2, <3>3, <3>4
  <2>1. CASE f = A
    <3>1. d \in {A, B, C, D}
      BY <1>7, <2>1
    <3>2. CASE d = A
      BY <1>1, <1>4, <1>7, <2>0, <2>1, <3>2, Zenon
    <3>3. CASE d = B
      BY <1>1, <1>4, <1>7, <2>0, <2>1, <3>3, Zenon
    <3>4. CASE d = C
      BY <1>1, <1>4, <1>7, <2>0, <2>1, <3>4, Zenon
    <3>5. CASE d = D
      BY <1>1, <1>4, <1>7, <2>0, <2>1, <3>5, Zenon
    <3> QED BY <3>1, <3>2, <3>3, <3>4, <3>5
  <2>2. CASE f = B
    <3>1. d \in {B, C, D}
      BY <1>7, <2>2
    <3>2. CASE d = B
      BY <1>1, <1>4, <1>7, <2>0, <2>2, <3>2, Zenon
    <3>3. CASE d = C
      BY <1>1, <1>4, <1>7, <2>0, <2>2, <3>3, Zenon
    <3>4. CASE d = D
      BY <1>1, <1>4, <1>7, <2>0, <2>2, <3>4, Zenon
    <3> QED BY <3>1, <3>2, <3>3, <3>4
  <2>3. CASE f = D
    <3>1. d \in {D}
      BY <1>7, <2>3
    <3>2. CASE d = D
      BY <1>1, <1>4, <1>7, <2>0, <2>3, <3>2, Zenon
    <3> QED BY <3>1, <3>2
  <2>4. CASE f = E
    <3>1. d \in {E, F, G}
      BY <1>7, <2>4
    <3>2. CASE d = E
      BY <1>2, <1>4, <1>7, <2>0, <2>4, <3>2, Zenon
    <3>3. CASE d = F
      BY <1>2, <1>4, <1>7, <2>0, <2>4, <3>3, Zenon
    <3>4. CASE d = G
      BY <1>2, <1>4, <1>7, <2>0, <2>4, <3>4, Zenon
    <3> QED BY <3>1, <3>2, <3>3, <3>4
  <2> QED BY <1>6, <2>1, <2>2, <2>3, <2>4
<1> QED BY <1>8, <1>9

\* Keys differ as calls do.
LEMMA KeysDiffer == \A i, j \in Nat : ItemKey(i) = ItemKey(j) => i = j
  BY DEF ItemKey

\* An item and a call have an id, in the Responses protocol.
LEMMA IdsThere ==
  ASSUME protocol = "responses", numbering \in {"fresh", "repeated", "missing"}, NEW i
  PROVE  ItemKey(i) # NoId /\ GivenId(i) # NoId
<1>1. ItemKey(i) # <<>>
  BY DEF ItemKey
<1>2. \A x, y : <<x, y, i>> # <<>>
  OBVIOUS
<1> QED BY <1>1, <1>2 DEF GivenId, NoId

\* What has come of a call when the frames of d are due, of the form f.
Have(i, f, d) ==
  IF d = f THEN [id |-> NoId, skill |-> "", args |-> <<>>] ELSE SoFar(i, d)

\* The pieces add up to the whole.
LEMMA Pieces ==
  ASSUME NEW i
  PROVE  /\ Append(<<>>, <<i, "head">>) = <<<<i, "head">>>>
         /\ Append(<<<<i, "head">>>>, <<i, "tail">>) = Whole(i)
         /\ Whole(i) # <<>>
<1>1. \A x : Append(<<>>, x) = <<x>>
  OBVIOUS
<1>2. \A x, y : <<x, y>> # <<>>
  OBVIOUS
<1>3. ASSUME NEW x, NEW y PROVE Append(<<x>>, y) = <<x, y>>
  <2>1. <<x>> \in Seq({x, y}) /\ Len(<<x>>) = 1 /\ <<x>>[1] = x
    OBVIOUS
  <2> DEFINE s == <<x>>
             a == Append(s, y)
             b == <<x, y>>
  <2>2. a \in Seq({x, y}) /\ Len(a) = 2 /\ a[1] = x /\ a[2] = y
    <3> HIDE DEF s
    <3> QED BY <2>1 DEF s
  <2>3. b \in Seq({x, y}) /\ Len(b) = 2 /\ b[1] = x /\ b[2] = y
    OBVIOUS
  <2>4. \A m \in 1..2 : a[m] = b[m]
    BY <2>2, <2>3
  <2> HIDE DEF a, b
  <2>5. a = b
    BY <2>2, <2>3, <2>4
  <2> QED BY <2>5 DEF a, b
<1> QED BY <1>1, <1>2, <1>3, Zenon DEF Whole

\* A frame is folded into what has come of its call before.
LEMMA FoldedRight ==
  ASSUME protocol \in Protocols, numbering \in {"fresh", "repeated", "missing"},
         NEW i, sent[i].form \in Forms, NEW d \in StillDue(sent[i].form), d # <<>>
  PROVE  Folded(Have(i, sent[i].form, d), i, Head(d)) = SoFar(i, Tail(d))
<1> DEFINE f == sent[i].form
           empty == [id |-> NoId, skill |-> "", args |-> <<>>]
<1>1. protocol = "responses" => ItemKey(i) # NoId /\ GivenId(i) # NoId
  BY IdsThere
<1>2. CASE protocol = "responses" /\ f = <<"start", "head", "tail", "done">>
  <2>1. CASE d = <<"start", "head", "tail", "done">>
    <3>1. Head(d) = "start" /\ Tail(d) = <<"head", "tail", "done">>
      BY <2>1
    <3>2. Have(i, f, d) = empty
      BY <1>2, <2>1 DEF Have, SoFar, IdOf
    <3>3. SoFar(i, <<"head", "tail", "done">>) = [id |-> GivenId(i), skill |-> sent[i].skill, args |-> <<>>]
      BY <1>2 DEF SoFar, IdOf
    <3>4. Folded(empty, i, "start") = [id |-> GivenId(i), skill |-> sent[i].skill, args |-> <<>>]
      BY <1>1, <1>2, Pieces DEF Folded
    <3> QED BY <3>1, <3>2, <3>3, <3>4
  <2>2. CASE d = <<"head", "tail", "done">>
    <3>1. Head(d) = "head" /\ Tail(d) = <<"tail", "done">>
      BY <2>2
    <3>2. Have(i, f, d) = [id |-> GivenId(i), skill |-> sent[i].skill, args |-> <<>>]
      BY <1>2, <2>2 DEF Have, SoFar, IdOf
    <3>3. SoFar(i, <<"tail", "done">>) = [id |-> GivenId(i), skill |-> sent[i].skill, args |-> <<<<i, "head">>>>]
      BY <1>2 DEF SoFar, IdOf
    <3>4. Folded([id |-> GivenId(i), skill |-> sent[i].skill, args |-> <<>>], i, "head") = [id |-> GivenId(i), skill |-> sent[i].skill, args |-> <<<<i, "head">>>>]
      BY <1>1, <1>2, Pieces DEF Folded
    <3> QED BY <3>1, <3>2, <3>3, <3>4
  <2>3. CASE d = <<"tail", "done">>
    <3>1. Head(d) = "tail" /\ Tail(d) = <<"done">>
      BY <2>3
    <3>2. Have(i, f, d) = [id |-> GivenId(i), skill |-> sent[i].skill, args |-> <<<<i, "head">>>>]
      BY <1>2, <2>3 DEF Have, SoFar, IdOf
    <3>3. SoFar(i, <<"done">>) = [id |-> GivenId(i), skill |-> sent[i].skill, args |-> Whole(i)]
      BY <1>2 DEF SoFar, IdOf
    <3>4. Folded([id |-> GivenId(i), skill |-> sent[i].skill, args |-> <<<<i, "head">>>>], i, "tail") = [id |-> GivenId(i), skill |-> sent[i].skill, args |-> Whole(i)]
      BY <1>1, <1>2, Pieces DEF Folded
    <3> QED BY <3>1, <3>2, <3>3, <3>4
  <2>4. CASE d = <<"done">>
    <3>1. Head(d) = "done" /\ Tail(d) = <<>>
      BY <2>4
    <3>2. Have(i, f, d) = [id |-> GivenId(i), skill |-> sent[i].skill, args |-> Whole(i)]
      BY <1>2, <2>4 DEF Have, SoFar, IdOf
    <3>3. SoFar(i, <<>>) = [id |-> GivenId(i), skill |-> sent[i].skill, args |-> Whole(i)]
      BY <1>2 DEF SoFar, IdOf
    <3>4. Folded([id |-> GivenId(i), skill |-> sent[i].skill, args |-> Whole(i)], i, "done") = [id |-> GivenId(i), skill |-> sent[i].skill, args |-> Whole(i)]
      BY <1>1, <1>2, Pieces DEF Folded
    <3> QED BY <3>1, <3>2, <3>3, <3>4
  <2> QED BY <1>2, RestIsDue, <2>1, <2>2, <2>3, <2>4 DEF StillDue, AllForms
<1>3. CASE protocol = "responses" /\ f = <<"head", "tail", "done">>
  <2>1. CASE d = <<"head", "tail", "done">>
    <3>1. Head(d) = "head" /\ Tail(d) = <<"tail", "done">>
      BY <2>1
    <3>2. Have(i, f, d) = empty
      BY <1>3, <2>1 DEF Have, SoFar, IdOf
    <3>3. SoFar(i, <<"tail", "done">>) = [id |-> ItemKey(i), skill |-> "", args |-> <<<<i, "head">>>>]
      BY <1>3 DEF SoFar, IdOf
    <3>4. Folded(empty, i, "head") = [id |-> ItemKey(i), skill |-> "", args |-> <<<<i, "head">>>>]
      BY <1>1, <1>3, Pieces DEF Folded
    <3> QED BY <3>1, <3>2, <3>3, <3>4
  <2>2. CASE d = <<"tail", "done">>
    <3>1. Head(d) = "tail" /\ Tail(d) = <<"done">>
      BY <2>2
    <3>2. Have(i, f, d) = [id |-> ItemKey(i), skill |-> "", args |-> <<<<i, "head">>>>]
      BY <1>3, <2>2 DEF Have, SoFar, IdOf
    <3>3. SoFar(i, <<"done">>) = [id |-> ItemKey(i), skill |-> "", args |-> Whole(i)]
      BY <1>3 DEF SoFar, IdOf
    <3>4. Folded([id |-> ItemKey(i), skill |-> "", args |-> <<<<i, "head">>>>], i, "tail") = [id |-> ItemKey(i), skill |-> "", args |-> Whole(i)]
      BY <1>1, <1>3, Pieces DEF Folded
    <3> QED BY <3>1, <3>2, <3>3, <3>4
  <2>3. CASE d = <<"done">>
    <3>1. Head(d) = "done" /\ Tail(d) = <<>>
      BY <2>3
    <3>2. Have(i, f, d) = [id |-> ItemKey(i), skill |-> "", args |-> Whole(i)]
      BY <1>3, <2>3 DEF Have, SoFar, IdOf
    <3>3. SoFar(i, <<>>) = [id |-> ItemKey(i), skill |-> sent[i].skill, args |-> Whole(i)]
      BY <1>3 DEF SoFar, IdOf
    <3>4. Folded([id |-> ItemKey(i), skill |-> "", args |-> Whole(i)], i, "done") = [id |-> ItemKey(i), skill |-> sent[i].skill, args |-> Whole(i)]
      BY <1>1, <1>3, Pieces DEF Folded
    <3> QED BY <3>1, <3>2, <3>3, <3>4
  <2> QED BY <1>3, RestIsDue, <2>1, <2>2, <2>3 DEF StillDue, AllForms
<1>4. CASE protocol = "responses" /\ f = <<"done">>
  <2>1. CASE d = <<"done">>
    <3>1. Head(d) = "done" /\ Tail(d) = <<>>
      BY <2>1
    <3>2. Have(i, f, d) = empty
      BY <1>4, <2>1 DEF Have, SoFar, IdOf
    <3>3. SoFar(i, <<>>) = [id |-> GivenId(i), skill |-> sent[i].skill, args |-> Whole(i)]
      BY <1>4 DEF SoFar, IdOf
    <3>4. Folded(empty, i, "done") = [id |-> GivenId(i), skill |-> sent[i].skill, args |-> Whole(i)]
      BY <1>1, <1>4, Pieces DEF Folded
    <3> QED BY <3>1, <3>2, <3>3, <3>4
  <2> QED BY <1>4, RestIsDue, <2>1 DEF StillDue, AllForms
<1>5. CASE protocol # "responses" /\ f = <<"start", "head", "tail">>
  <2>1. CASE d = <<"start", "head", "tail">>
    <3>1. Head(d) = "start" /\ Tail(d) = <<"head", "tail">>
      BY <2>1
    <3>2. Have(i, f, d) = empty
      BY <1>5, <2>1 DEF Have, SoFar, IdOf
    <3>3. SoFar(i, <<"head", "tail">>) = [id |-> GivenId(i), skill |-> sent[i].skill, args |-> <<>>]
      BY <1>5 DEF SoFar, IdOf
    <3>4. Folded(empty, i, "start") = [id |-> GivenId(i), skill |-> sent[i].skill, args |-> <<>>]
      BY <1>1, <1>5, Pieces DEF Folded
    <3> QED BY <3>1, <3>2, <3>3, <3>4
  <2>2. CASE d = <<"head", "tail">>
    <3>1. Head(d) = "head" /\ Tail(d) = <<"tail">>
      BY <2>2
    <3>2. Have(i, f, d) = [id |-> GivenId(i), skill |-> sent[i].skill, args |-> <<>>]
      BY <1>5, <2>2 DEF Have, SoFar, IdOf
    <3>3. SoFar(i, <<"tail">>) = [id |-> GivenId(i), skill |-> sent[i].skill, args |-> <<<<i, "head">>>>]
      BY <1>5 DEF SoFar, IdOf
    <3>4. Folded([id |-> GivenId(i), skill |-> sent[i].skill, args |-> <<>>], i, "head") = [id |-> GivenId(i), skill |-> sent[i].skill, args |-> <<<<i, "head">>>>]
      BY <1>1, <1>5, Pieces DEF Folded
    <3> QED BY <3>1, <3>2, <3>3, <3>4
  <2>3. CASE d = <<"tail">>
    <3>1. Head(d) = "tail" /\ Tail(d) = <<>>
      BY <2>3
    <3>2. Have(i, f, d) = [id |-> GivenId(i), skill |-> sent[i].skill, args |-> <<<<i, "head">>>>]
      BY <1>5, <2>3 DEF Have, SoFar, IdOf
    <3>3. SoFar(i, <<>>) = [id |-> GivenId(i), skill |-> sent[i].skill, args |-> Whole(i)]
      BY <1>5 DEF SoFar, IdOf
    <3>4. Folded([id |-> GivenId(i), skill |-> sent[i].skill, args |-> <<<<i, "head">>>>], i, "tail") = [id |-> GivenId(i), skill |-> sent[i].skill, args |-> Whole(i)]
      BY <1>1, <1>5, Pieces DEF Folded
    <3> QED BY <3>1, <3>2, <3>3, <3>4
  <2> QED BY <1>5, RestIsDue, <2>1, <2>2, <2>3 DEF StillDue, AllForms
<1> QED BY <1>2, <1>3, <1>4, <1>5 DEF Forms

-----------------------------------------------------------------------------
(***************************************************************************)
(* The stream.                                                             *)
(***************************************************************************)
\* The first numbers, in ascending order, are themselves.
LEMMA AscendingIs ==
  ASSUME NEW n \in Nat
  PROVE  Ascending(1..n) = [j \in 1..n |-> j]
<1>1. Cardinality(1..n) = n
  BY FS_Interval
<1>2. ASSUME NEW k \in 1..n PROVE Cardinality({l \in 1..n : l < k}) = k - 1
  <2>1. {l \in 1..n : l < k} = 1..(k - 1)
    OBVIOUS
  <2>2. Cardinality(1..(k - 1)) = IF 1 > k - 1 THEN 0 ELSE (k - 1) - 1 + 1
    <3>1. k - 1 \in Int
      OBVIOUS
    <3> QED BY <3>1, FS_Interval
  <2> QED BY SMTT(30), <2>1, <2>2
<1>3. ASSUME NEW j \in 1..n
      PROVE  (CHOOSE k \in 1..n : Cardinality({l \in 1..n : l < k}) = j - 1) = j
  <2>1. \A k \in 1..n : Cardinality({l \in 1..n : l < k}) = j - 1 <=> k = j
    BY <1>2
  <2> QED BY <2>1
<1> QED BY <1>1, <1>3 DEF Ascending

\* A sequence that has each element of a set once is as long as the set is large.
LEMMA EachOnce ==
  ASSUME NEW K, NEW o \in Seq(K),
         \A x \in K : \E m \in 1..Len(o) : o[m] = x,
         \A i, j \in 1..Len(o) : o[i] = o[j] => i = j
  PROVE  Cardinality(K) = Len(o)
<1>1. o \in [1..Len(o) -> K] /\ Len(o) \in Nat
  OBVIOUS
<1>2. o \in Bijection(1..Len(o), K)
  BY <1>1 DEF Bijection, Injection, Surjection, IsInjective
<1> QED BY <1>1, <1>2, FS_CountingElements DEF ExistsBijection

\* When no frame is due, every call is gathered under its key.
LEMMA AllCame ==
  ASSUME StreamInv, phase = "stream", \A i \in DOMAIN due : due[i] = <<>>
  PROVE  /\ DOMAIN chunks = {ItemKey(i) : i \in 1..Len(sent)}
         /\ \A i \in 1..Len(sent) : chunks[ItemKey(i)] = CallOf(i)
         /\ Sends /\ KeysOrdered /\ Len(sent) \in Nat
<1>1. Streaming
  BY DEF StreamInv, Phases
<1>2. Len(sent) \in Nat
  BY <1>1 DEF Streaming, Sends
<1>3. ASSUME NEW i \in 1..Len(sent) PROVE ItemKey(i) \in DOMAIN chunks /\ chunks[ItemKey(i)] = CallOf(i)
  <2>1. due[i] = <<>> /\ CallGathered(i)
    BY <1>1 DEF Streaming
  <2>2. sent[i].form \in AllForms
    BY <1>1 DEF Streaming, Sends, Forms, AllForms
  <2>3. sent[i].form # <<>>
    BY <2>2 DEF AllForms
  <2>4. SoFar(i, <<>>) = CallOf(i)
    BY DEF SoFar, CallOf
  <2> QED BY <2>1, <2>3, <2>4 DEF CallGathered, Came
<1>4. DOMAIN chunks \subseteq {ItemKey(i) : i \in 1..Len(sent)}
  BY <1>1 DEF Streaming, KeysOrdered
<1> QED BY <1>1, <1>2, <1>3, <1>4 DEF Streaming

\* What is gathered is each call once, in order of the indexes unless they are ids.
LEMMA GatheredWhole ==
  ASSUME StreamInv, phase = "stream", \A i \in DOMAIN due : due[i] = <<>>
  PROVE  /\ Sends /\ Len(sent) \in Nat
         /\ DOMAIN Gathered = 1..Len(sent) /\ Gathered = [j \in 1..Len(sent) |-> Gathered[j]]
         /\ \A j \in 1..Len(sent) : \E i \in 1..Len(sent) :
              Gathered[j] = CallOf(i) /\ (protocol # "responses" => i = j)
         /\ \A j, k \in 1..Len(sent) : Gathered[j].args = Gathered[k].args => j = k
<1> DEFINE n == Len(sent)
           keys == IF protocol = "responses" THEN order ELSE Ascending(DOMAIN chunks)
<1>1. /\ DOMAIN chunks = {ItemKey(i) : i \in 1..n}
      /\ \A i \in 1..n : chunks[ItemKey(i)] = CallOf(i)
      /\ Sends /\ KeysOrdered /\ n \in Nat
  BY AllCame
<1>2. /\ DOMAIN keys = 1..n
      /\ \A j \in 1..n : \E i \in 1..n : keys[j] = ItemKey(i) /\ (protocol # "responses" => i = j)
      /\ \A j, k \in 1..n : keys[j] = keys[k] => j = k
  <2>1. CASE protocol = "responses"
    <3> DEFINE g == [i \in 1..n |-> ItemKey(i)]
               K == DOMAIN chunks
    <3>1. g \in Seq(K) /\ Len(g) = n
      BY <1>1
    <3>2. /\ \A x \in K : \E i \in 1..Len(g) : g[i] = x
          /\ \A i, j \in 1..Len(g) : g[i] = g[j] => i = j
      BY <1>1, <3>1, KeysDiffer
    <3>4. /\ order \in Seq(K)
          /\ \A x \in K : \E m \in 1..Len(order) : order[m] = x
          /\ \A i, j \in 1..Len(order) : order[i] = order[j] => i = j
      BY <1>1, Zenon DEF KeysOrdered
    <3> HIDE DEF g, K
    <3>5. Cardinality(K) = Len(g)
      BY <3>1, <3>2, EachOnce
    <3>6. Cardinality(K) = Len(order)
      BY <3>4, EachOnce
    <3>3. Len(order) = n
      BY <3>1, <3>5, <3>6
    <3> QED BY <1>1, <2>1, <3>3 DEF KeysOrdered
  <2>2. CASE protocol # "responses"
    <3>1. DOMAIN chunks = 1..n
      BY <1>1, <2>2 DEF ItemKey
    <3>2. keys = [j \in 1..n |-> j]
      BY <1>1, <2>2, <3>1, AscendingIs
    <3> QED BY <2>2, <3>2 DEF ItemKey
  <2> QED BY <2>1, <2>2
<1>3. Gathered = [j \in DOMAIN keys |-> chunks[keys[j]]]
  BY DEF Gathered
<1> HIDE DEF keys
<1>4. Gathered = [j \in 1..n |-> chunks[keys[j]]]
  BY <1>2, <1>3
<1>5. ASSUME NEW j \in 1..n
      PROVE  \E i \in 1..n : keys[j] = ItemKey(i) /\ Gathered[j] = CallOf(i) /\ (protocol # "responses" => i = j)
  <2>1. PICK i \in 1..n : keys[j] = ItemKey(i) /\ (protocol # "responses" => i = j)
    BY <1>2
  <2>2. Gathered[j] = chunks[ItemKey(i)]
    BY <1>4, <2>1
  <2> QED BY <1>1, <2>1, <2>2
<1>6. ASSUME NEW j \in 1..n, NEW k \in 1..n, Gathered[j].args = Gathered[k].args PROVE j = k
  <2>1. PICK a \in 1..n : keys[j] = ItemKey(a) /\ Gathered[j] = CallOf(a)
    BY <1>5
  <2>2. PICK b \in 1..n : keys[k] = ItemKey(b) /\ Gathered[k] = CallOf(b)
    BY <1>5
  <2>3. Whole(a) = Whole(b)
    BY <1>6, <2>1, <2>2 DEF CallOf
  <2>4. Whole(a)[1][1] = a /\ Whole(b)[1][1] = b
    BY DEF Whole
  <2>5. a = b
    BY <2>3, <2>4
  <2>6. keys[j] = keys[k]
    BY <2>1, <2>2, <2>5
  <2> QED BY <1>2, <2>6
<1> QED BY <1>1, <1>4, <1>5, <1>6

\* A frame is gathered under the key of its call, and disturbs no other.
LEMMA FrameStreams ==
  ASSUME StreamInv, phase = "stream", NEW i \in DOMAIN due, Frame(i)
  PROVE  Streaming'
<1> DEFINE part == Head(due[i])
           key == ItemKey(i)
           chunk == IF key \in DOMAIN chunks THEN chunks[key]
                    ELSE [id |-> NoId, skill |-> "", args |-> <<>>]
           n == Len(sent)
<1>1. /\ Streaming /\ i \in 1..n /\ DOMAIN due = 1..n
      /\ protocol \in Protocols /\ numbering \in {"fresh", "repeated", "missing"}
  BY DEF StreamInv, ConvTypes, Phases, Streaming
<1>2. n \in Nat
  BY <1>1 DEF Streaming, Sends
<1>3. /\ due[i] # <<>>
      /\ due' = [due EXCEPT ![i] = Tail(@)]
      /\ chunks' = [k \in DOMAIN chunks \cup {key} |->
                      IF k = key THEN Folded(chunk, i, part) ELSE chunks[k]]
      /\ order' = IF Contains(order, key) THEN order ELSE Append(order, key)
      /\ UNCHANGED <<protocol, numbering, turns, sent>>
  BY DEF Frame, Key, model
<1>4. \A j \in 1..n : ItemKey(j)' = ItemKey(j) /\ \A d : SoFar(j, d)' = SoFar(j, d)
  <2> SUFFICES ASSUME NEW j \in 1..n
               PROVE  ItemKey(j)' = ItemKey(j) /\ \A d : SoFar(j, d)' = SoFar(j, d)
    OBVIOUS
  <2>1. ItemKey(j)' = ItemKey(j)
    BY <1>3 DEF ItemKey
  <2>2. IdOf(j)' = IdOf(j)
    BY <1>3, <2>1 DEF IdOf, GivenId
  <2>3. ASSUME NEW d PROVE SoFar(j, d)' = SoFar(j, d)
    BY <1>3, <2>2 DEF SoFar
  <2> QED BY <2>1, <2>3
<1>5. /\ sent[i].form \in Forms /\ sent[i].form \in AllForms /\ due[i] \in StillDue(sent[i].form)
      /\ CallGathered(i)
  BY <1>1 DEF Streaming, Sends, CallGathered, Forms, AllForms
<1>6. /\ Tail(due[i]) \in StillDue(sent[i].form) /\ Tail(due[i]) # sent[i].form
  BY <1>3, <1>5, RestIsDue
<1>7. chunk = Have(i, sent[i].form, due[i])
  <2>1. CASE Came(i)
    BY <1>5, <2>1 DEF CallGathered, Came, Have
  <2>2. CASE ~Came(i)
    <3>1. key \notin DOMAIN chunks
      BY <1>1, <1>2, <2>2, KeysDiffer DEF Streaming, KeysOrdered
    <3> QED BY <2>2, <3>1 DEF Came, Have
  <2> QED BY <2>1, <2>2
<1>8. Folded(chunk, i, part) = SoFar(i, Tail(due[i]))
  BY <1>1, <1>3, <1>5, <1>7, FoldedRight
<1> HIDE DEF chunk, part, key
<1>9. DOMAIN chunks' = DOMAIN chunks \cup {key} /\ chunks'[key] = SoFar(i, Tail(due[i]))
  BY <1>3, <1>8
<1>10. \A j \in 1..n : due'[j] = IF j = i THEN Tail(due[i]) ELSE due[j]
  BY <1>1, <1>3
<1>11. \A j \in 1..n : Came(j)' <=> Came(j) \/ j = i
  BY <1>3, <1>6, <1>10 DEF Came
<1>12. \A j \in 1..n : j # i => ItemKey(j) # key
  BY <1>1, <1>2, KeysDiffer DEF key
<1>13. ASSUME NEW j \in 1..n PROVE CallGathered(j)'
  <2>1. CASE j = i
    <3>1. due'[i] = Tail(due[i]) /\ sent' = sent /\ ItemKey(i)' = key
      BY <1>1, <1>3, <1>4, <1>10 DEF key
    <3>2. SoFar(i, due[i])' = SoFar(i, Tail(due[i]))
      BY <1>3, <3>1 DEF SoFar, IdOf, GivenId, Whole, ItemKey
    <3> QED BY <1>6, <1>9, <2>1, <3>1, <3>2 DEF CallGathered
  <2>2. CASE j # i
    <3>1. due'[j] = due[j] /\ sent' = sent /\ ItemKey(j)' = ItemKey(j) /\ (Came(j)' <=> Came(j))
      BY <1>3, <1>4, <1>10, <1>11, <2>2
    <3>2. ItemKey(j) \in DOMAIN chunks => chunks'[ItemKey(j)] = chunks[ItemKey(j)]
      BY <1>3, <1>12, <2>2
    <3>3. SoFar(j, due[j])' = SoFar(j, due[j])
      BY <1>3, <3>1 DEF SoFar, IdOf, GivenId, Whole, ItemKey
    <3>4. CallGathered(j)
      BY <1>1 DEF Streaming
    <3> QED BY <1>9, <3>1, <3>2, <3>3, <3>4 DEF CallGathered
  <2> QED BY <2>1, <2>2
<1>14. KeysOrdered'
  <2>1. KeysOrdered
    BY <1>1 DEF Streaming
  <2>2. \A k \in DOMAIN chunks' : \E j \in 1..Len(sent') : k = ItemKey(j)' /\ Came(j)'
    BY <1>1, <1>3, <1>4, <1>9, <1>11, <2>1 DEF KeysOrdered, key
  <2>3. CASE Contains(order, key)
    <3>1. \E m \in 1..Len(order) : order[m] = key
      BY <2>3 DEF Contains
    <3>2. key \in DOMAIN chunks /\ order' = order
      BY <1>3, <2>1, <2>3, <3>1 DEF KeysOrdered
    <3>3. DOMAIN chunks' = DOMAIN chunks
      BY <1>9, <3>2
    <3> QED BY <2>1, <2>2, <3>2, <3>3 DEF KeysOrdered
  <2>4. CASE ~Contains(order, key)
    <3> DEFINE K == DOMAIN chunks
               L == DOMAIN chunks'
    <3>1. /\ order \in Seq(K) /\ \A x \in K : \E m \in 1..Len(order) : order[m] = x
          /\ \A m, p \in 1..Len(order) : order[m] = order[p] => m = p
      BY <2>1, Zenon DEF KeysOrdered
    <3>2. L = K \cup {key} /\ order' = Append(order, key) /\ \A m \in 1..Len(order) : order[m] # key
      BY <1>3, <1>9, <2>4 DEF Contains
    <3> HIDE DEF K, L
    <3>3. /\ order' \in Seq(L) /\ Len(order') = Len(order) + 1 /\ order'[Len(order) + 1] = key
          /\ Len(order) \in Nat /\ \A m \in 1..Len(order) : order'[m] = order[m]
      BY <3>1, <3>2
    <3>4. \A x \in L : \E m \in 1..Len(order') : order'[m] = x
      BY <3>1, <3>2, <3>3
    <3>5. \A m, p \in 1..Len(order') : order'[m] = order'[p] => m = p
      BY <3>1, <3>2, <3>3
    <3> QED BY <2>2, <3>3, <3>4, <3>5 DEF KeysOrdered, L
  <2> QED BY <2>3, <2>4
<1> QED BY <1>1, <1>3, <1>13, <1>14 DEF Streaming, Sends, Forms

-----------------------------------------------------------------------------
(***************************************************************************)
(* The turn around it.                                                     *)
(***************************************************************************)
\* The steps of the loop while it acts.
Doing ==
  PassOver \/ Say \/ RunBatch \/ RunOne \/ Stop \/ BadDelegate \/ Delegate \/ ChildTurn \/ ChildEnds

\* A reply is acted upon from its start.
LEMMA ActsTyped ==
  ASSUME NEW p \in Seq(Items), Acts(p)
  PROVE  /\ reply' \in Seq(Items) /\ Len(reply') = Len(p) /\ Len(p) \in Nat
         /\ \A i \in 1..Len(p) : reply'[i] \in Actions \/ p[i] \in Actions => reply'[i] = p[i]
         /\ at' = 1 /\ phase' = "act" /\ goesOn' = TRUE /\ UNCHANGED <<child, ended>>
         /\ ran' = [i \in 1..Len(reply') |-> 0]
<1>1. /\ reply' = (IF p = <<"ask">> /\ ~MidTask THEN <<"final">> ELSE p) /\ at' = 1 /\ phase' = "act"
      /\ ran' = [i \in DOMAIN p |-> 0] /\ goesOn' = TRUE /\ UNCHANGED <<child, ended>>
  BY DEF Acts, Surfaced
<1>2. DOMAIN p = 1..Len(p) /\ Len(p) \in Nat
  OBVIOUS
<1>3. CASE p = <<"ask">> /\ ~MidTask
  <2>1. reply' = <<"final">> /\ Len(<<"final">>) = 1 /\ Len(p) = 1
    BY <1>1, <1>3
  <2>2. /\ <<"final">> \in Seq(Items) /\ "final" \notin Actions /\ <<"final">>[1] = "final"
        /\ "ask" \notin Actions /\ <<"ask">>[1] = "ask"
    BY DEF Items, Actions, Plain, Delegations, Refused, Payments
  <2>3. \A i \in 1..1 : reply'[i] \notin Actions /\ p[i] \notin Actions
    BY <1>3, <2>1, <2>2
  <2> QED BY <1>1, <1>2, <2>1, <2>2, <2>3
<1>4. CASE ~(p = <<"ask">> /\ ~MidTask)
  BY <1>1, <1>2, <1>4
<1> QED BY <1>3, <1>4

\* One run more of an action.
LEMMA OneMore ==
  ASSUME NEW S, NEW r \in [S -> Nat], NEW a
  PROVE  /\ [r EXCEPT ![a] = @ + 1] \in [S -> Nat]
         /\ \A i \in S : [r EXCEPT ![a] = @ + 1][i] = IF i = a THEN r[i] + 1 ELSE r[i]
<1>1. \A i \in S : r[i] + 1 \in Nat
  OBVIOUS
<1>2. [r EXCEPT ![a] = @ + 1] = [i \in S |-> IF i = a THEN r[i] + 1 ELSE r[i]]
  OBVIOUS
<1> QED BY <1>1, <1>2

\* While the loop acts, the reply, its calls and all that they rest on stay.
LEMMA DoingKeeps ==
  ASSUME StreamInv, Doing
  PROVE  /\ phase \in {"act", "child"} /\ phase' \in {"act", "child"}
         /\ UNCHANGED <<model, known, turns, stream, reply>>
         /\ at' \in Nat \ {0} /\ ran' \in [1..Len(reply) -> Nat]
<1>1. reply \in Seq(Items) /\ at \in Nat \ {0} /\ ran \in [1..Len(reply) -> Nat]
      /\ Len(reply) \in Nat
  BY DEF StreamInv, ConvTypes
<1>2. CASE PassOver
  BY <1>1, <1>2 DEF PassOver, Here, MovesOn
<1>3. CASE Say
  BY <1>1, <1>3 DEF Say, Alive, Here, MovesOn
<1>4. CASE RunBatch
  <2>1. phase = "act" /\ phase' = phase /\ UNCHANGED <<model, known, turns, stream, reply>>
    BY <1>4 DEF RunBatch, Here, MovesOn, BreaksOff
  <2>2. at' \in Nat \ {0}
    BY <1>1, <1>4 DEF RunBatch, MovesOn, BreaksOff
  <2>3. ran' \in [1..Len(reply) -> Nat]
    BY <1>1, <1>4 DEF RunBatch
  <2> QED BY <2>1, <2>2, <2>3
<1>5. CASE RunOne
  <2>1. phase = "act" /\ phase' = phase /\ UNCHANGED <<model, known, turns, stream, reply>>
    BY <1>5 DEF RunOne, Alive, Here, MovesOn, BreaksOff
  <2>2. at' \in Nat \ {0}
    BY <1>1, <1>5 DEF RunOne, MovesOn, BreaksOff
  <2>3. ran' \in [1..Len(reply) -> Nat]
    <3>1. ran' = [ran EXCEPT ![at] = @ + 1]
      BY <1>5 DEF RunOne
    <3> QED BY <1>1, <3>1, OneMore
  <2> QED BY <2>1, <2>2, <2>3
<1>6. CASE Stop
  BY <1>1, <1>6 DEF Stop, Alive, Here, BreaksOff
<1>7. CASE BadDelegate
  BY <1>1, <1>7 DEF BadDelegate, Alive, Here, MovesOn
<1>8. CASE Delegate
  BY <1>1, <1>8 DEF Delegate, Alive, Here
<1>9. CASE ChildTurn
  BY <1>1, <1>9 DEF ChildTurn
<1>10. CASE ChildEnds
  <2>1. /\ phase = "child" /\ phase' = "act" /\ UNCHANGED <<model, known, turns, stream, reply>>
        /\ at' = at + 1 /\ ran' = [ran EXCEPT ![at] = @ + 1]
    BY <1>10 DEF ChildEnds
  <2>2. ran' \in [1..Len(reply) -> Nat]
    BY <1>1, <2>1, OneMore
  <2> QED BY <1>1, <2>1, <2>2
<1> QED BY <1>2, <1>3, <1>4, <1>5, <1>6, <1>7, <1>8, <1>9, <1>10 DEF Doing

\* A loop that begins has its types, and nothing at hand.
LEMMA StreamInit == Init => StreamInv
<1> SUFFICES ASSUME Init PROVE StreamInv
  OBVIOUS
<1>1. ConvTypes
  BY DEF Init, ConvTypes, Capabilities
<1>2. Phases
  BY DEF Init, Phases
<1> QED BY <1>1, <1>2 DEF StreamInv

\* A reply of a model without calls, or in words, is at hand without a call.
LEMMA WordsAnswer ==
  ASSUME StreamInv, NEW p \in Seq(Items), Acts(p), phase = "wait",
         UNCHANGED <<protocol, numbering, mode, turns, stream>>, capability' \in Capabilities,
         native => \A i \in 1..Len(p) : p[i] \notin Actions
  PROVE  StreamInv'
<1>1. ConvTypes'
  <2>1. /\ reply' \in Seq(Items) /\ at' = 1 /\ phase' = "act"
        /\ ran' = [i \in 1..Len(reply') |-> 0]
    BY ActsTyped
  <2>2. at' \in Nat \ {0} /\ ran' \in [1..Len(reply') -> Nat]
    BY <2>1
  <2> QED BY <2>1, <2>2 DEF StreamInv, ConvTypes
<1>2. calls' = <<>> /\ UNCHANGED <<sent, due, chunks, order>> /\ (native' <=> native)
  BY DEF StreamInv, Phases, stream, frames, native
<1>3. Phases'
  BY <1>2, ActsTyped DEF StreamInv, Phases, Answers
<1> QED BY <1>1, <1>3 DEF StreamInv

\* A stream opens with all frames due.
LEMMA OpenStreams ==
  ASSUME StreamInv, Open
  PROVE  StreamInv'
<1>1. PICK p \in {q \in Replies : Callable(q)}, form \in Forms :
         /\ sent' = [i \in DOMAIN p |-> [skill |-> p[i], form |-> form]]
         /\ due' = [i \in DOMAIN p |-> form]
  BY DEF Open
<1>2. /\ phase = "wait" /\ phase' = "stream"
      /\ UNCHANGED <<model, known, turns, chunks, order, calls, turn>>
  BY DEF Open
<1>3. /\ DOMAIN p = 1..Len(p) /\ Len(p) \in Nat
      /\ \A i \in 1..Len(p) : p[i] \in Actions \cup {"ask"}
  <2>1. p \in Seq(Items)
    BY ConversationAssumption
  <2>2. \A i \in DOMAIN p : p[i] \in Actions \cup {"ask"}
    BY DEF Callable, Range
  <2> QED BY <2>1, <2>2
<1>4. form \in AllForms /\ Forms' = Forms
  BY <1>2 DEF Forms, AllForms, model
<1>5. /\ Len(sent') = Len(p) /\ sent' \in Seq([skill : Actions \cup {"ask"}, form : AllForms])
      /\ \A i \in 1..Len(p) : sent'[i].form = form /\ due'[i] = form
      /\ DOMAIN due' = 1..Len(p)
  BY <1>1, <1>3, <1>4
<1>6. chunks' = <<>> /\ order' = <<>> /\ calls' = <<>> /\ reply' = <<>>
  BY <1>2 DEF StreamInv, Phases, turn
<1>7. \A i \in 1..Len(p) : CallGathered(i)' /\ ~Came(i)'
  BY <1>4, <1>5 DEF CallGathered, Came, StillDue, AllForms
<1>8. KeysOrdered'
  BY <1>6 DEF KeysOrdered
<1>9. Streaming'
  BY <1>4, <1>5, <1>7, <1>8 DEF Streaming, Sends
<1>10. ConvTypes'
  BY <1>2 DEF StreamInv, ConvTypes, model, known, turn
<1>11. Phases'
  BY <1>2, <1>6, <1>9 DEF Phases
<1> QED BY <1>10, <1>11 DEF StreamInv

\* A stream that ends makes a reply.
LEMMA EndStreamActs ==
  ASSUME StreamInv, EndStream
  PROVE  \E p \in Seq(Items) : /\ Acts(p) /\ p = [j \in DOMAIN Gathered |-> Gathered[j].skill]
                               /\ Len(p) = Len(sent)
<1> DEFINE p == [j \in DOMAIN Gathered |-> Gathered[j].skill]
<1>1. /\ phase = "stream" /\ \A i \in DOMAIN due : due[i] = <<>>
      /\ Acts(p)
  BY DEF EndStream
<1>2. /\ Sends /\ Len(sent) \in Nat
      /\ DOMAIN Gathered = 1..Len(sent)
      /\ \A j \in 1..Len(sent) : \E i \in 1..Len(sent) : Gathered[j] = CallOf(i)
  BY <1>1, GatheredWhole
<1>5. p \in Seq(Items) /\ Len(p) = Len(sent)
  <2>1. \A j \in 1..Len(sent) : Gathered[j].skill \in Items
    <3> SUFFICES ASSUME NEW j \in 1..Len(sent) PROVE Gathered[j].skill \in Items
      OBVIOUS
    <3>1. PICK i \in 1..Len(sent) : Gathered[j] = CallOf(i)
      BY <1>2
    <3>2. sent[i].skill \in Actions \cup {"ask"}
      <4> DEFINE R == [skill : Actions \cup {"ask"}, form : AllForms]
      <4>1. sent \in Seq(R)
        BY <1>2 DEF Sends
      <4>2. sent[i] \in R
        <5> HIDE DEF R
        <5> QED BY <4>1
      <4> QED BY <4>2
    <3> QED BY <3>1, <3>2 DEF CallOf, Items
  <2> QED BY <1>2, <2>1
<1> QED BY <1>1, <1>5

\* At its end, the reply is what was sent.
LEMMA EndStreams ==
  ASSUME StreamInv, EndStream
  PROVE  StreamInv'
<1> DEFINE p == [j \in DOMAIN Gathered |-> Gathered[j].skill]
<1>1. /\ phase = "stream" /\ \A i \in DOMAIN due : due[i] = <<>>
      /\ calls' = Gathered /\ Acts(p) /\ Gone
      /\ capability' \in {capability, "native"}
      /\ UNCHANGED <<model, mode, turns, sent>>
  BY DEF EndStream, Saved
<1>2. /\ Sends /\ Len(sent) \in Nat
      /\ DOMAIN Gathered = 1..Len(sent) /\ Gathered = [j \in 1..Len(sent) |-> Gathered[j]]
      /\ \A j \in 1..Len(sent) : \E i \in 1..Len(sent) :
           Gathered[j] = CallOf(i) /\ (protocol # "responses" => i = j)
      /\ \A j, k \in 1..Len(sent) : Gathered[j].args = Gathered[k].args => j = k
  BY <1>1, GatheredWhole
<1>3. \A i \in 1..Len(sent) : CallOf(i)' = CallOf(i)
  BY <1>1 DEF CallOf, IdOf, GivenId, ItemKey, Whole, model
<1>4. Arrived'
  <2>1. Sends'
    BY <1>1, <1>2 DEF Sends, Forms, model
  <2>2. protocol' = protocol /\ sent' = sent
    BY <1>1 DEF model
  <2> QED BY <1>1, <1>2, <1>3, <2>1, <2>2 DEF Arrived
<1>5. p \in Seq(Items) /\ Len(p) = Len(sent)
  BY EndStreamActs
<1>6. \A i \in 1..Len(sent) : p[i] = calls'[i].skill
  BY <1>1, <1>2
<1> HIDE DEF p
<1>7. Answers'
  BY <1>1, <1>4, <1>5, <1>6, ActsTyped DEF Answers
<1>8. ConvTypes'
  <2>1. /\ reply' \in Seq(Items) /\ at' = 1 /\ phase' = "act"
        /\ ran' = [i \in 1..Len(reply') |-> 0]
    BY <1>1, <1>5, ActsTyped
  <2>2. at' \in Nat \ {0} /\ ran' \in [1..Len(reply') -> Nat]
    BY <2>1
  <2>3. capability' \in Capabilities
    BY <1>1 DEF StreamInv, ConvTypes, Capabilities
  <2> QED BY <1>1, <2>1, <2>2, <2>3 DEF StreamInv, ConvTypes, model
<1>9. Phases'
  BY <1>1, <1>5, <1>7, ActsTyped DEF Phases, Gone
<1> QED BY <1>8, <1>9 DEF StreamInv

\* What calls and stream are does not change when their variables do not.
LEMMA SameStream ==
  ASSUME UNCHANGED <<protocol, numbering, mode, turns, sent, due, chunks, order, calls, reply>>
  PROVE  /\ Streaming => Streaming'
         /\ Answers => Answers'
<1>1. /\ Forms' = Forms /\ (native' <=> native) /\ \A i : CallOf(i)' = CallOf(i)
      /\ \A i : ItemKey(i)' = ItemKey(i) /\ (Came(i)' <=> Came(i))
      /\ \A i, d : SoFar(i, d)' = SoFar(i, d)
  BY DEF Forms, native, CallOf, ItemKey, Came, SoFar, IdOf, GivenId, Whole
<1>2. \A i : SoFar(i, due[i])' = SoFar(i, due[i])
  BY DEF SoFar, IdOf, GivenId, Whole, ItemKey
<1>3. Sends => Sends'
  BY <1>1 DEF Sends
<1>4. \A i : CallGathered(i) => CallGathered(i)'
  BY <1>1, <1>2 DEF CallGathered
<1>5. KeysOrdered => KeysOrdered'
  BY <1>1 DEF KeysOrdered
<1>6. Arrived => Arrived'
  BY <1>1, <1>3 DEF Arrived
<1>7. Answers => Answers'
  BY <1>1, <1>6 DEF Answers
<1> QED BY <1>3, <1>4, <1>5, <1>7 DEF Streaming

\* The invariant of the stream is kept by every step.
LEMMA StreamStep == StreamInv /\ [Next]_vars => StreamInv'
<1> SUFFICES ASSUME StreamInv, [Next]_vars PROVE StreamInv'
  OBVIOUS
<1> USE DEF StreamInv
<1>1. CASE Request
  BY <1>1 DEF Request, ConvTypes, Phases, model, stream, frames, turn, Capabilities
<1>2. CASE CallFails \/ NoReply
  BY <1>2 DEF CallFails, NoReply, Ends, ConvTypes, Phases, model, known, stream, frames, turn
<1>3. CASE Rejected
  BY <1>3 DEF Rejected, Saved, ConvTypes, Phases, model, stream, frames, turn, Capabilities
<1>4. CASE PlainText
  <2>1. CASE mode = "unverified"
    BY <1>4, <2>1 DEF PlainText, ConvTypes, Phases, model, stream, frames, turn
  <2>2. CASE mode # "unverified"
    <3>1. PICK p \in {<<"ask">>, <<"final">>} : Acts(p)
      BY <1>4, <2>2 DEF PlainText
    <3>2. p \in Seq(Items) /\ \A i \in 1..Len(p) : p[i] \notin Actions
      <4>1. {"ask", "final"} \subseteq Items /\ "ask" \notin Actions /\ "final" \notin Actions
        BY DEF Items, Actions, Plain, Delegations, Refused, Payments
      <4>2. \A x \in {"ask", "final"} : <<x>> \in Seq(Items) /\ Len(<<x>>) = 1 /\ <<x>>[1] = x
        BY <4>1
      <4>3. PICK x \in {"ask", "final"} : p = <<x>>
        OBVIOUS
      <4> QED BY <4>1, <4>2, <4>3
    <3> QED BY <1>4, <3>1, <3>2, WordsAnswer DEF PlainText, model, ConvTypes
  <2> QED BY <2>1, <2>2
<1>5. CASE Objects
  <2>1. PICK p \in Replies : Acts(p)
    BY <1>5 DEF Objects
  <2>2. p \in Seq(Items)
    BY ConversationAssumption
  <2> QED BY <1>5, <2>1, <2>2, WordsAnswer DEF Objects, model, known, ConvTypes
<1>6. CASE Open
  BY <1>6, OpenStreams
<1>7. ASSUME NEW i \in DOMAIN due, phase = "stream", Frame(i) PROVE StreamInv'
  <2>1. Streaming'
    BY <1>7, FrameStreams
  <2>2. UNCHANGED <<model, known, phase, turns, calls, turn>>
    BY <1>7 DEF Frame
  <2>3. ConvTypes'
    BY <2>2 DEF ConvTypes, model, known, turn
  <2>4. Phases'
    BY <1>7, <2>1, <2>2 DEF Phases, turn
  <2> QED BY <2>3, <2>4
<1>8. CASE StreamBreaks
  BY <1>8 DEF StreamBreaks, Gone, Ends, ConvTypes, Phases, model, known, turn
<1>9. CASE EndStream
  BY <1>9, EndStreams
<1>10. CASE Doing
  <2>1. /\ phase \in {"act", "child"} /\ phase' \in {"act", "child"}
        /\ UNCHANGED <<protocol, numbering, capability, mode, turns, sent, due, chunks, order, calls, reply>>
        /\ at' \in Nat \ {0} /\ ran' \in [1..Len(reply) -> Nat]
    BY <1>10, DoingKeeps DEF model, known, stream, frames
  <2>2. ConvTypes'
    BY <2>1 DEF ConvTypes
  <2>3. Answers'
    <3>1. Answers
      BY <2>1 DEF Phases
    <3> QED BY <2>1, <3>1, SameStream
  <2>4. Phases'
    BY <2>1, <2>3 DEF Phases
  <2> QED BY <2>2, <2>4
<1>11. CASE EndTurn
  <2>1. /\ phase = "act" /\ phase' \in {"done", "call"} /\ turns' = turns + 1
        /\ sent' = <<>> /\ calls' = <<>> /\ reply' = <<>> /\ ran' = <<>> /\ at' = 1
        /\ UNCHANGED <<model, known, due, chunks, order>>
    BY <1>11 DEF EndTurn, Ends
  <2>2. ConvTypes'
    BY <2>1 DEF ConvTypes, model, known
  <2>3. Phases'
    BY <2>1 DEF Phases
  <2> QED BY <2>2, <2>3
<1>12. CASE UNCHANGED vars
  <2>1. UNCHANGED <<protocol, numbering, capability, mode, phase, turns, sent, due, chunks, order,
                    calls, reply, at, ran>>
    BY <1>12 DEF vars, model, known, stream, frames, turn
  <2>2. ConvTypes'
    BY <2>1 DEF ConvTypes
  <2>3. (Streaming => Streaming') /\ (Answers => Answers')
    BY <2>1, SameStream
  <2> QED BY <2>1, <2>2, <2>3 DEF Phases
<1>13. CASE Hang
  BY <1>13 DEF Hang, ConvTypes, Phases, model, known, turn
<1> QED BY <1>1, <1>2, <1>3, <1>4, <1>5, <1>6, <1>7, <1>8, <1>9, <1>10, <1>11, <1>12, <1>13 DEF Next, Step, Doing

\* What holds of the calls in the invariant is what was promised of them.
LEMMA StreamImplies == StreamInv => StreamFaithful
<1> SUFFICES ASSUME StreamInv, phase = "act", calls # <<>>
             PROVE  /\ Len(calls) = Len(sent)
                    /\ \A j \in DOMAIN calls :
                         \E i \in DOMAIN sent :
                           /\ calls[j].skill = sent[i].skill /\ calls[j].args = Whole(i)
                           /\ calls[j].id = IF sent[i].form[1] = "head" THEN ItemKey(i) ELSE GivenId(i)
                           /\ protocol # "responses" => i = j
                    /\ \A j, k \in DOMAIN calls : calls[j].args = calls[k].args => j = k
  BY DEF StreamFaithful
<1>1. Arrived
  BY DEF StreamInv, Phases, Answers
<1>2. DOMAIN sent = 1..Len(sent) /\ Len(sent) \in Nat
  BY <1>1 DEF Arrived, Sends
<1>3. DOMAIN calls = 1..Len(sent)
  BY <1>1 DEF Arrived
<1>4. Len(calls) = Len(sent)
  BY <1>2, <1>3
<1>5. ASSUME NEW j \in DOMAIN calls
      PROVE  \E i \in DOMAIN sent :
               /\ calls[j].skill = sent[i].skill /\ calls[j].args = Whole(i)
               /\ calls[j].id = IF sent[i].form[1] = "head" THEN ItemKey(i) ELSE GivenId(i)
               /\ protocol # "responses" => i = j
  <2>1. PICK i \in 1..Len(sent) : calls[j] = CallOf(i) /\ (protocol # "responses" => i = j)
    BY <1>1, <1>3 DEF Arrived
  <2>2. /\ calls[j].skill = sent[i].skill /\ calls[j].args = Whole(i) /\ calls[j].id = IdOf(i)
    BY <2>1 DEF CallOf
  <2> QED BY <1>2, <2>1, <2>2 DEF IdOf
<1> QED BY <1>1, <1>3, <1>4, <1>5 DEF Arrived

(***************************************************************************)
(* However frames mingle, and whichever are left out, the calls that the   *)
(* loop acts on are those the provider streamed: each once, with its name, *)
(* id and all its arguments, in order (call_llm_streaming, its three       *)
(* states, finalize_tool_calls).                                           *)
(***************************************************************************)
THEOREM RepliesArrive == Spec => []StreamFaithful
<1>1. Init => StreamInv
  BY StreamInit
<1>2. StreamInv /\ [Next]_vars => StreamInv'
  BY StreamStep
<1>3. StreamInv => StreamFaithful
  BY StreamImplies
<1> QED BY <1>1, <1>2, <1>3, PTL DEF Spec

-----------------------------------------------------------------------------
(***************************************************************************)
(* How often an action runs.                                               *)
(***************************************************************************)
\* What the loop came by, it has come by later on.
LEMMA ComesByMore ==
  ASSUME StreamInv, RunsCounted, Len(reply') = Len(reply), reply' = reply,
         at' \in Nat, at' >= at,
         ran' \in [1..Len(reply) -> Nat],
         \A i \in 1..Len(reply) :
           \/ ran'[i] = ran[i]
           \/ /\ ran'[i] = ran[i] + 1
              /\ \/ ~Passed(i) /\ Passed(i)'
                 \/ ~Batched(i) /\ Batched(i)'
  PROVE  RunsCounted'
<1>1. at \in Nat /\ ran \in [1..Len(reply) -> Nat]
  BY DEF StreamInv, ConvTypes
<1>2. \A i \in 1..Len(reply) : (Passed(i) => Passed(i)') /\ (Batched(i) => Batched(i)')
  BY <1>1 DEF Passed, Batched
<1>3. ASSUME NEW i \in 1..Len(reply)
      PROVE  /\ ran'[i] > 0 => Passed(i)' \/ Batched(i)'
             /\ ran'[i] > 1 => ran'[i] = 2 /\ Passed(i)' /\ Batched(i)'
  <2>1. /\ ran[i] \in Nat /\ ran'[i] \in Nat
        /\ ran[i] > 0 => Passed(i) \/ Batched(i)
        /\ ran[i] > 1 => ran[i] = 2 /\ Passed(i) /\ Batched(i)
    BY <1>1 DEF RunsCounted
  <2>2. (Passed(i) => Passed(i)') /\ (Batched(i) => Batched(i)')
    BY <1>2
  <2>3. CASE ran'[i] = ran[i]
    BY <2>1, <2>2, <2>3
  <2>4. CASE ran'[i] = ran[i] + 1
    <3>1. (~Passed(i) /\ Passed(i)') \/ (~Batched(i) /\ Batched(i)')
      <4>1. ran'[i] # ran[i]
        BY <2>1, <2>4
      <4> QED BY <4>1
    <3> HIDE DEF Passed, Batched
    <3>2. ran[i] = 0 \/ ran[i] = 1
      BY <2>1, <3>1
    <3>3. ran[i] = 1 => Passed(i)' /\ Batched(i)'
      BY <2>1, <2>2, <3>1, <3>2
    <3> QED BY <2>1, <2>4, <3>1, <3>2, <3>3
  <2> QED BY <2>3, <2>4
<1> QED BY <1>3 DEF RunsCounted

LEMMA RunStep == StreamInv /\ RunInv /\ [Next]_vars => RunInv'
<1> SUFFICES ASSUME StreamInv, RunInv, [Next]_vars PROVE RunInv'
  OBVIOUS
<1>T. /\ ConvTypes' /\ Delegating /\ RunsCounted
      /\ reply \in Seq(Items) /\ Len(reply) \in Nat /\ at \in Nat \ {0} /\ ran \in [1..Len(reply) -> Nat]
  <2>1. StreamInv'
    BY StreamStep
  <2> QED BY <2>1 DEF StreamInv, RunInv, ConvTypes
<1>1. ASSUME reply' = <<>> \/ \E p \in Seq(Items) : Acts(p), phase' # "child" PROVE RunInv'
  <2>1. \A i \in 1..Len(reply') : ran'[i] = 0
    <3>1. CASE reply' = <<>>
      BY <3>1
    <3>2. CASE \E p \in Seq(Items) : Acts(p)
      <4>1. ran' = [i \in 1..Len(reply') |-> 0]
        BY <3>2, ActsTyped
      <4> QED BY <4>1
    <3> QED BY <1>1, <3>1, <3>2
  <2> QED BY <1>1, <1>T, <2>1 DEF RunInv, Delegating, RunsCounted
<1>2. ASSUME UNCHANGED <<reply, ran>>, at' \in {at, at + 1, Len(reply) + 1}, at \in 1..Len(reply) \/ at' = at,
             phase' = "child" => Delegating'
      PROVE  RunInv'
  <2>1. at' \in Nat /\ at' >= at
    BY <1>T, <1>2
  <2>2. RunsCounted'
    BY <1>T, <1>2, <2>1, ComesByMore
  <2> QED BY <1>T, <1>2, <2>2 DEF RunInv, Delegating
<1>3. CASE Request \/ CallFails \/ Rejected \/ NoReply \/ Open \/ StreamBreaks
          \/ (\E i \in DOMAIN due : phase = "stream" /\ Frame(i)) \/ Hang \/ UNCHANGED vars
  <2>1. UNCHANGED <<reply, ran, at>> /\ (phase' = "child" => phase = "child")
    BY <1>3 DEF Request, CallFails, Rejected, NoReply, Open, StreamBreaks, Frame, Ends, Hang, vars, turn
  <2>2. phase' = "child" => Delegating'
    BY <1>T, <2>1 DEF Delegating
  <2> QED BY <1>2, <2>1, <2>2
<1>4. CASE PlainText
  <2>1. CASE mode = "unverified"
    <3>1. UNCHANGED <<reply, ran, at>> /\ phase' = "call"
      BY <1>4, <2>1 DEF PlainText, turn
    <3> QED BY <1>2, <3>1
  <2>2. CASE mode # "unverified"
    <3>1. PICK p \in {<<"ask">>, <<"final">>} : Acts(p)
      BY <1>4, <2>2 DEF PlainText
    <3>2. p \in Seq(Items)
      <4>1. {"ask", "final"} \subseteq Items
        BY DEF Items
      <4>2. \A x \in {"ask", "final"} : <<x>> \in Seq(Items)
        BY <4>1
      <4> QED BY <4>2
    <3>3. phase' # "child"
      BY <3>1, <3>2, ActsTyped
    <3> QED BY <1>1, <3>1, <3>2, <3>3
  <2> QED BY <2>1, <2>2
<1>5. CASE Objects
  <2>1. PICK p \in Replies : Acts(p)
    BY <1>5 DEF Objects
  <2>2. p \in Seq(Items)
    BY ConversationAssumption
  <2>3. phase' # "child"
    BY <2>1, <2>2, ActsTyped
  <2> QED BY <1>1, <2>1, <2>2, <2>3
<1>6. CASE EndStream
  <2>1. PICK p \in Seq(Items) : Acts(p)
    BY <1>6, EndStreamActs
  <2>2. phase' # "child"
    BY <2>1, ActsTyped
  <2> QED BY <1>1, <2>1, <2>2
<1>7. CASE PassOver \/ Say \/ BadDelegate \/ Stop
  <2>1. /\ UNCHANGED <<reply, ran>> /\ phase' = "act" /\ at \in 1..Len(reply)
        /\ at' \in {at + 1, Len(reply) + 1}
    BY <1>T, <1>7 DEF PassOver, Say, BadDelegate, Stop, Alive, Here, MovesOn, BreaksOff
  <2> QED BY <1>2, <2>1
<1>8. CASE Delegate
  <2>1. /\ UNCHANGED <<reply, ran, at>> /\ at \in 1..Len(reply)
        /\ Reached(reply, at) /\ ~AtBatch(reply, at) /\ reply[at] = "delegate"
    BY <1>T, <1>8 DEF Delegate, Alive, Here, Left
  <2>2. Delegating'
    BY <2>1 DEF Delegating, Reached, AtBatch
  <2> QED BY <1>2, <2>1, <2>2
<1>9. CASE ChildTurn
  <2>1. UNCHANGED <<reply, ran, at>> /\ phase = "child"
    BY <1>9 DEF ChildTurn
  <2>2. Delegating'
    BY <1>T, <2>1 DEF Delegating, Reached, AtBatch
  <2> QED BY <1>2, <2>1, <2>2
<1>10. CASE ChildEnds \/ RunOne
  <2>1. /\ reply' = reply /\ phase' = "act" /\ at \in 1..Len(reply)
        /\ at' \in {at + 1, Len(reply) + 1} /\ ran' = [ran EXCEPT ![at] = @ + 1]
        /\ Reached(reply, at) /\ ~AtBatch(reply, at)
    <3>1. CASE ChildEnds
      BY <1>T, <3>1 DEF ChildEnds, Delegating
    <3>2. CASE RunOne
      BY <1>T, <3>2 DEF RunOne, Alive, Here, MovesOn, BreaksOff
    <3> QED BY <1>10, <3>1, <3>2
  <2>2. at' \in Nat /\ at' > at
    BY <1>T, <2>1
  <2>3. \A i \in 1..Len(reply) : i = at => ~Passed(i) /\ Passed(i)'
    BY <1>T, <2>1, <2>2 DEF Passed
  <2>4. /\ ran' \in [1..Len(reply) -> Nat]
        /\ \A i \in 1..Len(reply) : ran'[i] = IF i = at THEN ran[i] + 1 ELSE ran[i]
    BY <1>T, <2>1, OneMore
  <2>5. RunsCounted'
    BY <1>T, <2>1, <2>2, <2>3, <2>4, ComesByMore
  <2> QED BY <1>T, <2>1, <2>5 DEF RunInv, Delegating
<1>11. CASE RunBatch
  <2>1. /\ reply' = reply /\ phase' = "act" /\ at \in 1..Len(reply) /\ AtBatch(reply, at)
        /\ at' \in {at + 1, Len(reply) + 1}
        /\ ran' = [i \in DOMAIN ran |-> IF i \in Ready(reply) THEN ran[i] + 1 ELSE ran[i]]
    BY <1>T, <1>11 DEF RunBatch, Here, MovesOn, BreaksOff
  <2>2. at' \in Nat /\ at' > at
    BY <1>T, <2>1
  <2>3. \A i \in Ready(reply) : ~Batched(i) /\ Batched(i)'
    <3>1. \A f \in 1..Len(reply) : AtBatch(reply, f) => f = at
      BY <2>1 DEF AtBatch
    <3>2. \A i : ~Batched(i)
      BY <1>T, <3>1 DEF Batched
    <3> QED BY <1>T, <2>1, <2>2, <3>2 DEF Batched, Ready
  <2>4. /\ ran' \in [1..Len(reply) -> Nat]
        /\ \A i \in 1..Len(reply) : ran'[i] = IF i \in Ready(reply) THEN ran[i] + 1 ELSE ran[i]
    BY <1>T, <2>1
  <2>5. RunsCounted'
    BY <1>T, <2>1, <2>2, <2>3, <2>4, ComesByMore
  <2> QED BY <1>T, <2>1, <2>5 DEF RunInv, Delegating
<1>12. CASE EndTurn
  <2>1. reply' = <<>> /\ phase' # "child"
    BY <1>12 DEF EndTurn, Ends
  <2> QED BY <1>1, <2>1
<1> QED BY <1>3, <1>4, <1>5, <1>6, <1>7, <1>8, <1>9, <1>10, <1>11, <1>12 DEF Next, Step

\* What is counted is what was promised.
LEMMA RunImplies == RunInv => ActionsRunOnce
<1> SUFFICES ASSUME RunInv, NEW i \in DOMAIN ran
             PROVE  /\ ran[i] > 1 => ran[i] = 2 /\ i \in Batch(reply) \ {First(Run(reply))}
                    /\ ran[i] > 0 /\ i \in Deferred(reply) => Plan(reply) = "parallel"
  BY DEF ActionsRunOnce
<1>1. i \in 1..Len(reply) /\ RunsCounted
  BY DEF RunInv, ConvTypes
<1>2. /\ ran[i] > 0 => Passed(i) \/ Batched(i)
      /\ ran[i] > 1 => ran[i] = 2 /\ Passed(i) /\ Batched(i)
  BY <1>1 DEF RunsCounted
<1>3. Batched(i) => Plan(reply) = "parallel" /\ i \in Batch(reply)
  BY DEF Batched, AtBatch
<1>4. Passed(i) /\ Batched(i) => i # First(Run(reply))
  BY <1>3 DEF Passed, AtBatch
<1>5. Passed(i) /\ i \in Deferred(reply) => Plan(reply) = "parallel"
  BY DEF Passed, Reached, Deferred
<1> QED BY <1>2, <1>3, <1>4, <1>5

(***************************************************************************)
(* An action runs at most once, but all of a batch but the first, twice;   *)
(* and only in a turn with a batch does the loop run what was put off      *)
(* (run_react_loop, plan_action_batch).                                    *)
(***************************************************************************)
THEOREM RunsAreFew == Spec => []ActionsRunOnce
<1>1. Init => StreamInv /\ RunInv
  <2> SUFFICES ASSUME Init PROVE StreamInv /\ RunInv
    OBVIOUS
  <2>1. StreamInv
    BY StreamInit
  <2> QED BY <2>1 DEF Init, StreamInv, RunInv, Delegating, RunsCounted
<1>2. StreamInv /\ RunInv /\ [Next]_vars => (StreamInv /\ RunInv)'
  BY StreamStep, RunStep
<1>3. RunInv => ActionsRunOnce
  BY RunImplies
<1> QED BY <1>1, <1>2, <1>3, PTL DEF Spec
-----------------------------------------------------------------------------
(***************************************************************************)
(* What the history tells.                                                 *)
(***************************************************************************)
Ids == {NoId} \cup {"call", "item"} \X Nat \X Nat
Marks == {Nothing} \cup Nat \X Nat
Entries == [is : {"call", "result", "note"}, id : Ids, of : Marks]

\* Calls and results come in pairs.
Paired(h) ==
  \A k \in 1..Len(h) :
    /\ h[k].is = "call" => k < Len(h) /\ h[k + 1].is = "result" /\ h[k + 1].id = h[k].id
    /\ h[k].is = "result" => k > 1 /\ h[k - 1].is = "call" /\ h[k - 1].id = h[k].id

\* An entry of this turn.
Current(e) == e.is # "note" /\ e.of[1] = turns

\* A result of this turn is that of its call, but for the exceptions.
Owned(h) ==
  \A k \in 1..Len(h) : h[k].is = "result" /\ Current(h[k]) =>
    \/ h[k].of = h[k - 1].of
    \/ \E i \in 1..Len(reply) : h[k].of = This(i) /\ Displaced(i)
    \/ numbering = "repeated"

\* No two calls have one id.
IdsUnique(h) ==
  \A k, l \in 1..Len(h) : h[k].is = "call" /\ h[l].is = "call" /\ h[k].id = h[l].id /\ h[k].id # NoId => k = l

\* A batch was run before position a.
BatchBy(a) == \E f \in 1..Len(reply) : f < a /\ AtBatch(reply, f)

\* A call of this turn, and one the loop came to before position a, or in place
\* of another of its name that was in the batch.
CameTo(e, a) ==
  \E j \in 1..Len(reply) :
    e.of = This(j) /\ e.id = calls[j].id /\ (j < a \/ (BatchBy(a) /\ Displaced(j)))

\* What a history of entries h tells before the loop goes on to position a.
Tells(h, a) ==
  /\ h \in Seq(Entries) /\ Paired(h) /\ Owned(h)
  /\ \A k \in 1..Len(h) : h[k].is # "note" => h[k].of # Nothing /\ h[k].of[1] <= turns
  /\ numbering # "repeated" =>
       /\ IdsUnique(h)
       /\ \A k \in 1..Len(h) : h[k].is = "call" =>
            /\ h[k].id # NoId => h[k].id[2] = h[k].of[1]
            /\ Current(h[k]) => CameTo(h[k], a)

Kept ==
  /\ Tells(history, at)
  /\ \A k \in 1..Len(history) : Current(history[k]) => phase \in {"act", "child", "stuck"}

IsRecorded(j) == \E k \in 1..Len(history) : history[k].is = "call" /\ history[k].id = calls[j].id

\* The calls of actions that were run in their turn are recorded.
RunsRecorded ==
  numbering # "repeated" /\ native /\ phase \in {"act", "child"} /\ at <= Len(reply) =>
    \A i \in 1..Len(reply) : i < at /\ reply[i] \in Skills /\ ~Displaced(i) => IsRecorded(i)

\* The run of an action is told, or is one of the exceptions.
RunTold(i) ==
  \/ \E k \in 1..Len(history) : history[k].is # "call" /\ history[k].of = This(i)
  \/ reply[i] = "last" /\ ended = "answer" /\ at > Len(reply)
  \/ Plan(reply) = "parallel" /\ Displaced(i)

RunsTold == numbering = "fresh" => \A i \in 1..Len(reply) : ran[i] > 0 => RunTold(i)

ToldInv == Kept /\ RunsRecorded /\ RunsTold

-----------------------------------------------------------------------------
(***************************************************************************)
(* What a step adds to the history.                                        *)
(***************************************************************************)
\* It holds nothing but notes.
NotesOnly(w) == w \in Seq(Entries) /\ \A k \in 1..Len(w) : w[k].is = "note"

\* The calls in w are of this turn, of actions the loop came to before position a, and not in h.
NewCalls(w, h, a) ==
  /\ IdsUnique(w)
  /\ \A k \in 1..Len(w) : w[k].is = "call" =>
       /\ w[k].id # NoId => w[k].id[2] = turns
       /\ CameTo(w[k], a)
       /\ \A l \in 1..Len(h) : h[l].is = "call" => h[l].id # w[k].id \/ w[k].id = NoId

\* What may be added to h before the loop goes on to position a.
Addable(w, h, a) ==
  /\ w \in Seq(Entries) /\ Paired(w) /\ Owned(w)
  /\ \A k \in 1..Len(w) : w[k].is # "note" => w[k].of # Nothing /\ w[k].of[1] = turns
  /\ numbering # "repeated" => NewCalls(w, h, a)

\* The elements of a concatenation.
LEMMA Joined ==
  ASSUME NEW S, NEW a \in Seq(S), NEW b \in Seq(S)
  PROVE  /\ a \o b \in Seq(S) /\ Len(a) \in Nat /\ Len(b) \in Nat /\ Len(a \o b) = Len(a) + Len(b)
         /\ \A k \in 1..Len(a \o b) :
              \/ k \in 1..Len(a) /\ (a \o b)[k] = a[k]
              \/ k - Len(a) \in 1..Len(b) /\ k \notin 1..Len(a) /\ (a \o b)[k] = b[k - Len(a)]
<1>1. /\ a \o b \in Seq(S) /\ Len(a \o b) = Len(a) + Len(b) /\ Len(a) \in Nat /\ Len(b) \in Nat
      /\ \A k \in 1..Len(a) : (a \o b)[k] = a[k]
      /\ \A k \in 1..Len(b) : (a \o b)[Len(a) + k] = b[k]
  BY Concatenated
<1> DEFINE c == a \o b
<1> HIDE DEF c
<1>2. ASSUME NEW k \in 1..Len(c), k \notin 1..Len(a)
      PROVE  k - Len(a) \in 1..Len(b) /\ c[k] = b[k - Len(a)]
  <2>1. k - Len(a) \in 1..Len(b) /\ k = Len(a) + (k - Len(a))
    BY <1>1, <1>2 DEF c
  <2> QED BY <1>1, <2>1 DEF c
<1> QED BY <1>1, <1>2 DEF c

\* Pairs stay pairs.
LEMMA PairedConcat ==
  ASSUME NEW a \in Seq(Entries), NEW b \in Seq(Entries), Paired(a), Paired(b)
  PROVE  Paired(a \o b)
<1> DEFINE c == a \o b
           n == Len(a)
<1>1. /\ n \in Nat /\ Len(b) \in Nat /\ Len(c) = n + Len(b)
      /\ \A k \in 1..Len(c) : \/ k \in 1..n /\ c[k] = a[k]
                              \/ k - n \in 1..Len(b) /\ k \notin 1..n /\ c[k] = b[k - n]
  BY Joined
<1> HIDE DEF c
<1> SUFFICES ASSUME NEW k \in 1..Len(c)
             PROVE  /\ c[k].is = "call" => k < Len(c) /\ c[k + 1].is = "result" /\ c[k + 1].id = c[k].id
                    /\ c[k].is = "result" => k > 1 /\ c[k - 1].is = "call" /\ c[k - 1].id = c[k].id
  BY DEF Paired, c
<1>2. CASE k \in 1..n
  <2>1. c[k] = a[k] /\ (k < n => k + 1 \in 1..n /\ c[k + 1] = a[k + 1])
        /\ (k > 1 => k - 1 \in 1..n /\ c[k - 1] = a[k - 1])
    BY <1>1, <1>2
  <2> QED BY <1>1, <1>2, <2>1 DEF Paired
<1>3. CASE k \notin 1..n
  <2> DEFINE m == k - n
  <2>1. /\ m \in 1..Len(b) /\ c[k] = b[m]
        /\ m < Len(b) => k < Len(c) /\ c[k + 1] = b[m + 1]
        /\ m > 1 => k > 1 /\ c[k - 1] = b[m - 1]
    <3>1. m \in 1..Len(b) /\ c[k] = b[m]
      BY <1>1, <1>3
    <3>2. m < Len(b) => k + 1 \in 1..Len(c) /\ k + 1 \notin 1..n /\ (k + 1) - n = m + 1
      BY <1>1, <1>3, <3>1
    <3>3. m > 1 => k - 1 \in 1..Len(c) /\ k - 1 \notin 1..n /\ (k - 1) - n = m - 1 /\ k > 1
      BY <1>1, <1>3, <3>1
    <3> QED BY SMTT(30), <1>1, <3>1, <3>2, <3>3
  <2> HIDE DEF m
  <2> QED BY <2>1 DEF Paired
<1> QED BY <1>2, <1>3

\* Results that are of their calls stay so.
LEMMA OwnedConcat ==
  ASSUME NEW a \in Seq(Entries), NEW b \in Seq(Entries), Owned(a), Owned(b),
         Paired(a), Paired(b)
  PROVE  Owned(a \o b)
<1> DEFINE c == a \o b
           n == Len(a)
<1>1. /\ n \in Nat /\ Len(b) \in Nat /\ Len(c) = n + Len(b)
      /\ \A k \in 1..Len(c) : \/ k \in 1..n /\ c[k] = a[k]
                              \/ k - n \in 1..Len(b) /\ k \notin 1..n /\ c[k] = b[k - n]
  BY Joined
<1> HIDE DEF c
<1> SUFFICES ASSUME NEW k \in 1..Len(c), c[k].is = "result" /\ Current(c[k])
             PROVE  \/ c[k].of = c[k - 1].of
                    \/ \E i \in 1..Len(reply) : c[k].of = This(i) /\ Displaced(i)
                    \/ numbering = "repeated"
  BY DEF Owned, c
<1>2. CASE k \in 1..n
  <2>1. c[k] = a[k]
    BY <1>1, <1>2
  <2>2. CASE k = 1
    BY <1>1, <1>2, <2>1, <2>2 DEF Paired
  <2>3. CASE k # 1
    <3>1. c[k - 1] = a[k - 1]
      BY <1>1, <1>2, <2>3
    <3> QED BY <1>2, <2>1, <3>1 DEF Owned
  <2> QED BY <2>2, <2>3
<1>3. CASE k \notin 1..n
  <2> DEFINE m == k - n
  <2>1. m \in 1..Len(b) /\ c[k] = b[m]
    BY <1>1, <1>3
  <2>2. m > 1
    BY <2>1 DEF Paired
  <2>3. k - 1 \in 1..Len(c) /\ k - 1 \notin 1..n /\ (k - 1) - n = m - 1
    BY <1>1, <1>3, <2>1, <2>2
  <2>4. c[k - 1] = b[m - 1]
    BY <1>1, <2>3
  <2> HIDE DEF m
  <2> QED BY <2>1, <2>4 DEF Owned
<1> QED BY <1>2, <1>3

\* New ids stay unique.
LEMMA UniqueConcat ==
  ASSUME NEW a \in Seq(Entries), NEW b \in Seq(Entries), IdsUnique(a), IdsUnique(b),
         \A k \in 1..Len(b), l \in 1..Len(a) :
           b[k].is = "call" /\ a[l].is = "call" => a[l].id # b[k].id \/ b[k].id = NoId
  PROVE  IdsUnique(a \o b)
<1> DEFINE c == a \o b
           n == Len(a)
<1>1. /\ n \in Nat /\ Len(b) \in Nat /\ Len(c) = n + Len(b)
      /\ \A k \in 1..Len(c) : \/ k \in 1..n /\ c[k] = a[k]
                              \/ k - n \in 1..Len(b) /\ k \notin 1..n /\ c[k] = b[k - n]
  BY Joined
<1> HIDE DEF c
<1> SUFFICES ASSUME NEW k \in 1..Len(c), NEW l \in 1..Len(c), c[k].is = "call", c[l].is = "call",
                    c[k].id = c[l].id, c[k].id # NoId
             PROVE  k = l
  BY DEF IdsUnique, c
<1>2. CASE k \in 1..n /\ l \in 1..n
  BY <1>1, <1>2 DEF IdsUnique
<1>3. CASE k \notin 1..n /\ l \notin 1..n
  <2>1. k - n \in 1..Len(b) /\ l - n \in 1..Len(b) /\ c[k] = b[k - n] /\ c[l] = b[l - n]
    BY <1>1, <1>3
  <2>2. k - n = l - n
    BY <2>1 DEF IdsUnique
  <2> QED BY <1>1, <2>2
<1>4. CASE k \in 1..n /\ l \notin 1..n
  BY <1>1, <1>4
<1>5. CASE k \notin 1..n /\ l \in 1..n
  BY <1>1, <1>5
<1> QED BY <1>2, <1>3, <1>4, <1>5

\* A position further on is come to as well.
LEMMA CameFurther ==
  ASSUME NEW a \in Nat, NEW b \in Nat, a <= b, Len(reply) \in Nat, NEW e, CameTo(e, a)
  PROVE  CameTo(e, b)
<1>1. BatchBy(a) => BatchBy(b)
  BY DEF BatchBy
<1> QED BY <1>1 DEF CameTo

\* A history stays true when what may be added is added.
LEMMA TellsOn ==
  ASSUME Len(reply) \in Nat, turns \in Nat, NEW b \in Nat, NEW a \in Nat, b <= a,
         NEW h, Tells(h, b), NEW w, Addable(w, h, a)
  PROVE  Tells(h \o w, a)
<1> DEFINE c == h \o w
           n == Len(h)
<1>1. h \in Seq(Entries) /\ w \in Seq(Entries)
  BY DEF Tells, Addable
<1>2. /\ n \in Nat /\ Len(w) \in Nat /\ Len(c) = n + Len(w) /\ c \in Seq(Entries)
      /\ \A k \in 1..Len(c) : \/ k \in 1..n /\ c[k] = h[k]
                              \/ k - n \in 1..Len(w) /\ k \notin 1..n /\ c[k] = w[k - n]
  BY <1>1, Joined
<1>3. Paired(c) /\ Owned(c)
  BY <1>1, PairedConcat, OwnedConcat DEF Tells, Addable
<1>4. numbering # "repeated" => IdsUnique(c)
  BY <1>1, UniqueConcat DEF Tells, Addable, NewCalls
<1> HIDE DEF c
<1>5. ASSUME NEW k \in 1..Len(c), c[k].is # "note" PROVE c[k].of # Nothing /\ c[k].of[1] <= turns
  <2>1. CASE k \in 1..n
    BY <1>2, <1>5, <2>1 DEF Tells
  <2>2. CASE k \notin 1..n
    BY <1>2, <1>5, <2>2 DEF Addable
  <2> QED BY <2>1, <2>2
<1>6. ASSUME NEW k \in 1..Len(c), c[k].is = "call", numbering # "repeated"
      PROVE  /\ c[k].id # NoId => c[k].id[2] = c[k].of[1]
             /\ Current(c[k]) => CameTo(c[k], a)
  <2>1. CASE k \in 1..n
    <3>1. /\ c[k].id # NoId => c[k].id[2] = c[k].of[1]
          /\ Current(c[k]) => CameTo(c[k], b)
      BY <1>2, <1>6, <2>1 DEF Tells
    <3> QED BY <3>1, CameFurther
  <2>2. CASE k \notin 1..n
    <3>1. k - n \in 1..Len(w) /\ c[k] = w[k - n]
      BY <1>2, <2>2
    <3>2. c[k].of[1] = turns /\ (c[k].id # NoId => c[k].id[2] = turns) /\ CameTo(c[k], a)
      BY <1>6, <3>1 DEF Addable, NewCalls
    <3> QED BY <3>2
  <2> QED BY <2>1, <2>2
<1> QED BY <1>2, <1>3, <1>4, <1>5, <1>6 DEF Tells, c

\* Notes may always be added.
LEMMA NotesAddable ==
  ASSUME NEW w, NotesOnly(w), NEW h, NEW a
  PROVE  Addable(w, h, a)
<1>1. \A k \in 1..Len(w) : w[k].is = "note"
  BY DEF NotesOnly
<1>2. Paired(w) /\ Owned(w) /\ IdsUnique(w)
  BY <1>1 DEF Paired, Owned, IdsUnique
<1> QED BY <1>1, <1>2 DEF Addable, NewCalls, NotesOnly

LEMMA NotesAre ==
  /\ NotesOnly(<<>>) /\ NotesOnly(<<Note(Nothing)>>)
  /\ turns \in Nat => \A i \in Nat : NotesOnly(<<Note(This(i))>>)
                                     /\ NotesOnly(<<Note(Nothing), Note(This(i))>>)
<1>1. Note(Nothing) \in Entries
  BY DEF Note, Entries, Ids, Marks, NoId
<1>2. ASSUME turns \in Nat, NEW i \in Nat PROVE Note(This(i)) \in Entries
  BY <1>2 DEF Note, Entries, Ids, Marks, NoId, This
<1>3. \A x : Note(x).is = "note"
  BY DEF Note
<1> HIDE DEF Note
<1> QED BY <1>1, <1>2, <1>3 DEF NotesOnly

-----------------------------------------------------------------------------
(***************************************************************************)
(* The call an action answers.                                             *)
(***************************************************************************)
\* The calls of a reply have ids of their own, or the provider gives none.
LEMMA CallIds ==
  ASSUME StreamInv, Arrived
  PROVE  /\ \A j \in 1..Len(sent) : calls[j].id \in Ids
         /\ numbering # "repeated" =>
              \A j \in 1..Len(sent) : calls[j].id # NoId => calls[j].id[2] = turns
         /\ \A j, k \in 1..Len(sent) : calls[j].id = calls[k].id => j = k \/ calls[j].id = NoId
         /\ \A j, k \in 1..Len(sent) : calls[j].id = NoId => calls[k].id = NoId
         /\ numbering = "fresh" => \A j \in 1..Len(sent) : calls[j].id # NoId
<1>1. /\ Len(sent) \in Nat /\ turns \in Nat /\ protocol \in Protocols
      /\ numbering \in {"fresh", "repeated", "missing"} /\ Sends
  BY DEF StreamInv, ConvTypes, Arrived, Sends
<1>2. \A i \in 1..Len(sent) : sent[i].form[1] = "head" => protocol = "responses"
  <2>1. \A i \in 1..Len(sent) : sent[i].form \in Forms
    BY <1>1 DEF Sends
  <2>2. <<"start", "head", "tail">>[1] # "head"
    OBVIOUS
  <2> QED BY <2>1, <2>2 DEF Forms
<1>3. ASSUME NEW i \in 1..Len(sent)
      PROVE  \/ IdOf(i) = <<"item", turns, i>>
             \/ IdOf(i) = <<"call", turns, i>> /\ numbering = "fresh"
             \/ IdOf(i) = <<"call", 0, i>> /\ numbering = "repeated"
             \/ IdOf(i) = NoId /\ numbering = "missing" /\ protocol # "responses"
  BY <1>1, <1>2, <1>3 DEF IdOf, GivenId, ItemKey
<1>4. \A x, y, z : <<x, y, z>> # NoId
  BY DEF NoId
<1>5. ASSUME NEW i \in 1..Len(sent)
      PROVE  /\ IdOf(i) \in Ids
             /\ numbering # "repeated" /\ IdOf(i) # NoId => IdOf(i)[2] = turns
             /\ IdOf(i) # NoId => IdOf(i)[3] = i
             /\ IdOf(i) = NoId <=> numbering = "missing" /\ protocol # "responses"
  <2>1. /\ <<"item", turns, i>> \in Ids /\ <<"call", turns, i>> \in Ids /\ <<"call", 0, i>> \in Ids
        /\ NoId \in Ids
    BY <1>1 DEF Ids
  <2>2. /\ <<"item", turns, i>>[2] = turns /\ <<"item", turns, i>>[3] = i
        /\ <<"call", turns, i>>[2] = turns /\ <<"call", turns, i>>[3] = i
        /\ <<"call", 0, i>>[3] = i
    OBVIOUS
  <2>3. numbering = "missing" /\ protocol # "responses" => IdOf(i) = NoId
    BY <1>2 DEF IdOf, GivenId
  <2> QED BY <1>3, <1>4, <2>1, <2>2, <2>3
<1>6. \A j \in 1..Len(sent) : \E i \in 1..Len(sent) :
        calls[j].id = IdOf(i) /\ calls[j].args = Whole(i)
  BY DEF Arrived, CallOf
<1>7. ASSUME NEW j \in 1..Len(sent), NEW k \in 1..Len(sent), calls[j].id = calls[k].id, calls[j].id # NoId
      PROVE  j = k
  <2>1. PICK i \in 1..Len(sent) : calls[j].id = IdOf(i) /\ calls[j].args = Whole(i)
    BY <1>6
  <2>2. PICK l \in 1..Len(sent) : calls[k].id = IdOf(l) /\ calls[k].args = Whole(l)
    BY <1>6
  <2>3. IdOf(i) # NoId /\ IdOf(l) = IdOf(i)
    BY <1>7, <2>1, <2>2
  <2>4. IdOf(i)[3] = i /\ IdOf(l)[3] = l
    BY <1>5, <2>3
  <2>5. i = l
    BY <2>3, <2>4
  <2> QED BY <2>1, <2>2, <2>5 DEF Arrived
<1>8. \A j, k \in 1..Len(sent) : calls[j].id = NoId => calls[k].id = NoId
  BY <1>5, <1>6
<1>9. ASSUME numbering = "fresh", NEW j \in 1..Len(sent) PROVE calls[j].id # NoId
  <2>1. PICK i \in 1..Len(sent) : calls[j].id = IdOf(i)
    BY <1>6
  <2> QED BY <1>5, <1>9, <2>1
<1>10. ASSUME NEW j \in 1..Len(sent)
       PROVE  calls[j].id \in Ids /\ (numbering # "repeated" /\ calls[j].id # NoId => calls[j].id[2] = turns)
  <2>1. PICK i \in 1..Len(sent) : calls[j].id = IdOf(i)
    BY <1>6
  <2> HIDE DEF IdOf
  <2> QED BY <1>5, <2>1
<1> QED BY <1>7, <1>8, <1>9, <1>10

\* An action that runs in its turn is one of the calls, in a model with calls.
LEMMA HasCall ==
  ASSUME StreamInv, phase \in {"act", "child"}, native, NEW i \in 1..Len(reply), reply[i] \in Actions
  PROVE  /\ Arrived /\ Len(reply) = Len(sent) /\ Len(sent) \in Nat /\ calls[i].skill = reply[i]
         /\ DOMAIN calls = 1..Len(sent)
         /\ \A j \in 1..Len(reply) : calls[j].skill = reply[i] => reply[j] = reply[i]
<1>1. Answers
  BY DEF StreamInv, Phases
<1>2. Arrived /\ Len(reply) = Len(sent)
  BY <1>1 DEF Answers
<1>3. Len(reply) \in Nat
  BY DEF StreamInv, ConvTypes
<1>4. \A j \in 1..Len(reply) : reply[j] \in Actions \/ calls[j].skill \in Actions => reply[j] = calls[j].skill
  <2>1. CASE calls = <<>> /\ (native => \A j \in 1..Len(reply) : reply[j] \notin Actions)
    BY <2>1
  <2> QED BY <1>1, <2>1 DEF Answers
<1> QED BY <1>2, <1>3, <1>4 DEF Arrived

\* A call that is recorded before the loop comes to its action was displaced by a batch.
LEMMA EarlyRecorded ==
  ASSUME StreamInv, ToldInv, phase = "act", native, NEW i \in 1..Len(reply), at <= i, reply[i] \in Actions,
         numbering # "repeated", IsRecorded(i), calls[i].id # NoId
  PROVE  BatchBy(at) /\ Displaced(i)
<1>1. /\ Arrived /\ Len(reply) = Len(sent) /\ Len(reply) \in Nat /\ at \in Nat
  BY HasCall DEF StreamInv, ConvTypes
<1>2. PICK k \in 1..Len(history) : history[k].is = "call" /\ history[k].id = calls[i].id
  BY DEF IsRecorded
<1>3. history[k].id[2] = turns /\ history[k].id[2] = history[k].of[1]
  BY <1>1, <1>2, CallIds DEF ToldInv, Kept, Tells
<1>4. CameTo(history[k], at)
  BY <1>2, <1>3 DEF ToldInv, Kept, Tells, Current
<1>5. PICK j \in 1..Len(reply) : history[k].id = calls[j].id /\ (j < at \/ (BatchBy(at) /\ Displaced(j)))
  BY <1>4 DEF CameTo
<1>6. j = i
  BY <1>1, <1>2, <1>5, CallIds
<1> QED BY <1>1, <1>5, <1>6

\* The match is the first call of the name that is not recorded.
LEMMA MatchIs ==
  ASSUME NEW n \in Nat, DOMAIN calls = 1..n, history \in Seq(Entries), NEW skill
  PROVE  /\ Match(skill) = 0 => \A l \in 1..n : calls[l].skill = skill => IsRecorded(l)
         /\ Match(skill) # 0 =>
              /\ Match(skill) \in 1..n /\ calls[Match(skill)].skill = skill /\ ~IsRecorded(Match(skill))
              /\ \A l \in 1..n : calls[l].skill = skill /\ ~IsRecorded(l) => Match(skill) <= l
<1> DEFINE same == {j \in 1..n : calls[j].skill = skill /\ ~IsRecorded(j)}
<1>1. DOMAIN history = 1..Len(history)
  OBVIOUS
<1>2. Match(skill) = IF same = {} THEN 0 ELSE First(same)
  BY <1>1 DEF Match, IsRecorded
<1>3. CASE same = {}
  BY <1>2, <1>3
<1>4. CASE same # {}
  <2>1. \E j \in same : \A l \in same : j <= l
    <3>1. same \subseteq Nat
      OBVIOUS
    <3> HIDE DEF same
    <3> QED BY <1>4, <3>1, Least
  <2>2. First(same) \in same /\ \A l \in same : First(same) <= l
    <3> HIDE DEF same
    <3> QED BY <2>1 DEF First
  <2>3. Match(skill) = First(same) /\ First(same) # 0
    BY <1>2, <1>4, <2>2
  <2> HIDE DEF First, Match
  <2> QED BY <2>2, <2>3
<1> QED BY <1>3, <1>4

\* Names are shared, so is what displaces them.
LEMMA DisplacedByName ==
  ASSUME NEW i, NEW j, reply[i] = reply[j], Displaced(i) PROVE Displaced(j)
BY DEF Displaced

\* An action that ran in its turn answers its own call, unless its name was displaced.
LEMMA MatchesOwn ==
  ASSUME StreamInv, ToldInv, phase = "act", native, at \in 1..Len(reply), reply[at] \in Skills,
         numbering # "repeated"
  PROVE  LET j == Match(reply[at]) IN
         /\ j = 0 => IsRecorded(at)
         /\ j # 0 => /\ j <= at \/ (BatchBy(at) /\ Displaced(at))
                     /\ ~Displaced(at) => j = at
<1> DEFINE j == Match(reply[at])
<1>1. reply[at] \in Actions
  BY DEF Skills, Actions, Plain, Payments
<1>2. /\ Arrived /\ Len(reply) = Len(sent) /\ Len(sent) \in Nat /\ calls[at].skill = reply[at]
      /\ DOMAIN calls = 1..Len(sent)
      /\ \A l \in 1..Len(reply) : calls[l].skill = reply[at] => reply[l] = reply[at]
  BY <1>1, HasCall
<1>3. history \in Seq(Entries)
  BY DEF ToldInv, Kept, Tells
<1>4. /\ j = 0 => \A l \in 1..Len(sent) : calls[l].skill = reply[at] => IsRecorded(l)
      /\ j # 0 => /\ j \in 1..Len(sent) /\ calls[j].skill = reply[at] /\ ~IsRecorded(j)
                  /\ \A l \in 1..Len(sent) : calls[l].skill = reply[at] /\ ~IsRecorded(l) => j <= l
  BY <1>2, <1>3, MatchIs
<1> HIDE DEF j
<1>5. j = 0 => IsRecorded(at)
  BY <1>2, <1>4
<1>6. ASSUME j # 0, ~(BatchBy(at) /\ Displaced(at)) PROVE ~IsRecorded(at) /\ j <= at
  <2>1. ~IsRecorded(at)
    <3> SUFFICES ASSUME IsRecorded(at) PROVE FALSE
      OBVIOUS
    <3>1. calls[at].id # NoId
      <4> SUFFICES ASSUME calls[at].id = NoId PROVE FALSE
        OBVIOUS
      <4>1. calls[j].id = calls[at].id
        BY <1>2, <1>4, <1>6, CallIds
      <4> QED BY <1>4, <1>6, <4>1 DEF IsRecorded
    <3>2. at <= at
      BY <1>2
    <3> QED BY <1>1, <1>6, <3>1, <3>2, EarlyRecorded
  <2> QED BY <1>2, <1>4, <1>6, <2>1
<1>7. ASSUME j # 0, ~Displaced(at) PROVE j = at
  <2>1. j <= at /\ j \in 1..Len(reply)
    BY <1>2, <1>4, <1>6, <1>7
  <2>2. reply[j] = reply[at]
    BY <1>2, <1>4, <1>7, <2>1
  <2>3. ~Displaced(j)
    BY <1>7, <2>2, DisplacedByName
  <2>4. ~(j < at)
    <3> SUFFICES ASSUME j < at PROVE FALSE
      OBVIOUS
    <3>1. IsRecorded(j)
      <4>1. at <= Len(reply)
        BY <1>2
      <4> QED BY <2>1, <2>2, <2>3, <4>1 DEF ToldInv, RunsRecorded
    <3> QED BY <1>4, <1>7, <3>1
  <2> QED BY <1>2, <2>1, <2>4
<1> QED BY <1>5, <1>6, <1>7 DEF j

\* A call and its result.
LEMMA RecordedIs ==
  ASSUME turns \in Nat, NEW j \in Nat, NEW i \in Nat, calls[j].id \in Ids
  PROVE  LET w == Recorded(j, i) IN
         /\ w \in Seq(Entries) /\ Len(w) = 2 /\ Paired(w)
         /\ w[1].is = "call" /\ w[1].id = calls[j].id /\ w[1].of = This(j)
         /\ w[2].is = "result" /\ w[2].id = calls[j].id /\ w[2].of = This(i)
         /\ This(i) # Nothing /\ This(i)[1] = turns /\ This(i) \in Marks
<1> DEFINE w == Recorded(j, i)
<1>1. Call(calls[j].id, This(j)) \in Entries /\ Result(calls[j].id, This(i)) \in Entries
  BY DEF Call, Result, This, Entries, Marks
<1>2. w \in Seq(Entries) /\ Len(w) = 2
      /\ w[1] = Call(calls[j].id, This(j)) /\ w[2] = Result(calls[j].id, This(i))
  BY <1>1 DEF Recorded
<1>3. /\ w[1].is = "call" /\ w[1].id = calls[j].id /\ w[1].of = This(j)
      /\ w[2].is = "result" /\ w[2].id = calls[j].id /\ w[2].of = This(i)
  BY <1>2 DEF Call, Result
<1>4. This(i) # Nothing /\ This(i)[1] = turns /\ This(i) \in Marks
  <2>1. \A x, y : <<x, y>> # <<>> /\ <<x, y>>[1] = x
    OBVIOUS
  <2> QED BY <2>1 DEF This, Nothing, Marks
<1> HIDE DEF w
<1>5. Paired(w)
  <2> SUFFICES ASSUME NEW k \in 1..2
               PROVE  /\ w[k].is = "call" => k < 2 /\ w[k + 1].is = "result" /\ w[k + 1].id = w[k].id
                      /\ w[k].is = "result" => k > 1 /\ w[k - 1].is = "call" /\ w[k - 1].id = w[k].id
    BY <1>2 DEF Paired
  <2>1. CASE k = 1
    BY <1>3, <2>1
  <2>2. CASE k = 2
    BY <1>3, <2>2
  <2> QED BY <2>1, <2>2
<1> QED BY <1>2, <1>3, <1>4, <1>5 DEF w

\* What a finished action adds may be added.
LEMMA ToldAddable ==
  ASSUME StreamInv, ToldInv, phase = "act", at \in 1..Len(reply), reply[at] \in Skills,
         NEW h, \A k \in 1..Len(h) : h[k].is = "call" =>
                  \E l \in 1..Len(history) : history[l].is = "call" /\ history[l].id = h[k].id
  PROVE  Addable(Told(at), h, at + 1)
<1>1. turns \in Nat /\ Len(reply) \in Nat /\ at \in Nat
  BY DEF StreamInv, ConvTypes
<1>2. CASE ~native
  <2>1. Told(at) = <<Note(Nothing), Note(This(at))>>
    BY <1>2 DEF Told
  <2> QED BY <1>1, <2>1, NotesAre, NotesAddable
<1>3. CASE native /\ Match(reply[at]) = 0
  <2>1. Told(at) = <<>>
    BY <1>3 DEF Told
  <2> QED BY <2>1, NotesAre, NotesAddable
<1>4. CASE native /\ Match(reply[at]) # 0
  <2> DEFINE j == Match(reply[at])
             w == Recorded(j, at)
  <2>1. reply[at] \in Actions
    BY DEF Skills, Actions, Plain, Payments
  <2>2. /\ Arrived /\ Len(reply) = Len(sent) /\ Len(sent) \in Nat /\ calls[at].skill = reply[at]
        /\ DOMAIN calls = 1..Len(sent)
        /\ \A l \in 1..Len(reply) : calls[l].skill = reply[at] => reply[l] = reply[at]
    BY <1>4, <2>1, HasCall
  <2>3. history \in Seq(Entries)
    BY DEF ToldInv, Kept, Tells
  <2>4. j \in 1..Len(sent) /\ calls[j].skill = reply[at] /\ ~IsRecorded(j)
    BY <1>4, <2>2, <2>3, MatchIs
  <2>5. numbering # "repeated" => /\ j <= at \/ (BatchBy(at) /\ Displaced(at))
                                  /\ ~Displaced(at) => j = at
    BY <1>4, MatchesOwn
  <2>6. Told(at) = w
    BY <1>4 DEF Told
  <2> HIDE DEF j
  <2>7. /\ calls[j].id \in Ids
        /\ numbering # "repeated" => (calls[j].id # NoId => calls[j].id[2] = turns)
    BY <2>2, <2>4, CallIds
  <2>8. j \in Nat
    BY <2>4
  <2>9. /\ w \in Seq(Entries) /\ Len(w) = 2 /\ Paired(w)
        /\ w[1].is = "call" /\ w[1].id = calls[j].id /\ w[1].of = This(j)
        /\ w[2].is = "result" /\ w[2].id = calls[j].id /\ w[2].of = This(at)
        /\ This(at) # Nothing /\ This(at)[1] = turns
    BY <1>1, <2>7, <2>8, RecordedIs
  <2>10. This(j) # Nothing /\ This(j)[1] = turns
    BY <1>1, <2>7, <2>8, RecordedIs
  <2> HIDE DEF w
  <2>11. \A k \in 1..Len(w) : k = 1 \/ k = 2
    BY <2>9
  <2>12. Owned(w)
    <3> SUFFICES ASSUME NEW k \in 1..Len(w), w[k].is = "result", numbering # "repeated",
                        ~ \E i \in 1..Len(reply) : w[k].of = This(i) /\ Displaced(i)
                 PROVE  w[k].of = w[k - 1].of
      BY DEF Owned
    <3>1. k = 2
      BY <2>9, <2>11
    <3>2. ~Displaced(at)
      BY <2>9, <3>1
    <3> QED BY <2>5, <2>9, <3>1, <3>2
  <2>13. \A k \in 1..Len(w) : w[k].of # Nothing /\ w[k].of[1] = turns
    BY <2>9, <2>10, <2>11
  <2>14. ASSUME numbering # "repeated" PROVE NewCalls(w, h, at + 1)
    <3>1. \A k \in 1..Len(w) : w[k].is = "call" => k = 1
      BY <2>9, <2>11
    <3>2. IdsUnique(w)
      BY <3>1 DEF IdsUnique
    <3>3. CameTo(w[1], at + 1)
      <4>1. j < at + 1 \/ (BatchBy(at + 1) /\ Displaced(j))
        <5>1. CASE j <= at
          BY <1>1, <2>8, <5>1
        <5>2. CASE BatchBy(at) /\ Displaced(at)
          <6>1. reply[j] = reply[at]
            BY <2>2, <2>4
          <6>2. BatchBy(at + 1)
            BY <1>1, <5>2 DEF BatchBy
          <6> QED BY <5>2, <6>1, <6>2, DisplacedByName
        <5> QED BY <2>5, <2>14, <5>1, <5>2
      <4> QED BY <2>2, <2>4, <2>9, <4>1 DEF CameTo
    <3>4. \A l \in 1..Len(h) : h[l].is = "call" => h[l].id # w[1].id
      <4> SUFFICES ASSUME NEW l \in 1..Len(h), h[l].is = "call", h[l].id = w[1].id PROVE FALSE
        OBVIOUS
      <4>1. \E m \in 1..Len(history) : history[m].is = "call" /\ history[m].id = calls[j].id
        BY <2>9
      <4> QED BY <2>4, <4>1 DEF IsRecorded
    <3>5. w[1].id # NoId => w[1].id[2] = turns
      BY <2>7, <2>9, <2>14
    <3> QED BY <3>1, <3>2, <3>3, <3>4, <3>5 DEF NewCalls
  <2>15. Addable(w, h, at + 1)
    BY <2>9, <2>12, <2>13, <2>14 DEF Addable
  <2> QED BY <2>6, <2>15
<1> QED BY <1>2, <1>3, <1>4

-----------------------------------------------------------------------------
(***************************************************************************)
(* The batch.                                                              *)
(***************************************************************************)
\* What the batch tells of the action at i, when those of ok went well.
BatchPart(ok, i) ==
  IF i \notin Batch(reply) THEN <<>>
  ELSE IF native /\ i \in ok THEN Recorded(i, i) ELSE <<Note(This(i))>>

BatchParts(ok) == FlattenSeq([i \in 1..Len(reply) |-> BatchPart(ok, i)])

\* The batch begins where it is run, and all of its actions are displaced.
LEMMA BatchFrom ==
  ASSUME reply \in Seq(Items), NEW f, AtBatch(reply, f), NEW i \in Batch(reply)
  PROVE  f <= i /\ i \in 1..Len(reply) /\ reply[i] \in Actions /\ Displaced(i)
<1>1. i \in Run(reply) /\ i \in 1..Len(reply) /\ reply[i] \in Actions
  BY DEF Batch, Run, Positions
<1>2. f = First(Run(reply)) /\ Plan(reply) = "parallel"
  BY DEF AtBatch
<1>3. Run(reply) \subseteq Nat
  BY DEF Run, Positions
<1>4. \E x \in Run(reply) : \A y \in Run(reply) : x <= y
  BY <1>1, <1>3, Least
<1>5. f <= i
  BY <1>1, <1>2, <1>4 DEF First
<1>6. Displaced(i)
  BY <1>1, <1>2 DEF Displaced
<1> QED BY <1>1, <1>5, <1>6

\* Each part is a call with its result, a note, or empty.
LEMMA BatchPartIs ==
  ASSUME StreamInv, phase = "act", NEW ok \in SUBSET Ready(reply), NEW i \in 1..Len(reply)
  PROVE  LET w == BatchPart(ok, i) IN
         /\ w \in Seq(Entries) /\ Len(w) \in Nat
         /\ \/ /\ i \in Batch(reply) /\ native /\ reply[i] \in Actions /\ calls[i].id \in Ids
               /\ Len(w) = 2
               /\ w[1].is = "call" /\ w[1].id = calls[i].id /\ w[1].of = This(i)
               /\ w[2].is = "result" /\ w[2].id = calls[i].id /\ w[2].of = This(i)
            \/ \A k \in 1..Len(w) : w[k].is = "note"
         /\ This(i) # Nothing /\ This(i)[1] = turns
<1> DEFINE w == BatchPart(ok, i)
<1>1. turns \in Nat /\ i \in Nat /\ i \in 1..Len(reply)
  BY DEF StreamInv, ConvTypes
<1>2. This(i) # Nothing /\ This(i)[1] = turns
  BY <1>1 DEF This, Nothing
<1>3. CASE w = <<>>
  <2>1. w \in Seq(Entries) /\ Len(w) = 0
    BY <1>3
  <2> QED BY <1>2, <2>1
<1>4. CASE w = <<Note(This(i))>>
  <2>1. w \in Seq(Entries) /\ \A k \in 1..Len(w) : w[k].is = "note"
    BY <1>1, <1>4, NotesAre DEF NotesOnly
  <2>2. Len(w) \in Nat
    BY <2>1
  <2> HIDE DEF w
  <2> QED BY <1>2, <2>1, <2>2 DEF w
<1>5. CASE i \in Batch(reply) /\ native /\ i \in ok
  <2>1. reply[i] \in Actions
    BY <1>5 DEF Batch, Run, Positions
  <2>2. Arrived /\ Len(reply) = Len(sent)
    BY <1>5, <2>1, HasCall
  <2>3. calls[i].id \in Ids
    BY <1>1, <2>2, CallIds
  <2>4. w = Recorded(i, i)
    BY <1>5 DEF BatchPart
  <2> HIDE DEF w
  <2>5. /\ w \in Seq(Entries) /\ Len(w) = 2
        /\ w[1].is = "call" /\ w[1].id = calls[i].id /\ w[1].of = This(i)
        /\ w[2].is = "result" /\ w[2].id = calls[i].id /\ w[2].of = This(i)
    BY <1>1, <2>3, <2>4, RecordedIs
  <2> QED BY <1>2, <1>5, <2>1, <2>3, <2>5 DEF w
<1> QED BY <1>3, <1>4, <1>5 DEF BatchPart

\* What the batch tells may be added.
LEMMA BatchAddable ==
  ASSUME StreamInv, ToldInv, phase = "act", at \in 1..Len(reply), AtBatch(reply, at),
         NEW ok \in SUBSET Ready(reply),
         NEW h, \A k \in 1..Len(h) : h[k].is = "call" =>
                  \E l \in 1..Len(history) : history[l].is = "call" /\ history[l].id = h[k].id
  PROVE  Addable(BatchParts(ok), h, at + 1)
<1> DEFINE ss == [i \in 1..Len(reply) |-> BatchPart(ok, i)]
           F == BatchParts(ok)
<1>1. turns \in Nat /\ Len(reply) \in Nat /\ at \in Nat /\ reply \in Seq(Items)
  BY DEF StreamInv, ConvTypes
<1>2. ss \in Seq(Seq(Entries)) /\ Len(ss) = Len(reply)
  <2>1. \A i \in 1..Len(reply) : BatchPart(ok, i) \in Seq(Entries)
    BY BatchPartIs
  <2> QED BY <1>1, <2>1
<1>3. F \in Seq(Entries) /\ Len(F) \in Nat /\ \E part, place : Placed(F, ss, Len(reply), part, place)
  <2>1. F = FlattenSeq(ss)
    BY DEF BatchParts
  <2> HIDE DEF F, ss
  <2> QED BY <1>2, <2>1, FlattenOrder
<1>4. PICK part, place : Placed(F, ss, Len(reply), part, place)
  BY <1>3
<1>5. \A i \in 1..Len(reply) : ss[i] = BatchPart(ok, i)
  OBVIOUS
<1> HIDE DEF F, ss
<1> DEFINE IsPair(i) ==
      /\ i \in Batch(reply) /\ native /\ reply[i] \in Actions /\ calls[i].id \in Ids
      /\ Len(ss[i]) = 2
      /\ ss[i][1].is = "call" /\ ss[i][1].id = calls[i].id /\ ss[i][1].of = This(i)
      /\ ss[i][2].is = "result" /\ ss[i][2].id = calls[i].id /\ ss[i][2].of = This(i)
<1>6. \A i \in 1..Len(reply) :
        /\ IsPair(i) \/ \A k \in 1..Len(ss[i]) : ss[i][k].is = "note"
        /\ This(i) # Nothing /\ This(i)[1] = turns
  BY <1>5, BatchPartIs
<1>7. ASSUME NEW k \in 1..Len(F)
      PROVE  /\ part[k] \in 1..Len(reply) /\ place[k] \in 1..Len(ss[part[k]])
             /\ F[k] = ss[part[k]][place[k]]
  BY <1>4 DEF Placed
<1>8. ASSUME NEW k \in 1..Len(F), F[k].is # "note"
      PROVE  /\ IsPair(part[k])
             /\ F[k].is = "call" => place[k] = 1
             /\ F[k].is = "result" => place[k] = 2
             /\ F[k].of = This(part[k]) /\ F[k].id = calls[part[k]].id
  <2>1. IsPair(part[k])
    <3>1. ~ \A m \in 1..Len(ss[part[k]]) : ss[part[k]][m].is = "note"
      BY <1>7, <1>8
    <3> HIDE DEF IsPair
    <3> QED BY <1>6, <1>7, <3>1
  <2>2. place[k] = 1 \/ place[k] = 2
    BY <1>7, <2>1
  <2>3. CASE place[k] = 1
    BY <1>7, <2>1, <2>3
  <2>4. CASE place[k] = 2
    BY <1>7, <2>1, <2>4
  <2> QED BY <2>1, <2>2, <2>3, <2>4
<1>9. ASSUME NEW k \in 1..Len(F), NEW l \in 1..Len(F), part[k] = part[l], place[k] = 1, place[l] = 2
      PROVE  l = k + 1
  <2>1. \A m \in 1..Len(F) : part[m] \in Nat /\ place[m] \in Nat
    <3>1. part \in [1..Len(F) -> 1..Len(reply)] /\ place \in [1..Len(F) -> Nat \ {0}]
      BY <1>4 DEF Placed
    <3>2. \A m \in 1..Len(F) : part[m] \in 1..Len(reply) /\ place[m] \in Nat \ {0}
      BY <3>1
    <3> QED BY <1>1, <3>2
  <2>2. \A m \in 1..Len(F) :
          ~ /\ part[k] < part[m] \/ (part[k] = part[m] /\ place[k] < place[m])
            /\ part[m] < part[l] \/ (part[m] = part[l] /\ place[m] < place[l])
    BY <1>9, <2>1
  <2>3. part[k] < part[l] \/ (part[k] = part[l] /\ place[k] < place[l])
    BY <1>9
  <2> QED BY <1>1, <1>3, <1>4, <2>2, <2>3, PlacesFollow
<1>10. ASSUME NEW a \in 1..Len(reply), IsPair(a)
       PROVE  \E k, l \in 1..Len(F) : part[k] = a /\ place[k] = 1 /\ part[l] = a /\ place[l] = 2
  <2>1. Len(ss[a]) = 2
    BY <1>10
  <2>2. \A x \in 1..Len(ss[a]) : \E k \in 1..Len(F) : part[k] = a /\ place[k] = x
    BY <1>4 DEF Placed
  <2>3. 1 \in 1..Len(ss[a]) /\ 2 \in 1..Len(ss[a])
    BY <2>1
  <2> HIDE DEF IsPair
  <2> QED BY <2>2, <2>3
<1>11. Paired(F)
  <2> SUFFICES ASSUME NEW k \in 1..Len(F)
               PROVE  /\ F[k].is = "call" => k < Len(F) /\ F[k + 1].is = "result" /\ F[k + 1].id = F[k].id
                      /\ F[k].is = "result" => k > 1 /\ F[k - 1].is = "call" /\ F[k - 1].id = F[k].id
    BY DEF Paired
  <2>1. ASSUME F[k].is # "note"
        PROVE  /\ \E l \in 1..Len(F) : part[l] = part[k] /\ place[l] = 1
               /\ \E l \in 1..Len(F) : part[l] = part[k] /\ place[l] = 2
    <3>1. IsPair(part[k]) /\ part[k] \in 1..Len(reply)
      BY <1>7, <1>8, <2>1
    <3> HIDE DEF IsPair
    <3> QED BY <1>10, <3>1
  <2>2. ASSUME F[k].is = "call"
        PROVE  k < Len(F) /\ F[k + 1].is = "result" /\ F[k + 1].id = F[k].id
    <3>1. PICK l \in 1..Len(F) : part[l] = part[k] /\ place[l] = 2
      BY <1>8, <2>1, <2>2
    <3>2. place[k] = 1
      BY <1>8, <2>2
    <3>4. l = k + 1
      BY <1>9, <3>1, <3>2
    <3>3. F[l].is = "result" /\ F[l].id = calls[part[k]].id
      <4>1. F[l] = ss[part[k]][2]
        BY <1>7, <3>1
      <4>2. IsPair(part[k])
        <5> HIDE DEF IsPair
        <5> QED BY <1>8, <2>2
      <4> QED BY <4>1, <4>2
    <3> QED BY <1>3, <1>8, <2>2, <3>4, <3>3
  <2>3. ASSUME F[k].is = "result"
        PROVE  k > 1 /\ F[k - 1].is = "call" /\ F[k - 1].id = F[k].id
    <3>1. PICK l \in 1..Len(F) : part[l] = part[k] /\ place[l] = 1
      BY <1>8, <2>1, <2>3
    <3>2. place[k] = 2
      BY <1>8, <2>3
    <3>4. k = l + 1
      BY <1>9, <3>1, <3>2
    <3>3. F[l].is = "call" /\ F[l].id = calls[part[k]].id
      <4>1. F[l] = ss[part[k]][1]
        BY <1>7, <3>1
      <4>2. IsPair(part[k])
        <5> HIDE DEF IsPair
        <5> QED BY <1>8, <2>3
      <4> QED BY <4>1, <4>2
    <3> QED BY <1>3, <1>8, <2>3, <3>4, <3>3
  <2> QED BY <2>2, <2>3
<1>12. Owned(F)
  <2> SUFFICES ASSUME NEW k \in 1..Len(F), F[k].is = "result"
               PROVE  \E i \in 1..Len(reply) : F[k].of = This(i) /\ Displaced(i)
    BY DEF Owned
  <2>1. part[k] \in Batch(reply) /\ F[k].of = This(part[k]) /\ part[k] \in 1..Len(reply)
    BY <1>7, <1>8
  <2> QED BY <1>1, <2>1, BatchFrom
<1>13. \A k \in 1..Len(F) : F[k].is # "note" => F[k].of # Nothing /\ F[k].of[1] = turns
  BY <1>6, <1>7, <1>8
<1>14. ASSUME numbering # "repeated" PROVE NewCalls(F, h, at + 1)
  <2>1. ASSUME NEW k \in 1..Len(F), F[k].is = "call"
        PROVE  /\ Arrived /\ Len(reply) = Len(sent) /\ part[k] \in 1..Len(sent) /\ native
               /\ F[k].of = This(part[k]) /\ F[k].id = calls[part[k]].id
               /\ part[k] \in Batch(reply) /\ reply[part[k]] \in Actions /\ place[k] = 1
    BY <1>7, <1>8, <2>1, HasCall
  <2>2. ASSUME NEW k \in 1..Len(F), NEW l \in 1..Len(F), F[k].is = "call", F[l].is = "call",
               F[k].id = F[l].id, F[k].id # NoId
        PROVE  k = l
    <3>1. part[k] = part[l] /\ place[k] = 1 /\ place[l] = 1
      BY SMTT(30), <2>1, <2>2, CallIds
    <3>2. \A x, y \in 1..Len(F) : x < y => part[x] < part[y] \/ (part[x] = part[y] /\ place[x] < place[y])
      BY <1>4 DEF Placed
    <3>3. part[k] \in Nat
      BY <1>7
    <3> QED BY <1>3, <3>1, <3>2, <3>3
  <2>3. ASSUME NEW k \in 1..Len(F), F[k].is = "call"
        PROVE  /\ F[k].id # NoId => F[k].id[2] = turns
               /\ CameTo(F[k], at + 1)
               /\ \A l \in 1..Len(h) : h[l].is = "call" => h[l].id # F[k].id \/ F[k].id = NoId
    <3> DEFINE j == part[k]
    <3>1. /\ Arrived /\ Len(reply) = Len(sent) /\ j \in 1..Len(sent) /\ native
          /\ F[k].of = This(j) /\ F[k].id = calls[j].id /\ j \in Batch(reply) /\ reply[j] \in Actions
      BY <2>1, <2>3
    <3> HIDE DEF j
    <3>2. at <= j /\ Displaced(j)
      BY <1>1, <3>1, BatchFrom
    <3>3. BatchBy(at + 1)
      BY <1>1 DEF BatchBy
    <3>4. CameTo(F[k], at + 1)
      BY <3>1, <3>2, <3>3 DEF CameTo
    <3>5. F[k].id # NoId => F[k].id[2] = turns
      BY <1>14, <3>1, CallIds
    <3>6. ASSUME NEW l \in 1..Len(h), h[l].is = "call", h[l].id = F[k].id, F[k].id # NoId PROVE FALSE
      <4>1. IsRecorded(j) /\ calls[j].id # NoId
        BY <3>1, <3>6 DEF IsRecorded
      <4>2. BatchBy(at)
        BY <1>14, <3>1, <3>2, <4>1, EarlyRecorded
      <4>3. PICK f \in 1..Len(reply) : f < at /\ f = First(Run(reply))
        BY <4>2 DEF BatchBy, AtBatch
      <4> QED BY <1>1, <4>3 DEF AtBatch
    <3> QED BY <3>4, <3>5, <3>6
  <2> QED BY <2>2, <2>3 DEF NewCalls, IdsUnique
<1> QED BY <1>3, <1>11, <1>12, <1>13, <1>14 DEF Addable, F

-----------------------------------------------------------------------------
(***************************************************************************)
(* A turn and its history.                                                 *)
(***************************************************************************)
\* What a turn is about does not change while the loop acts.
LEMMA SameTurn ==
  ASSUME UNCHANGED <<numbering, mode, turns, reply, calls>>
  PROVE  /\ \A e : Current(e)' <=> Current(e)
         /\ \A h : Owned(h)' <=> Owned(h)
         /\ \A e, a : CameTo(e, a)' <=> CameTo(e, a)
         /\ \A i : This(i)' = This(i) /\ (Displaced(i)' <=> Displaced(i))
         /\ native' <=> native
<1>1. \A e : Current(e)' <=> Current(e)
  BY DEF Current
<1>2. \A i : This(i)' = This(i) /\ (Displaced(i)' <=> Displaced(i))
  BY DEF This, Displaced
<1>3. \A h : Owned(h)' <=> Owned(h)
  BY <1>1, <1>2 DEF Owned
<1>4. \A a : BatchBy(a)' <=> BatchBy(a)
  BY DEF BatchBy
<1>5. \A e, a : CameTo(e, a)' <=> CameTo(e, a)
  BY <1>2, <1>4 DEF CameTo
<1> QED BY <1>1, <1>2, <1>3, <1>5 DEF native

\* What the history told it tells, and what is added.
LEMMA KeptOn ==
  ASSUME UNCHANGED <<numbering, mode, turns, reply, calls>>, phase' \in {"act", "child"},
         Tells(history', at')
  PROVE  Kept'
<1>1. /\ Owned(history)' <=> Owned(history')
      /\ \A k \in 1..Len(history') : Current(history[k])' <=> Current(history'[k])
      /\ \A k \in 1..Len(history') : CameTo(history[k], at)' <=> CameTo(history'[k], at')
  <2>1. \A e : Current(e)' <=> Current(e)
    BY SameTurn
  <2> QED BY DEF Owned, Current, CameTo, This, Displaced, BatchBy
<1>2. Tells(history, at)'
  BY <1>1 DEF Tells
<1> QED BY <1>2 DEF Kept

\* Of a turn that has not acted yet, or is over, the history has nothing.
LEMMA KeptBetween ==
  ASSUME Kept, UNCHANGED <<numbering, history>>, turns \in Nat,
         (turns' = turns /\ phase \notin {"act", "child", "stuck"}) \/ turns' = turns + 1
  PROVE  Kept'
<1>1. /\ history \in Seq(Entries) /\ Paired(history)
      /\ \A k \in 1..Len(history) : history[k].is # "note" => history[k].of # Nothing /\ history[k].of[1] <= turns
      /\ numbering # "repeated" => IdsUnique(history)
      /\ numbering # "repeated" => \A k \in 1..Len(history) : history[k].is = "call" =>
           (history[k].id # NoId => history[k].id[2] = history[k].of[1])
      /\ \A k \in 1..Len(history) : Current(history[k]) => phase \in {"act", "child", "stuck"}
  BY DEF Kept, Tells
<1>2. \A k \in 1..Len(history) : history[k].is # "note" => history[k].of[1] \in Nat
  <2> SUFFICES ASSUME NEW k \in 1..Len(history), history[k].is # "note" PROVE history[k].of[1] \in Nat
    OBVIOUS
  <2>1. history[k].of \in Nat \X Nat
    <3>1. history[k] \in Entries /\ history[k].of # Nothing
      BY <1>1
    <3>2. history[k].of \in Marks
      BY <3>1 DEF Entries
    <3> QED BY <3>1, <3>2 DEF Marks
  <2> QED BY <2>1
<1>3. \A k \in 1..Len(history) : ~Current(history[k])'
  BY <1>1, <1>2 DEF Current
<1>4. \A k \in 1..Len(history) : history[k].is # "note" => history[k].of[1] <= turns'
  BY <1>1, <1>2
<1>5. Owned(history)'
  BY <1>3 DEF Owned
<1>6. Tells(history, at)'
  BY <1>1, <1>3, <1>4, <1>5 DEF Tells
<1> QED BY <1>3, <1>6 DEF Kept

\* A step of the loop that tells what it ought to.
LEMMA ToldOn ==
  ASSUME ToldInv, UNCHANGED <<numbering, mode, turns, reply, calls>>,
         phase \in {"act", "child"}, phase' \in {"act", "child"}, Len(reply) \in Nat,
         at \in 1..Len(reply), at' \in Nat, at' > Len(reply) \/ at' = at \/ at' = at + 1,
         Tells(history', at'),
         \A k \in 1..Len(history) : k \in 1..Len(history') /\ history'[k] = history[k],
         \A i \in 1..Len(reply) :
           /\ numbering # "repeated" /\ native /\ i = at /\ at' = at + 1 /\ at' <= Len(reply)
           /\ reply[i] \in Skills /\ ~Displaced(i)
           => IsRecorded(i)',
         numbering = "fresh" => \A i \in 1..Len(reply) : ran'[i] # ran[i] => RunTold(i)'
  PROVE  ToldInv'
<1>1. Kept'
  BY KeptOn
<1>2. /\ \A i : This(i)' = This(i) /\ (Displaced(i)' <=> Displaced(i))
      /\ native' <=> native
  BY SameTurn
<1>3. ASSUME NEW i, IsRecorded(i) PROVE IsRecorded(i)'
  <2>1. PICK k \in 1..Len(history) : history[k].is = "call" /\ history[k].id = calls[i].id
    BY <1>3 DEF IsRecorded
  <2>2. k \in 1..Len(history') /\ history'[k] = history[k]
    BY <2>1
  <2> QED BY <2>1, <2>2 DEF IsRecorded
<1>4. RunsRecorded'
  <2> SUFFICES ASSUME numbering # "repeated", native, at' <= Len(reply), NEW i \in 1..Len(reply), i < at',
                      reply[i] \in Skills, ~Displaced(i)
               PROVE  IsRecorded(i)'
    BY <1>2 DEF RunsRecorded
  <2>1. CASE i < at
    <3>1. at <= Len(reply)
      OBVIOUS
    <3> QED BY <1>3, <2>1, <3>1 DEF ToldInv, RunsRecorded
  <2>2. CASE ~(i < at)
    <3>1. i = at /\ at' = at + 1
      BY <2>2
    <3> QED BY <3>1
  <2> QED BY <2>1, <2>2
<1>5. RunsTold'
  <2> SUFFICES ASSUME numbering = "fresh", NEW i \in 1..Len(reply), ran'[i] > 0 PROVE RunTold(i)'
    BY DEF RunsTold
  <2>1. CASE ran'[i] # ran[i]
    BY <2>1
  <2>2. CASE ran'[i] = ran[i]
    <3>1. RunTold(i) /\ ~(at > Len(reply))
      BY <2>2 DEF ToldInv, RunsTold
    <3>2. CASE \E k \in 1..Len(history) : history[k].is # "call" /\ history[k].of = This(i)
      <4>1. PICK k \in 1..Len(history) : history[k].is # "call" /\ history[k].of = This(i)
        BY <3>2
      <4>2. k \in 1..Len(history') /\ history'[k] = history[k]
        BY <4>1
      <4> QED BY <1>2, <4>1, <4>2 DEF RunTold
    <3>3. CASE Plan(reply) = "parallel" /\ Displaced(i)
      BY <1>2, <3>3 DEF RunTold
    <3> QED BY <3>1, <3>2, <3>3 DEF RunTold
  <2> QED BY <2>1, <2>2
<1> QED BY <1>1, <1>4, <1>5 DEF ToldInv

\* A history that tells as it is, tells so further on.
LEMMA TellsFurther ==
  ASSUME Len(reply) \in Nat, NEW b \in Nat, NEW a \in Nat, b <= a, NEW h, Tells(h, b)
  PROVE  Tells(h, a)
BY CameFurther DEF Tells

\* What is added leaves what was there.
LEMMA Extends ==
  ASSUME NEW h \in Seq(Entries), NEW w \in Seq(Entries)
  PROVE  /\ h \o w \in Seq(Entries)
         /\ \A k \in 1..Len(h) : k \in 1..Len(h \o w) /\ (h \o w)[k] = h[k]
         /\ \A k \in 1..Len(w) : Len(h) + k \in 1..Len(h \o w) /\ (h \o w)[Len(h) + k] = w[k]
<1>1. /\ h \o w \in Seq(Entries) /\ Len(h \o w) = Len(h) + Len(w) /\ Len(h) \in Nat /\ Len(w) \in Nat
      /\ \A k \in 1..Len(h) : (h \o w)[k] = h[k]
      /\ \A k \in 1..Len(w) : (h \o w)[Len(h) + k] = w[k]
  BY Concatenated
<1> DEFINE c == h \o w
<1> HIDE DEF c
<1>2. c \in Seq(Entries) /\ Len(c) = Len(h) + Len(w)
  BY <1>1 DEF c
<1>3. /\ \A k \in 1..Len(h) : k \in 1..Len(c)
      /\ \A k \in 1..Len(w) : Len(h) + k \in 1..Len(c)
  BY <1>1, <1>2
<1> QED BY <1>1, <1>3 DEF c

\* A step that runs nothing and adds notes.
LEMMA NotesTold ==
  ASSUME StreamInv, ToldInv, UNCHANGED <<numbering, mode, turns, reply, calls, ran>>,
         phase \in {"act", "child"}, phase' \in {"act", "child"},
         at \in 1..Len(reply), at' \in Nat, at' > Len(reply) \/ at' = at \/ at' = at + 1,
         at' = at + 1 => reply[at] \notin Skills \/ Displaced(at) \/ at' > Len(reply),
         NEW w, NotesOnly(w), history' = history \/ history' = history \o w
  PROVE  ToldInv'
<1>1. /\ Len(reply) \in Nat /\ turns \in Nat /\ at \in Nat /\ at <= at'
      /\ Tells(history, at) /\ history \in Seq(Entries) /\ w \in Seq(Entries)
  <2>1. turns \in Nat /\ reply \in Seq(Items)
    BY DEF StreamInv, ConvTypes
  <2>2. Len(reply) \in Nat
    BY <2>1
  <2>3. at \in Nat /\ at <= at'
    BY <2>2
  <2>4. Tells(history, at)
    BY DEF ToldInv, Kept
  <2>5. history \in Seq(Entries)
    BY <2>4 DEF Tells
  <2>6. w \in Seq(Entries)
    BY DEF NotesOnly
  <2> QED BY <2>1, <2>2, <2>3, <2>4, <2>5, <2>6
<1>2. Tells(history', at') /\ \A k \in 1..Len(history) : k \in 1..Len(history') /\ history'[k] = history[k]
  <2>1. CASE history' = history
    BY <1>1, <2>1, TellsFurther
  <2>2. CASE history' = history \o w
    <3>1. Tells(history \o w, at')
      BY <1>1, NotesAddable, TellsOn
    <3>2. \A k \in 1..Len(history) : k \in 1..Len(history \o w) /\ (history \o w)[k] = history[k]
      BY <1>1, Extends
    <3> QED BY <2>2, <3>1, <3>2
  <2> QED BY <2>1, <2>2
<1>3. \A i \in 1..Len(reply) :
        ~ /\ i = at /\ at' = at + 1 /\ at' <= Len(reply)
          /\ reply[i] \in Skills /\ ~Displaced(i)
  BY <1>1
<1>4. \A i \in 1..Len(reply) : ran'[i] = ran[i]
  OBVIOUS
<1> QED BY <1>1, <1>2, <1>3, <1>4, ToldOn

\* One entry more is a sequence of one more.
LEMMA AppendIs ==
  ASSUME NEW S, NEW s \in Seq(S), NEW x \in S PROVE Append(s, x) = s \o <<x>>
OBVIOUS

\* What a payment puts off is noted.
LEMMA PaymentNotes == \A i : NotesOnly(PaymentNote(i))
BY NotesAre DEF PaymentNote

\* The steps that run nothing.
LEMMA IdleTold ==
  ASSUME StreamInv, RunInv, ToldInv,
         PassOver \/ Say \/ Stop \/ BadDelegate \/ Delegate \/ ChildTurn
  PROVE  ToldInv'
<1>1. /\ phase \in {"act", "child"} /\ phase' \in {"act", "child"}
      /\ UNCHANGED <<numbering, mode, turns, reply, calls>> /\ at' \in Nat
  BY DoingKeeps DEF Doing, model, known, stream
<1>2. /\ Len(reply) \in Nat /\ DOMAIN reply = 1..Len(reply) /\ history \in Seq(Entries)
  BY DEF StreamInv, ConvTypes, ToldInv, Kept, Tells
<1>3. Left(reply, at) # "spent" => reply[at] = Left(reply, at)
  BY DEF Left
<1>4. CASE PassOver
  <2>1. /\ at \in 1..Len(reply) /\ ~Reached(reply, at) /\ at' = at + 1 /\ UNCHANGED <<ran, history>>
    BY <1>2, <1>4 DEF PassOver, Here, MovesOn
  <2>2. Displaced(at)
    <3>1. Plan(reply) = "payment" /\ at \in Deferred(reply)
      BY <2>1 DEF Reached
    <3>2. at \in Run(reply)
      BY <3>1 DEF Deferred
    <3> QED BY <3>1, <3>2 DEF Displaced
  <2> QED BY <1>1, <2>1, <2>2, NotesAre, NotesTold
<1>5. CASE Say
  <2>1. /\ at \in 1..Len(reply) /\ at' = at + 1 /\ UNCHANGED ran
        /\ Left(reply, at) \in {"thought", "chat", "ask", "final"}
        /\ history' = history \/ history' = Append(history, Note(Nothing))
    BY <1>2, <1>5 DEF Say, Here
  <2>2. reply[at] \notin Skills
    BY <1>3, <2>1 DEF Skills
  <2>3. Append(history, Note(Nothing)) = history \o <<Note(Nothing)>>
    BY <1>2, AppendIs DEF Note, Entries, Ids, Marks, NoId
  <2> QED BY <1>1, <2>1, <2>2, <2>3, NotesAre, NotesTold
<1>6. CASE Stop
  <2> DEFINE w == IF Here({"pay"}) THEN <<Note(Nothing)>> ELSE <<>>
  <2>1. /\ at \in 1..Len(reply) /\ at' = Len(reply) + 1 /\ UNCHANGED ran
        /\ history' = history \o PaymentNote(at) \o w
    BY <1>2, <1>6 DEF Stop, Here, BreaksOff
  <2>2. NotesOnly(w) /\ NotesOnly(PaymentNote(at))
    BY NotesAre, PaymentNotes
  <2> HIDE DEF w
  <2>3. /\ Tells(history \o PaymentNote(at) \o w, at')
        /\ \A k \in 1..Len(history) : k \in 1..Len(history') /\ history'[k] = history[k]
    <3> DEFINE h == history \o PaymentNote(at)
    <3>1. turns \in Nat /\ at \in Nat /\ at <= at' /\ Tells(history, at)
      BY <1>1, <1>2, <2>1 DEF StreamInv, ConvTypes, ToldInv, Kept
    <3>2. Tells(h, at)
      BY <1>2, <2>2, <3>1, NotesAddable, TellsOn
    <3>3. h \in Seq(Entries) /\ \A k \in 1..Len(history) : k \in 1..Len(h) /\ h[k] = history[k]
      BY <1>2, <2>2, Extends DEF NotesOnly
    <3> HIDE DEF h
    <3>4. Tells(h \o w, at')
      BY <1>1, <1>2, <2>2, <3>1, <3>2, NotesAddable, TellsOn
    <3>5. \A k \in 1..Len(h) : k \in 1..Len(h \o w) /\ (h \o w)[k] = h[k]
      BY <2>2, <3>3, Extends DEF NotesOnly
    <3>6. \A k \in 1..Len(history) : k \in 1..Len(h \o w) /\ (h \o w)[k] = history[k]
      BY <3>3, <3>5
    <3> QED BY <2>1, <3>4, <3>6 DEF h
  <2>4. ~(at' <= Len(reply))
    BY <1>2, <2>1
  <2> QED BY <1>1, <1>2, <2>1, <2>3, <2>4, ToldOn
<1>7. CASE BadDelegate
  <2>1. /\ at \in 1..Len(reply) /\ at' = at + 1 /\ UNCHANGED ran
        /\ Left(reply, at) = "delegateBad"
        /\ history' = Append(history, Note(Nothing))
    BY <1>2, <1>7 DEF BadDelegate, Here, MovesOn
  <2>2. reply[at] \notin Skills
    BY <1>3, <2>1 DEF Skills
  <2>3. Append(history, Note(Nothing)) = history \o <<Note(Nothing)>>
    BY <1>2, AppendIs DEF Note, Entries, Ids, Marks, NoId
  <2> QED BY <1>1, <2>1, <2>2, <2>3, NotesAre, NotesTold
<1>8. CASE Delegate \/ ChildTurn
  <2>1. at \in 1..Len(reply) /\ at' = at /\ UNCHANGED <<ran, history>>
    BY <1>2, <1>8 DEF Delegate, ChildTurn, Here, RunInv, Delegating
  <2> QED BY <1>1, <1>2, <2>1, NotesAre, NotesTold
<1> QED BY <1>4, <1>5, <1>6, <1>7, <1>8

\* The report of a child is a note of its action.
LEMMA ChildTold ==
  ASSUME StreamInv, RunInv, ToldInv, ChildEnds
  PROVE  ToldInv'
<1>1. /\ phase \in {"act", "child"} /\ phase' \in {"act", "child"}
      /\ UNCHANGED <<numbering, mode, turns, reply, calls>> /\ at' \in Nat
  BY DoingKeeps DEF Doing, model, known, stream
<1>2. /\ Len(reply) \in Nat /\ history \in Seq(Entries) /\ turns \in Nat
      /\ ran \in [1..Len(reply) -> Nat]
  BY DEF StreamInv, ConvTypes, ToldInv, Kept, Tells
<1>3. /\ at \in 1..Len(reply) /\ reply[at] = "delegate" /\ at' = at + 1
      /\ ran' = [ran EXCEPT ![at] = @ + 1]
      /\ history' = Append(history, Note(This(at)))
  BY DEF ChildEnds, RunInv, Delegating
<1> DEFINE w == <<Note(This(at))>>
<1>4. NotesOnly(w) /\ Note(This(at)) \in Entries
  <2>1. at \in Nat
    BY <1>2, <1>3
  <2>2. Note(This(at)) \in Entries
    BY <1>2, <2>1 DEF Note, Entries, Ids, Marks, NoId, This
  <2> QED BY <1>2, <2>1, <2>2, NotesAre
<1>5. history' = history \o w
  BY <1>2, <1>3, <1>4, AppendIs
<1>6. w[1] = Note(This(at)) /\ Len(w) = 1
  OBVIOUS
<1> HIDE DEF w
<1>7. Tells(history', at')
  <2>1. at \in Nat /\ at <= at' /\ Tells(history, at)
    BY <1>3 DEF ToldInv, Kept
  <2>2. Tells(history \o w, at')
    BY <1>1, <1>2, <1>4, <2>1, NotesAddable, TellsOn
  <2> QED BY <1>5, <2>2
<1>8. /\ \A k \in 1..Len(history) : k \in 1..Len(history') /\ history'[k] = history[k]
      /\ \E k \in 1..Len(history') : history'[k] = Note(This(at))
  <2>1. /\ \A k \in 1..Len(history) : k \in 1..Len(history \o w) /\ (history \o w)[k] = history[k]
        /\ \A k \in 1..Len(w) : Len(history) + k \in 1..Len(history \o w) /\ (history \o w)[Len(history) + k] = w[k]
    BY <1>2, <1>4, Extends DEF NotesOnly
  <2>2. 1 \in 1..Len(w)
    BY <1>6
  <2> QED BY <1>5, <1>6, <2>1, <2>2
<1>9. ASSUME NEW i \in 1..Len(reply), ran'[i] # ran[i] PROVE RunTold(i)'
  <2>1. i = at
    BY <1>2, <1>3, <1>9
  <2>2. \E k \in 1..Len(history') : history'[k].is # "call" /\ history'[k].of = This(i)
    BY <1>8, <2>1 DEF Note
  <2>3. This(i)' = This(i)
    BY <1>1 DEF This
  <2> QED BY <2>2, <2>3 DEF RunTold
<1>10. "delegate" \notin Skills
  BY DEF Skills
<1> QED BY <1>1, <1>2, <1>3, <1>7, <1>8, <1>9, <1>10, ToldOn

\* Notes add no calls.
LEMMA NotesNoCalls ==
  ASSUME NEW h \in Seq(Entries), NEW w, NotesOnly(w), NEW k \in 1..Len(h \o w), (h \o w)[k].is = "call"
  PROVE  k \in 1..Len(h) /\ (h \o w)[k] = h[k]
<1>1. \/ k \in 1..Len(h) /\ (h \o w)[k] = h[k]
      \/ k - Len(h) \in 1..Len(w) /\ k \notin 1..Len(h) /\ (h \o w)[k] = w[k - Len(h)]
  BY Joined DEF NotesOnly
<1>2. \A m \in 1..Len(w) : w[m].is = "note"
  BY DEF NotesOnly
<1>3. "note" # "call"
  OBVIOUS
<1> QED BY <1>1, <1>2, <1>3

\* What the history gains is in it.
LEMMA ToldIsThere ==
  ASSUME NEW h \in Seq(Entries), NEW w \in Seq(Entries), NEW m \in 1..Len(w)
  PROVE  \E k \in 1..Len(h \o w) : (h \o w)[k] = w[m]
<1>1. Len(h) + m \in 1..Len(h \o w) /\ (h \o w)[Len(h) + m] = w[m]
  BY Extends
<1> QED BY <1>1

\* An action that ran, and told what came of it.
LEMMA OneTold ==
  ASSUME StreamInv, ToldInv, RunOne
  PROVE  ToldInv'
<1>1. /\ phase = "act" /\ phase' \in {"act", "child"}
      /\ UNCHANGED <<numbering, mode, turns, reply, calls>> /\ at' \in Nat
  BY DoingKeeps DEF Doing, model, known, stream, RunOne, Here
<1>2. /\ Len(reply) \in Nat /\ DOMAIN reply = 1..Len(reply) /\ history \in Seq(Entries)
      /\ turns \in Nat /\ ran \in [1..Len(reply) -> Nat] /\ Tells(history, at)
  BY DEF StreamInv, ConvTypes, ToldInv, Kept, Tells
<1>3. at \in 1..Len(reply) /\ Left(reply, at) \in Skills /\ ran' = [ran EXCEPT ![at] = @ + 1]
  BY <1>2 DEF RunOne, Here
<1>4. reply[at] \in Skills /\ reply[at] \in Actions
  BY <1>3 DEF Left, Skills, Actions, Plain, Payments
<1> DEFINE h == history \o PaymentNote(at)
           w == Told(at)
<1>5. /\ h \in Seq(Entries) /\ \A k \in 1..Len(history) : k \in 1..Len(h) /\ h[k] = history[k]
      /\ Tells(h, at)
  <2>1. NotesOnly(PaymentNote(at))
    BY PaymentNotes
  <2>2. at \in Nat /\ at <= at
    BY <1>3
  <2> QED BY <1>2, <2>1, <2>2, Extends, NotesAddable, TellsOn DEF NotesOnly
<1>6. \A k \in 1..Len(h) : h[k].is = "call" => k \in 1..Len(history) /\ h[k] = history[k]
  BY <1>2, NotesNoCalls, PaymentNotes
<1> HIDE DEF h
<1>7. Addable(w, h, at + 1)
  <2>1. \A k \in 1..Len(h) : h[k].is = "call" =>
          \E l \in 1..Len(history) : history[l].is = "call" /\ history[l].id = h[k].id
    BY <1>6
  <2> QED BY <1>1, <1>3, <1>4, <2>1, ToldAddable
<1> HIDE DEF w
<1>8. w \in Seq(Entries)
  BY <1>7 DEF Addable
<1>9. \/ /\ reply[at] = "last" /\ at' = Len(reply) + 1 /\ ended' = "answer" /\ history' = h
      \/ at' = at + 1 /\ history' = h \o w
  BY <1>1 DEF RunOne, BreaksOff, MovesOn, h, w
<1>10. /\ Tells(history', at')
       /\ \A k \in 1..Len(history) : k \in 1..Len(history') /\ history'[k] = history[k]
  <2>1. CASE history' = h /\ at' = Len(reply) + 1
    <3>1. at \in Nat /\ at <= at'
      BY <1>2, <1>3, <2>1
    <3>2. Tells(h, at')
      BY <1>1, <1>2, <1>5, <3>1, TellsFurther
    <3> QED BY <1>5, <2>1, <3>2
  <2>2. CASE history' = h \o w /\ at' = at + 1
    <3>1. at \in Nat /\ at <= at'
      BY <1>3, <2>2
    <3>2. Tells(h \o w, at')
      BY <1>1, <1>2, <1>5, <1>7, <2>2, <3>1, TellsOn
    <3>3. \A k \in 1..Len(h) : k \in 1..Len(h \o w) /\ (h \o w)[k] = h[k]
      BY <1>5, <1>8, Extends
    <3>4. \A k \in 1..Len(history) : k \in 1..Len(h \o w) /\ (h \o w)[k] = history[k]
      BY <1>5, <3>3
    <3> QED BY <2>2, <3>2, <3>4
  <2> QED BY <1>9, <2>1, <2>2
<1>11. /\ \A i : This(i)' = This(i) /\ (Displaced(i)' <=> Displaced(i))
       /\ native' <=> native
  BY <1>1, SameTurn
<1>12. ASSUME history' = h \o w, NEW m \in 1..Len(w)
       PROVE  \E k \in 1..Len(history') : history'[k] = w[m]
  BY <1>5, <1>8, <1>12, ToldIsThere
\* The result is under the id of the call of the match.
<1>13. ASSUME native, Match(reply[at]) # 0
       PROVE  LET j == Match(reply[at]) IN
              /\ Len(w) = 2 /\ w[1].is = "call" /\ w[1].id = calls[j].id
              /\ w[2].is = "result" /\ w[2].of = This(at)
  <2> DEFINE j == Match(reply[at])
  <2>1. Arrived /\ DOMAIN calls = 1..Len(sent) /\ Len(sent) \in Nat
    BY <1>1, <1>3, <1>4, <1>13, HasCall
  <2>2. j \in 1..Len(sent)
    BY <1>2, <1>13, <2>1, MatchIs
  <2>3. w = Recorded(j, at)
    BY <1>13 DEF w, Told
  <2> HIDE DEF j
  <2>4. calls[j].id \in Ids /\ j \in Nat /\ at \in Nat
    BY <1>3, <2>1, <2>2, CallIds
  <2>5. LET v == Recorded(j, at) IN
          /\ Len(v) = 2 /\ v[1].is = "call" /\ v[1].id = calls[j].id
          /\ v[2].is = "result" /\ v[2].of = This(at)
    BY <1>2, <2>4, RecordedIs
  <2> QED BY <2>3, <2>5 DEF j
<1>14. ASSUME NEW i \in 1..Len(reply), numbering # "repeated", native, i = at, at' = at + 1,
              at' <= Len(reply), ~Displaced(i)
       PROVE  IsRecorded(i)'
  <2>1. history' = h \o w
    BY <1>9, <1>14
  <2>2. CASE Match(reply[at]) = 0
    <3>1. IsRecorded(i)
      BY <1>1, <1>3, <1>4, <1>14, <2>2, MatchesOwn
    <3>2. PICK k \in 1..Len(history) : history[k].is = "call" /\ history[k].id = calls[i].id
      BY <3>1 DEF IsRecorded
    <3>3. k \in 1..Len(history') /\ history'[k] = history[k]
      BY <1>10
    <3> QED BY <1>1, <3>2, <3>3 DEF IsRecorded
  <2>3. CASE Match(reply[at]) # 0
    <3>1. Match(reply[at]) = i
      BY <1>1, <1>3, <1>4, <1>14, <2>3, MatchesOwn
    <3>2. Len(w) = 2 /\ w[1].is = "call" /\ w[1].id = calls[i].id
      BY <1>13, <1>14, <2>3, <3>1
    <3>3. \E k \in 1..Len(history') : history'[k] = w[1]
      BY <1>12, <2>1, <3>2
    <3> QED BY <1>1, <3>2, <3>3 DEF IsRecorded
  <2> QED BY <2>2, <2>3
<1>15. ASSUME numbering = "fresh", NEW i \in 1..Len(reply), ran'[i] # ran[i] PROVE RunTold(i)'
  <2>1. i = at
    BY <1>2, <1>3, <1>15
  <2>2. ASSUME NEW m \in 1..Len(w), w[m].is # "call", w[m].of = This(i), history' = h \o w
        PROVE  RunTold(i)'
    <3>1. \E k \in 1..Len(history') : history'[k] = w[m]
      BY <1>12, <2>2
    <3> QED BY <1>11, <2>2, <3>1 DEF RunTold
  <2>3. CASE reply[at] = "last" /\ at' = Len(reply) + 1 /\ ended' = "answer"
    BY <1>1, <1>2, <2>1, <2>3 DEF RunTold
  <2>4. CASE history' = h \o w /\ ~native
    <3>1. w = <<Note(Nothing), Note(This(at))>>
      BY <2>4 DEF w, Told
    <3>2. 2 \in 1..Len(w) /\ w[2] = Note(This(at))
      BY <3>1
    <3>3. w[2].is # "call" /\ w[2].of = This(i)
      BY <2>1, <3>2 DEF Note
    <3> QED BY <2>2, <2>4, <3>2, <3>3
  <2>5. CASE history' = h \o w /\ native /\ Match(reply[at]) # 0
    <3>1. Len(w) = 2 /\ w[2].is = "result" /\ w[2].of = This(i)
      BY <1>13, <2>1, <2>5
    <3>2. 2 \in 1..Len(w) /\ w[2].is # "call"
      BY <3>1
    <3> QED BY <2>2, <2>5, <3>1, <3>2
  <2>6. CASE native /\ Match(reply[at]) = 0
    <3>1. IsRecorded(i)
      BY <1>1, <1>3, <1>4, <1>15, <2>1, <2>6, MatchesOwn
    <3>2. calls[i].id # NoId
      <4>1. Arrived /\ Len(reply) = Len(sent)
        BY <1>1, <1>3, <1>4, <2>6, HasCall
      <4> QED BY <1>15, <4>1, CallIds
    <3>3. at <= i
      BY <1>3, <2>1
    <3>4. reply[i] \in Actions /\ numbering # "repeated"
      BY <1>4, <1>15, <2>1
    <3>5. BatchBy(at) /\ Displaced(i)
      BY <1>1, <2>6, <3>1, <3>2, <3>3, <3>4, EarlyRecorded
    <3>6. Plan(reply) = "parallel"
      BY <3>5 DEF BatchBy, AtBatch
    <3> QED BY <1>1, <1>11, <3>5, <3>6 DEF RunTold
  <2> QED BY <1>9, <2>3, <2>4, <2>5, <2>6
<1> QED BY <1>1, <1>2, <1>3, <1>9, <1>10, <1>14, <1>15, ToldOn

\* The batch, and what it told of each of its actions.
LEMMA BatchRunTold ==
  ASSUME StreamInv, ToldInv, RunBatch
  PROVE  ToldInv'
<1>1. /\ phase = "act" /\ phase' \in {"act", "child"}
      /\ UNCHANGED <<numbering, mode, turns, reply, calls>> /\ at' \in Nat
  BY DoingKeeps DEF Doing, model, known, stream, RunBatch, Here
<1>2. /\ Len(reply) \in Nat /\ DOMAIN reply = 1..Len(reply) /\ history \in Seq(Entries)
      /\ turns \in Nat /\ ran \in [1..Len(reply) -> Nat] /\ Tells(history, at) /\ reply \in Seq(Items)
  BY DEF StreamInv, ConvTypes, ToldInv, Kept, Tells
<1>3. /\ at \in 1..Len(reply) /\ AtBatch(reply, at)
      /\ ran' = [i \in DOMAIN ran |-> IF i \in Ready(reply) THEN ran[i] + 1 ELSE ran[i]]
  BY <1>2 DEF RunBatch, Here
<1>4. PICK ok \in SUBSET Ready(reply) :
        history' = history \o BatchTold(ok) /\ at' \in {at + 1, Len(reply) + 1}
  BY DEF RunBatch, BreaksOff, MovesOn
<1> DEFINE a == IF native THEN <<>> ELSE <<Note(Nothing)>>
           b == IF Deferred(reply) # {} THEN <<Note(Nothing)>> ELSE <<>>
           F == BatchParts(ok)
           h == history \o a
           g == h \o F
<1>5. BatchTold(ok) = (a \o F) \o b
  <2> DEFINE told(i) == IF native /\ i \in ok THEN Recorded(i, i) ELSE <<Note(This(i))>>
  <2>1. [i \in DOMAIN reply |-> IF i \in Batch(reply) THEN told(i) ELSE <<>>]
          = [i \in 1..Len(reply) |-> BatchPart(ok, i)]
    BY <1>2 DEF BatchPart
  <2> HIDE DEF BatchPart
  <2> QED BY <2>1 DEF BatchTold, BatchParts
<1>6. NotesOnly(a) /\ NotesOnly(b)
  BY NotesAre
<1> HIDE DEF a, b, F
<1>7. at \in Nat /\ at + 1 \in Nat /\ at <= at + 1 /\ at <= at /\ at + 1 <= at'
  BY <1>2, <1>3, <1>4
<1>8. /\ h \in Seq(Entries) /\ Tells(h, at)
      /\ \A k \in 1..Len(h) : h[k].is = "call" => k \in 1..Len(history) /\ h[k] = history[k]
      /\ \A k \in 1..Len(history) : k \in 1..Len(h) /\ h[k] = history[k]
  <2>1. a \in Seq(Entries)
    BY <1>6 DEF NotesOnly
  <2>2. Tells(h, at)
    BY <1>2, <1>6, <1>7, NotesAddable, TellsOn
  <2>3. /\ h \in Seq(Entries)
        /\ \A k \in 1..Len(history) : k \in 1..Len(h) /\ h[k] = history[k]
    BY <1>2, <2>1, Extends
  <2>4. ASSUME NEW k \in 1..Len(h), h[k].is = "call" PROVE k \in 1..Len(history) /\ h[k] = history[k]
    BY <1>2, <1>6, <2>4, NotesNoCalls
  <2> QED BY <2>2, <2>3, <2>4
<1> HIDE DEF h
<1>9. Addable(F, h, at + 1) /\ F \in Seq(Entries)
  <2>1. \A k \in 1..Len(h) : h[k].is = "call" =>
          \E l \in 1..Len(history) : history[l].is = "call" /\ history[l].id = h[k].id
    BY <1>8
  <2>2. Addable(F, h, at + 1)
    BY <1>1, <1>3, <2>1, BatchAddable DEF F
  <2> QED BY <2>2 DEF Addable
<1>10. /\ g \in Seq(Entries) /\ Tells(g, at + 1)
       /\ \A k \in 1..Len(h) : k \in 1..Len(g) /\ g[k] = h[k]
  BY <1>2, <1>7, <1>8, <1>9, Extends, TellsOn
<1> HIDE DEF g
<1>11. /\ Tells(g \o b, at')
       /\ \A k \in 1..Len(g) : k \in 1..Len(g \o b) /\ (g \o b)[k] = g[k]
  BY <1>1, <1>2, <1>6, <1>7, <1>10, Extends, NotesAddable, TellsOn DEF NotesOnly
<1>12. history' = g \o b
  <2>1. history \o ((a \o F) \o b) = ((history \o a) \o F) \o b
    <3>1. a \in Seq(Entries) /\ b \in Seq(Entries)
      BY <1>6 DEF NotesOnly
    <3>2. history \in Seq(Entries) /\ F \in Seq(Entries)
      BY <1>2, <1>9
    <3> QED BY <3>1, <3>2, SMT
  <2> QED BY <1>4, <1>5, <2>1 DEF g, h
<1>13. \A k \in 1..Len(history) : k \in 1..Len(history') /\ history'[k] = history[k]
  BY <1>8, <1>10, <1>11, <1>12
<1>14. Displaced(at)
  <2>1. Plan(reply) = "parallel" /\ at = First(Run(reply))
    BY <1>3 DEF AtBatch
  <2>2. Run(reply) # {}
    <3>1. Cardinality(Run(reply)) >= 2
      BY <2>1 DEF Plan
    <3> QED BY <3>1, FS_EmptySet
  <2>3. Run(reply) \subseteq Nat
    BY <1>2 DEF Run, Positions
  <2>4. at \in Run(reply)
    BY <2>1, <2>2, <2>3, Least DEF First
  <2>5. at \in Batch(reply)
    BY <1>7, <2>1, <2>4, TurnAssumption DEF Batch
  <2> QED BY <1>2, <1>3, <2>5, BatchFrom
<1>15. ASSUME NEW i \in 1..Len(reply), ran'[i] # ran[i] PROVE RunTold(i)'
  <2>1. i \in Batch(reply)
    BY <1>2, <1>3, <1>15 DEF Ready
  <2>2. Displaced(i) /\ Plan(reply) = "parallel"
    BY <1>2, <1>3, <2>1, BatchFrom DEF AtBatch
  <2>3. Displaced(i)'
    BY <1>1, <2>2, SameTurn
  <2> QED BY <1>1, <2>2, <2>3 DEF RunTold
<1>16. at' > Len(reply) \/ at' = at + 1
  BY <1>2, <1>4
<1> QED BY <1>1, <1>2, <1>3, <1>11, <1>12, <1>13, <1>14, <1>15, <1>16, ToldOn

\* A loop begins with a note in its history.
LEMMA ToldInit == Init => ToldInv
<1> SUFFICES ASSUME Init PROVE ToldInv
  OBVIOUS
<1>1. history = <<Note(Nothing)>> /\ reply = <<>> /\ phase = "call"
  BY DEF Init, Seed
<1>2. /\ history \in Seq(Entries) /\ \A k \in 1..Len(history) : history[k].is = "note"
  BY <1>1, NotesAre DEF NotesOnly
<1>3. Tells(history, at)
  BY <1>2 DEF Tells, Paired, Owned, IdsUnique
<1>4. Kept
  BY <1>2, <1>3 DEF Kept, Current
<1>5. RunsRecorded /\ RunsTold
  BY <1>1 DEF RunsRecorded, RunsTold
<1> QED BY <1>4, <1>5 DEF ToldInv

\* A reply that comes in has nothing told of it yet.
LEMMA ActsTold ==
  ASSUME StreamInv, ToldInv, NEW p \in Seq(Items), Acts(p), phase \notin {"act", "child", "stuck"},
         UNCHANGED <<numbering, turns, history>>
  PROVE  ToldInv'
<1>1. /\ reply' \in Seq(Items) /\ at' = 1 /\ ran' = [i \in 1..Len(reply') |-> 0]
  BY ActsTyped
<1>2. Kept'
  BY KeptBetween DEF StreamInv, ConvTypes, ToldInv
<1>3. \A i \in 1..Len(reply') : ran'[i] = 0 /\ ~(i < at')
  BY <1>1
<1>4. RunsRecorded' /\ RunsTold'
  BY <1>3 DEF RunsRecorded, RunsTold
<1> QED BY <1>2, <1>4 DEF ToldInv

\* Between turns there is nothing to be told.
LEMMA BetweenTold ==
  ASSUME StreamInv, ToldInv, UNCHANGED <<numbering, history>>, reply' = <<>>,
         (turns' = turns /\ phase \notin {"act", "child", "stuck"}) \/ turns' = turns + 1
  PROVE  ToldInv'
<1>1. Kept'
  BY KeptBetween DEF StreamInv, ConvTypes, ToldInv
<1>2. \A i \in 1..Len(reply') : FALSE
  OBVIOUS
<1> QED BY <1>1, <1>2 DEF ToldInv, RunsRecorded, RunsTold

\* Every step tells the truth of what it did.
LEMMA ToldStep == StreamInv /\ RunInv /\ ToldInv /\ [Next]_vars => ToldInv'
<1> SUFFICES ASSUME StreamInv, RunInv, ToldInv, [Next]_vars PROVE ToldInv'
  OBVIOUS
<1>1. CASE Request \/ CallFails \/ Rejected \/ NoReply \/ Open \/ StreamBreaks
          \/ (\E i \in DOMAIN due : phase = "stream" /\ Frame(i))
  <2>1. /\ UNCHANGED <<numbering, history, turns, reply>> /\ phase \in {"call", "wait", "stream"}
    BY <1>1 DEF Request, CallFails, Rejected, NoReply, Open, StreamBreaks, Frame, model, turn
  <2>2. reply = <<>>
    BY <2>1 DEF StreamInv, Phases
  <2> QED BY <2>1, <2>2, BetweenTold
<1>2. CASE PlainText \/ Objects
  <2>1. phase = "wait" /\ UNCHANGED <<numbering, turns, history>>
    BY <1>2 DEF PlainText, Objects, model
  <2>2. reply' = reply \/ \E p \in Seq(Items) : Acts(p)
    <3>1. <<"ask">> \in Seq(Items) /\ <<"final">> \in Seq(Items)
      BY DEF Items
    <3> QED BY <1>2, <3>1, ConversationAssumption DEF PlainText, Objects, turn
  <2>3. CASE reply' = reply
    <3>1. reply = <<>>
      BY <2>1 DEF StreamInv, Phases
    <3> QED BY <2>1, <2>3, <3>1, BetweenTold
  <2> QED BY <2>1, <2>2, <2>3, ActsTold
<1>3. CASE EndStream
  <2>1. phase = "stream" /\ UNCHANGED <<numbering, turns, history>>
    BY <1>3 DEF EndStream, model
  <2> QED BY <1>3, <2>1, EndStreamActs, ActsTold
<1>4. CASE PassOver \/ Say \/ Stop \/ BadDelegate \/ Delegate \/ ChildTurn
  BY <1>4, IdleTold
<1>5. CASE ChildEnds
  BY <1>5, ChildTold
<1>6. CASE RunOne
  BY <1>6, OneTold
<1>7. CASE RunBatch
  BY <1>7, BatchRunTold
<1>8. CASE EndTurn
  <2>1. turns' = turns + 1 /\ reply' = <<>> /\ UNCHANGED <<numbering, history>>
    BY <1>8 DEF EndTurn, model
  <2> QED BY <2>1, BetweenTold
<1>9. CASE Hang \/ UNCHANGED vars
  <2>1. /\ UNCHANGED <<numbering, mode, turns, reply, calls, history, at, ran, ended>>
        /\ phase' = phase \/ phase' = "stuck"
    BY <1>9 DEF Hang, vars, model, known, stream, frames, turn
  <2>2. /\ \A e : Current(e)' <=> Current(e)
        /\ \A h : Owned(h)' <=> Owned(h)
        /\ \A e, a : CameTo(e, a)' <=> CameTo(e, a)
        /\ \A i : This(i)' = This(i) /\ (Displaced(i)' <=> Displaced(i))
        /\ native' <=> native
    BY <2>1, SameTurn
  <2>3. Tells(history, at)'
    BY <2>1, <2>2 DEF ToldInv, Kept, Tells
  <2>4. Kept'
    BY <2>1, <2>2, <2>3 DEF ToldInv, Kept
  <2>5. \A i : (IsRecorded(i)' <=> IsRecorded(i)) /\ (RunTold(i)' <=> RunTold(i))
    BY <2>1, <2>2 DEF IsRecorded, RunTold
  <2>6. RunsRecorded' /\ RunsTold'
    BY <2>1, <2>2, <2>5 DEF ToldInv, RunsRecorded, RunsTold
  <2> QED BY <2>4, <2>6 DEF ToldInv
<1> QED BY <1>1, <1>2, <1>3, <1>4, <1>5, <1>6, <1>7, <1>8, <1>9 DEF Next, Step

-----------------------------------------------------------------------------
(***************************************************************************)
(* The request.                                                            *)
(***************************************************************************)
\* What a request makes of the entry at k.
Put(k) ==
  CASE protocol = "chat" \/ ~Dropped(k) -> <<history[k]>>
    [] protocol = "messages" /\ Dropped(k) /\ history[k].is = "call" -> <<Hollow>>
    [] OTHER -> <<>>

\* A result is dropped with its call.
LEMMA DroppedTogether ==
  ASSUME history \in Seq(Entries), Paired(history), NEW k \in 1..Len(history), history[k].is = "call"
  PROVE  /\ k + 1 \in 1..Len(history) /\ history[k + 1].is = "result" /\ history[k + 1].id = history[k].id
         /\ Dropped(k) <=> Dropped(k + 1)
<1>1. /\ k + 1 \in 1..Len(history) /\ history[k + 1].is = "result" /\ history[k + 1].id = history[k].id
      /\ Len(history) \in Nat
  BY DEF Paired
<1>2. ASSUME Dropped(k) PROVE Dropped(k + 1)
  <2>1. PICK j \in 1..(k - 1) : history[j].is = "call" /\ history[j].id = history[k].id
    BY <1>2 DEF Dropped
  <2>2. j \in 1..Len(history)
    BY <1>1, <2>1
  <2>3. history[j + 1].is = "result" /\ history[j + 1].id = history[k].id
    BY <2>1, <2>2 DEF Paired
  <2>4. j + 1 \in 1..((k + 1) - 1)
    BY <2>1
  <2> QED BY <1>1, <1>2, <2>3, <2>4 DEF Dropped
<1>3. ASSUME Dropped(k + 1) PROVE Dropped(k)
  <2>1. PICK j \in 1..((k + 1) - 1) : history[j].is = "result" /\ history[j].id = history[k].id
    BY <1>1, <1>3 DEF Dropped
  <2>2. j \in 1..Len(history) /\ j # k
    BY <1>1, <2>1
  <2>3. j > 1 /\ history[j - 1].is = "call" /\ history[j - 1].id = history[k].id
    BY <2>1, <2>2 DEF Paired
  <2>4. j - 1 \in 1..(k - 1)
    BY <2>1, <2>2, <2>3
  <2> QED BY <1>1, <1>3, <2>3, <2>4 DEF Dropped
<1> QED BY <1>1, <1>2, <1>3

\* Each entry of a request is one of the history, in order, or hollow for a call.
LEMMA WireIs ==
  ASSUME history \in Seq(Entries)
  PROVE  \E part :
           /\ Len(Wire) \in Nat /\ DOMAIN Wire = 1..Len(Wire)
           /\ part \in [1..Len(Wire) -> 1..Len(history)]
           /\ \A k \in 1..Len(Wire) : Put(part[k]) # <<>> /\ Wire[k] = Put(part[k])[1]
           /\ \A k, l \in 1..Len(Wire) : part[l] = part[k] + 1 => l = k + 1
           /\ \A a \in 1..Len(history) : Put(a) # <<>> => \E k \in 1..Len(Wire) : part[k] = a
<1> DEFINE ss == [k \in 1..Len(history) |-> Put(k)]
           S == Entries \cup {Hollow}
           n == Len(history)
<1>1. n \in Nat /\ DOMAIN history = 1..n
  OBVIOUS
<1>2. ASSUME NEW k \in 1..n
      PROVE  Put(k) \in Seq(S) /\ (Put(k) = <<>> \/ Len(Put(k)) = 1)
  <2>1. history[k] \in S /\ Hollow \in S
    BY <1>2
  <2>2. Put(k) = <<history[k]>> \/ Put(k) = <<Hollow>> \/ Put(k) = <<>>
    BY DEF Put
  <2>3. \A x \in S : <<x>> \in Seq(S) /\ Len(<<x>>) = 1
    <3> HIDE DEF S
    <3> QED OBVIOUS
  <2>4. <<>> \in Seq(S)
    OBVIOUS
  <2> HIDE DEF S, Put
  <2> QED BY <2>1, <2>2, <2>3, <2>4
<1>3. Wire = FlattenSeq(ss)
  BY <1>1 DEF Wire, Put
<1>4. ss \in Seq(Seq(S)) /\ Len(ss) = n
  <2> HIDE DEF S
  <2> QED BY <1>1, <1>2
<1> HIDE DEF ss, S
<1>5. Wire \in Seq(S) /\ \E part, place : Placed(Wire, ss, n, part, place)
  BY <1>3, <1>4, FlattenOrder
<1>6. PICK part, place : Placed(Wire, ss, n, part, place)
  BY <1>5
<1>7. Len(Wire) \in Nat /\ DOMAIN Wire = 1..Len(Wire)
  BY <1>5
<1>8. \A k \in 1..n : ss[k] = Put(k)
  BY DEF ss
<1> HIDE DEF n
<1>9. /\ part \in [1..Len(Wire) -> 1..n] /\ place \in [1..Len(Wire) -> Nat \ {0}]
      /\ \A k \in 1..Len(Wire) : place[k] \in 1..Len(ss[part[k]]) /\ Wire[k] = ss[part[k]][place[k]]
      /\ \A a \in 1..n : \A j \in 1..Len(ss[a]) : \E k \in 1..Len(Wire) : part[k] = a /\ place[k] = j
  BY <1>6 DEF Placed
<1>10. ASSUME NEW k \in 1..Len(Wire)
       PROVE  Put(part[k]) # <<>> /\ Wire[k] = Put(part[k])[1] /\ place[k] = 1 /\ part[k] \in 1..n
  <2>1. part[k] \in 1..n /\ place[k] \in 1..Len(Put(part[k])) /\ Wire[k] = Put(part[k])[place[k]]
    BY <1>8, <1>9
  <2>2. Put(part[k]) # <<>>
    BY <2>1
  <2>3. Len(Put(part[k])) = 1
    BY <1>2, <2>1, <2>2 DEF n
  <2> QED BY <2>1, <2>2, <2>3
<1>11. ASSUME NEW k \in 1..Len(Wire), NEW l \in 1..Len(Wire), part[l] = part[k] + 1
       PROVE  l = k + 1
  <2>1. \A m \in 1..Len(Wire) : part[m] \in Nat /\ place[m] = 1
    BY <1>1, <1>10 DEF n
  <2>2. \A m \in 1..Len(Wire) :
          ~ /\ part[k] < part[m] \/ (part[k] = part[m] /\ place[k] < place[m])
            /\ part[m] < part[l] \/ (part[m] = part[l] /\ place[m] < place[l])
    BY <1>11, <2>1
  <2>3. part[k] < part[l] \/ (part[k] = part[l] /\ place[k] < place[l])
    BY <1>11, <2>1
  <2>4. n \in Nat
    BY <1>1 DEF n
  <2> QED BY <1>6, <1>7, <2>2, <2>3, <2>4, PlacesFollow
<1>12. ASSUME NEW a \in 1..n, Put(a) # <<>> PROVE \E k \in 1..Len(Wire) : part[k] = a
  <2>1. Len(ss[a]) = 1
    BY <1>2, <1>8, <1>12 DEF n
  <2>2. 1 \in 1..Len(ss[a])
    BY <2>1
  <2> QED BY <1>9, <2>2
<1>13. part \in [1..Len(Wire) -> 1..Len(history)]
  BY <1>9 DEF n
<1>14. \A k \in 1..Len(Wire) : Put(part[k]) # <<>> /\ Wire[k] = Put(part[k])[1]
  BY <1>10
<1>15. \A k, l \in 1..Len(Wire) : part[l] = part[k] + 1 => l = k + 1
  BY <1>11
<1>16. \A a \in 1..Len(history) : Put(a) # <<>> => \E k \in 1..Len(Wire) : part[k] = a
  BY <1>12 DEF n
<1> QED BY <1>7, <1>13, <1>14, <1>15, <1>16

\* What a request shows of an entry that is not dropped.
LEMMA PutIs ==
  ASSUME history \in Seq(Entries), NEW k \in 1..Len(history)
  PROVE  /\ protocol = "chat" \/ ~Dropped(k) => Put(k) # <<>> /\ Put(k)[1] = history[k]
         /\ Put(k) # <<>> =>
              \/ (protocol = "chat" \/ ~Dropped(k)) /\ Put(k)[1] = history[k]
              \/ Put(k)[1].is = "hollow" /\ Dropped(k) /\ history[k].is = "call"
<1>1. \A x : <<x>> # <<>> /\ <<x>>[1] = x
  OBVIOUS
<1>2. Hollow.is = "hollow"
  BY DEF Hollow
<1> QED BY <1>1, <1>2 DEF Put

\* The pairs of the history are the pairs of the request.
LEMMA PairsTold ==
  ASSUME StreamInv, ToldInv
  PROVE  PairsMatch
<1>1. history \in Seq(Entries) /\ Paired(history) /\ Owned(history) /\ Len(history) \in Nat
      /\ (numbering # "repeated" => IdsUnique(history))
  BY DEF ToldInv, Kept, Tells
<1>2. PICK part :
        /\ Len(Wire) \in Nat /\ DOMAIN Wire = 1..Len(Wire)
        /\ part \in [1..Len(Wire) -> 1..Len(history)]
        /\ \A k \in 1..Len(Wire) : Put(part[k]) # <<>> /\ Wire[k] = Put(part[k])[1]
        /\ \A k, l \in 1..Len(Wire) : part[l] = part[k] + 1 => l = k + 1
        /\ \A a \in 1..Len(history) : Put(a) # <<>> => \E k \in 1..Len(Wire) : part[k] = a
  BY <1>1, WireIs
<1> DEFINE W == Wire
           n == Len(W)
<1> HIDE DEF W
<1>3. ASSUME NEW k \in 1..n
      PROVE  /\ part[k] \in 1..Len(history)
             /\ \/ (protocol = "chat" \/ ~Dropped(part[k])) /\ W[k] = history[part[k]]
                \/ W[k].is = "hollow" /\ Dropped(part[k]) /\ history[part[k]].is = "call"
  <2>1. part[k] \in 1..Len(history) /\ Put(part[k]) # <<>> /\ W[k] = Put(part[k])[1]
    BY <1>2 DEF W
  <2> QED BY <1>1, <2>1, PutIs
<1>4. \A k \in 1..Len(history) : history[k].is \in {"call", "result", "note"}
  <2> SUFFICES ASSUME NEW k \in 1..Len(history) PROVE history[k].is \in {"call", "result", "note"}
    OBVIOUS
  <2>1. history[k] \in Entries
    BY <1>1
  <2> QED BY <2>1 DEF Entries
<1>5. ASSUME NEW a \in 1..Len(history), protocol = "chat" \/ ~Dropped(a)
      PROVE  \E k \in 1..n : part[k] = a /\ W[k] = history[a]
  <2>1. Put(a) # <<>> /\ Put(a)[1] = history[a]
    BY <1>1, <1>5, PutIs
  <2>2. PICK k \in 1..n : part[k] = a
    BY <1>2, <2>1 DEF W
  <2>3. W[k] = Put(part[k])[1]
    BY <1>2 DEF W
  <2> QED BY <2>1, <2>2, <2>3
<1>6. n \in Nat /\ DOMAIN W = 1..n /\ \A k, l \in 1..n : part[l] = part[k] + 1 => l = k + 1
  BY <1>2 DEF W
<1>7. ASSUME NEW k \in 1..n, W[k].is = "call"
      PROVE  k + 1 \in 1..n /\ W[k + 1].is = "result" /\ W[k + 1].id = W[k].id
  <2> DEFINE a == part[k]
  <2>1. /\ a \in 1..Len(history) /\ (protocol = "chat" \/ ~Dropped(a)) /\ W[k] = history[a]
        /\ history[a].is = "call"
    BY <1>3, <1>7
  <2>2. /\ a + 1 \in 1..Len(history) /\ history[a + 1].is = "result" /\ history[a + 1].id = history[a].id
        /\ Dropped(a) <=> Dropped(a + 1)
    BY <1>1, <2>1, DroppedTogether
  <2>3. PICK l \in 1..n : part[l] = a + 1 /\ W[l] = history[a + 1]
    BY <1>5, <2>1, <2>2
  <2>4. l = k + 1
    BY <1>6, <2>3
  <2> QED BY <2>1, <2>2, <2>3, <2>4
<1>8. ASSUME NEW k \in 1..n, W[k].is = "result"
      PROVE  /\ k - 1 \in 1..n /\ W[k - 1].is = "call" /\ W[k - 1].id = W[k].id
             /\ W[k].of[1] = turns =>
                  \/ W[k].of = W[k - 1].of
                  \/ \E i \in 1..Len(reply) : W[k].of = This(i) /\ Displaced(i)
                  \/ numbering = "repeated"
  <2> DEFINE a == part[k]
  <2>1. /\ a \in 1..Len(history) /\ (protocol = "chat" \/ ~Dropped(a)) /\ W[k] = history[a]
        /\ history[a].is = "result"
    BY <1>3, <1>8
  <2>2. a - 1 \in 1..Len(history) /\ history[a - 1].is = "call" /\ history[a - 1].id = history[a].id
    BY <1>1, <2>1 DEF Paired
  <2>3. Dropped(a - 1) <=> Dropped(a)
    <3>1. (a - 1) + 1 = a
      BY <1>1, <2>1
    <3>2. Dropped(a - 1) <=> Dropped((a - 1) + 1)
      BY <1>1, <2>2, DroppedTogether
    <3> QED BY <3>1, <3>2
  <2>4. PICK l \in 1..n : part[l] = a - 1 /\ W[l] = history[a - 1]
    BY <1>5, <2>1, <2>2, <2>3
  <2>5. k = l + 1
    <3>1. part[k] = part[l] + 1
      BY <1>1, <2>1, <2>4
    <3> QED BY <1>6, <3>1
  <2>6. k - 1 = l
    BY <2>5
  <2>7. Current(history[a]) =>
          \/ history[a].of = history[a - 1].of
          \/ \E i \in 1..Len(reply) : history[a].of = This(i) /\ Displaced(i)
          \/ numbering = "repeated"
    BY <1>1, <2>1 DEF Owned
  <2>8. W[k].of[1] = turns => Current(history[a])
    BY <2>1 DEF Current
  <2> HIDE DEF a
  <2> QED BY <2>1, <2>2, <2>4, <2>6, <2>7, <2>8
<1>9. ASSUME NEW k \in 1..n, W[k].is = "hollow" PROVE numbering = "repeated"
  <2> DEFINE a == part[k]
  <2>1. a \in 1..Len(history) /\ Dropped(a) /\ history[a].is = "call"
    BY <1>3, <1>4, <1>9
  <2>2. PICK j \in 1..(a - 1) : history[j].is = "call" /\ history[j].id = history[a].id
    BY <2>1 DEF Dropped
  <2>3. j \in 1..Len(history) /\ j # a /\ history[a].id # NoId
    BY <1>1, <2>1, <2>2 DEF Dropped
  <2> QED BY <1>1, <2>1, <2>2, <2>3 DEF IdsUnique
<1>10. DOMAIN reply = 1..Len(reply)
  BY DEF StreamInv, ConvTypes
<1> QED BY <1>6, <1>7, <1>8, <1>9, <1>10 DEF PairsMatch, W

\* What the history tells is what was promised of it.
LEMMA ToldImplies == StreamInv /\ ToldInv => RequestsTellTheTruth
<1> SUFFICES ASSUME StreamInv, ToldInv, phase = "act", at > Len(reply)
             PROVE  PairsMatch /\ EveryRunIsTold
  BY DEF RequestsTellTheTruth
<1>1. PairsMatch
  BY PairsTold
<1>2. EveryRunIsTold
  <2> SUFFICES ASSUME NEW i \in DOMAIN ran, ran[i] > 0, numbering = "fresh"
               PROVE  \/ \E k \in DOMAIN history : history[k].is # "call" /\ history[k].of = This(i)
                      \/ reply[i] = "last" /\ ended = "answer"
                      \/ Plan(reply) = "parallel" /\ Displaced(i)
    BY DEF EveryRunIsTold
  <2>1. i \in 1..Len(reply)
    BY DEF StreamInv, ConvTypes
  <2>2. RunTold(i)
    BY <2>1 DEF ToldInv, RunsTold
  <2>3. DOMAIN history = 1..Len(history)
    BY DEF ToldInv, Kept, Tells
  <2> QED BY <2>2, <2>3 DEF RunTold
<1> QED BY <1>1, <1>2

(***************************************************************************)
(* At the end of every turn the history makes a request in which calls and *)
(* results come in pairs under one id, a result is that of its call, and   *)
(* every action that ran is told, but for the exceptions stated            *)
(* (run_react_loop, execute_parallel_batch,                                *)
(* map_history_to_responses_input, map_history_to_anthropic_messages).     *)
(***************************************************************************)
THEOREM RequestsAreTrue == Spec => []RequestsTellTheTruth
<1>1. Init => StreamInv /\ RunInv /\ ToldInv
  <2>1. Init => RunInv
    <3> SUFFICES ASSUME Init PROVE RunInv
      OBVIOUS
    <3>1. StreamInv /\ phase = "call" /\ reply = <<>>
      BY StreamInit DEF Init
    <3> QED BY <3>1 DEF StreamInv, RunInv, Delegating, RunsCounted
  <2> QED BY <2>1, StreamInit, ToldInit
<1>2. StreamInv /\ RunInv /\ ToldInv /\ [Next]_vars => (StreamInv /\ RunInv /\ ToldInv)'
  BY StreamStep, RunStep, ToldStep
<1>3. StreamInv /\ ToldInv => RequestsTellTheTruth
  BY ToldImplies
<1> QED BY <1>1, <1>2, <1>3, PTL DEF Spec
=============================================================================
