---------------------------- MODULE BrokerClient_proofs ----------------------------
(* A call of the broker client that met no other request reads the answers to its *)
(* own requests, and nobody waits for a box that nobody will fill, whatever the    *)
(* methods are that the two threads call, one after the other.                     *)
EXTENDS BrokerPattern, SequenceTheorems, TLAPS

ClientTypes ==
  /\ plan \in [Threads -> Seq(DOMAIN Program)]
  /\ call \in [Threads -> Nat \ {0}] /\ pc \in [Threads -> Nat \ {0}]
  /\ shared \in [Threads -> BOOLEAN]
  /\ DOMAIN asked = Threads /\ DOMAIN box = Boxes
  /\ \A t \in Threads : Running(t) => pc[t] \in DOMAIN Program[Method(t)]

\* A box is asked for by a request that the thread has passed in this call.
AskedInv ==
  \A t \in Threads : \A b \in DOMAIN asked[t] :
    /\ Running(t)
    /\ \E k \in 1..(pc[t] - 1) : asked[t][b] = <<t, call[t], k>> /\ b \in Asks(Method(t), k)

\* The message is an event, or answers a request of a call, which is not in the future
\* and, if it is in this call, is not younger than the latest for any of its boxes.
InTime(message) ==
  \A t \in Threads : \A c, k \in Nat :
    message.id = <<t, c, k>> =>
      /\ c <= call[t]
      /\ c = call[t] =>
           /\ Running(t) /\ k < pc[t]
           /\ \A b \in Writes(message) \ LateData :
                /\ b \in Asks(Method(t), k) /\ b \in DOMAIN asked[t]
                /\ k <= asked[t][b][3]
MessagesInv ==
  \A message \in OnTheWay :
    /\ message \in [id : Ids, left : Seq(Names)]
    /\ message.id = <<0, 0, 0>> => Writes(message) \subseteq EventBoxes \cup {"raise"}
    /\ InTime(message)

Knows(t) == Known[Method(t)][pc[t]]

\* What a call that met no other request may rely on, box by box.
IsClean(b) == box[b] = None /\ \A message \in OnTheWay : b \notin Writes(message)
Latest(t, b, id) == b \in DOMAIN asked[t] /\ id = asked[t][b]
IsOwn(t, b) ==
  /\ box[b] # None => Latest(t, b, box[b])
  /\ \A message \in OnTheWay : b \in Writes(message) => Latest(t, b, message.id)
Alone(t) ==
  /\ \A b \in Knows(t).clean : IsClean(b)
  /\ \A b \in Knows(t).own : IsOwn(t, b)
  /\ \A b \in Knows(t).filled : box[b] # None
KnowsInv ==
  \A t \in Threads :
    Running(t) => Knows(t).asked \subseteq DOMAIN asked[t] /\ (~shared[t] => Alone(t))

AnswerInv == ClientTypes /\ AskedInv /\ MessagesInv /\ KnowsInv

\* What fills b is there or on its way, or somebody owes the request for it.
Coming(b) == box[b] # None \/ \E message \in OnTheWay : b \in Writes(message)
Owes(t) == IF Running(t) THEN Owed(Method(t), pc[t]) ELSE {}
Provided(b) == Coming(b) \/ \E u \in Threads : b \in Owes(u)

\* The message that raises fills nothing; the events of all calls, and what a call has
\* asked for and not emptied since, are to come.
RaisesAlone ==
  \A message \in OnTheWay : "raise" \in Writes(message) => Writes(message) \subseteq {"raise"}
EventsCome ==
  \A t \in Threads : \A n \in DOMAIN plan[t] :
    \A b \in BoxesOf[plan[t][n]] \cap EventBoxes : Coming(b)
DueComes ==
  \A t \in Threads : Running(t) =>
    \A b \in Knows(t).due : Provided(b) \/ (b \in EmptiedForNothing /\ shared[t])
ComingInv == RaisesAlone /\ (fault = "raises" => EventsCome /\ DueComes)

-----------------------------------------------------------------------------
(* What the programs have in common, instruction by instruction. *)

LEMMA ProgramShape ==
  ASSUME NEW m \in DOMAIN Program
  PROVE  Len(Program[m]) \in Nat \ {0} /\ DOMAIN Program[m] = 1..Len(Program[m])
  BY ProgramsAssumption

LEMMA InstructionShape ==
  ASSUME NEW m \in DOMAIN Program, NEW n \in DOMAIN Program[m]
  PROVE  InstructionFits(Program[m][n]) /\ EventsAreLeft(Program[m][n]) /\ Follows(m, n)
  BY ProgramsAssumption

LEMMA KnownShape ==
  ASSUME NEW m \in DOMAIN Program, NEW n \in DOMAIN Program[m]
  PROVE  Known[m][n] \in [asked : SUBSET (BoxesOf[m] \ LateData), due : SUBSET (BoxesOf[m] \ LateData),
                          clean : SUBSET (BoxesOf[m] \ LateData), own : SUBSET (BoxesOf[m] \ LateData),
                          filled : SUBSET (BoxesOf[m] \ LateData)]
  BY InstructionShape DEF Follows

LEMMA KnownAtFirst ==
  ASSUME NEW m \in DOMAIN Program
  PROVE  /\ Known[m][1].asked = {} /\ Known[m][1].due = {} /\ Known[m][1].clean = {}
         /\ Known[m][1].own = {} /\ Known[m][1].filled = {}
<1>1. 1 \in DOMAIN Program[m]
  BY ProgramShape
<1>2. Known[m][1] = Nothing
  BY <1>1, InstructionShape DEF Follows
<1>3. QED BY <1>2 DEF Nothing

LEMMA KnownAfter ==
  ASSUME NEW m \in DOMAIN Program, NEW n \in DOMAIN Program[m],
         NEW next \in Nexts(m, n), next \in DOMAIN Program[m]
  PROVE  /\ Known[m][next].asked \subseteq After(Known[m][n], m, n).asked
         /\ Known[m][next].due \subseteq After(Known[m][n], m, n).due
         /\ Known[m][next].clean \subseteq After(Known[m][n], m, n).clean
         /\ Known[m][next].own \subseteq After(Known[m][n], m, n).own
         /\ Known[m][next].filled \subseteq After(Known[m][n], m, n).filled
<1>1. Weaker(Known[m][next], After(Known[m][n], m, n))
  BY InstructionShape DEF Follows
<1>2. DOMAIN Nothing = {"asked", "due", "clean", "own", "filled"}
  BY DEF Nothing
<1>3. QED BY <1>1, <1>2 DEF Weaker

LEMMA AfterClear ==
  ASSUME NEW m \in DOMAIN Program, NEW n \in DOMAIN Program[m], Program[m][n].op = "clear"
  PROVE  /\ After(Known[m][n], m, n).asked = Known[m][n].asked
         /\ After(Known[m][n], m, n).due = Known[m][n].due \ Program[m][n].boxes
         /\ After(Known[m][n], m, n).clean
              = Known[m][n].clean \cup (Program[m][n].boxes \ Asks(m, n - 1))
         /\ After(Known[m][n], m, n).own = Known[m][n].own \cup Program[m][n].boxes
         /\ After(Known[m][n], m, n).filled = Known[m][n].filled \ Program[m][n].boxes
<1>1. After(Known[m][n], m, n) = Emptied(Known[m][n], Program[m][n].boxes, Asks(m, n - 1))
  BY DEF After, Waits
<1>2. QED BY <1>1, KnownShape DEF Emptied

LEMMA AfterSend ==
  ASSUME NEW m \in DOMAIN Program, NEW n \in DOMAIN Program[m], Program[m][n].op = "send"
  PROVE  /\ After(Known[m][n], m, n).asked = Known[m][n].asked \cup Asks(m, n)
         /\ After(Known[m][n], m, n).due = Known[m][n].due \cup Asks(m, n)
         /\ After(Known[m][n], m, n).clean = Known[m][n].clean \ Asks(m, n)
         /\ After(Known[m][n], m, n).own
              = (Known[m][n].own \ Asks(m, n)) \cup (Asks(m, n) \cap Known[m][n].clean)
         /\ After(Known[m][n], m, n).filled = Known[m][n].filled
<1>1. After(Known[m][n], m, n) = AskedFor(Known[m][n], Asks(m, n))
  BY DEF After, Waits
<1>2. QED BY <1>1, KnownShape DEF AskedFor

LEMMA AfterWait ==
  ASSUME NEW m \in DOMAIN Program, NEW n \in DOMAIN Program[m],
         Program[m][n].op \in Waits
  PROVE  /\ After(Known[m][n], m, n).asked = Known[m][n].asked
         /\ After(Known[m][n], m, n).due = Known[m][n].due
         /\ After(Known[m][n], m, n).clean = Known[m][n].clean
         /\ After(Known[m][n], m, n).own = Known[m][n].own
         /\ After(Known[m][n], m, n).filled = Known[m][n].filled \cup Program[m][n].boxes
<1>1. After(Known[m][n], m, n) = WaitedFor(Known[m][n], Program[m][n].boxes)
  BY DEF After, Waits
<1>2. QED BY <1>1, KnownShape DEF WaitedFor

LEMMA AfterOther ==
  ASSUME NEW m \in DOMAIN Program, NEW n \in DOMAIN Program[m],
         Program[m][n].op \in {"read", "maybe", "mayReturn", "again"}
  PROVE  After(Known[m][n], m, n) = Known[m][n]
  BY DEF After, Waits

-----------------------------------------------------------------------------
(* The state: types of what a thread is at, and what the other thread keeps. *)

LEMMA AtShape ==
  ASSUME ClientTypes, NEW t \in Threads, Running(t)
  PROVE  /\ Method(t) \in DOMAIN Program /\ pc[t] \in DOMAIN Program[Method(t)]
         /\ pc[t] \in Nat \ {0} /\ Len(Program[Method(t)]) \in Nat
         /\ DOMAIN Program[Method(t)] = 1..Len(Program[Method(t)])
<1>1. plan[t] \in Seq(DOMAIN Program) /\ call[t] \in Nat \ {0} /\ pc[t] \in Nat \ {0}
  BY DEF ClientTypes
<1>2. call[t] \in 1..Len(plan[t])
  BY <1>1 DEF Running
<1>3. Method(t) \in DOMAIN Program
  BY <1>1, <1>2 DEF Method
<1>4. QED BY <1>1, <1>3, ProgramShape DEF ClientTypes

\* A thread that relies on a box is in a call, and the box is one of its method's.
LEMMA ReliesInCall ==
  ASSUME ClientTypes, NEW t \in Threads, Running(t), NEW b,
         b \in Knows(t).asked \cup Knows(t).due \cup Knows(t).clean \cup Knows(t).own
               \cup Knows(t).filled
  PROVE  InCall(t) /\ b \in BoxesOf[Method(t)] /\ b \in Boxes /\ b \notin LateData
<1> DEFINE m == Method(t)
<1>1. m \in DOMAIN Program /\ pc[t] \in DOMAIN Program[m] /\ pc[t] \in Nat \ {0}
  BY AtShape
<1>2. b \in BoxesOf[m] \ LateData
  BY <1>1, KnownShape DEF Knows
<1>3. b \in Boxes
  BY <1>1, <1>2 DEF Boxes
<1>4. pc[t] # 1
  BY <1>1, KnownAtFirst DEF Knows
<1>5. QED BY <1>1, <1>2, <1>3, <1>4 DEF InCall

\* What a thread knows of its boxes stays true while nobody touches them.
LEMMA Untouched ==
  ASSUME NEW t \in Threads, Alone(t),
         asked'[t] = asked[t], Knows(t)' = Knows(t),
         \A b \in Knows(t).clean \cup Knows(t).own \cup Knows(t).filled :
           /\ box'[b] = box[b]
           /\ \A message \in OnTheWay' : b \in Writes(message) => message \in OnTheWay
  PROVE  Alone(t)'
<1>1. \A b \in Knows(t).clean : IsClean(b)'
  BY DEF Alone, IsClean
<1>2. \A b \in Knows(t).own : IsOwn(t, b)'
  BY DEF Alone, IsOwn, Latest
<1>3. \A b \in Knows(t).filled : box'[b] # None
  BY DEF Alone
<1>4. QED BY <1>1, <1>2, <1>3 DEF Alone

KnowsWell(t) ==
  Running(t) => Knows(t).asked \subseteq DOMAIN asked[t] /\ (~shared[t] => Alone(t))

\* A thread that does not move, while the step touches boxes, marks it, or keeps them.
LEMMA Bystander ==
  ASSUME ClientTypes, NEW u \in Threads, KnowsWell(u),
         plan' = plan, call'[u] = call[u], pc'[u] = pc[u], asked'[u] = asked[u],
         NEW boxes,
         ~shared'[u] => ~shared[u] /\ ~(InCall(u) /\ BoxesOf[Method(u)] \cap boxes # {}),
         \A b \in Boxes \ boxes : b \notin LateData =>
           /\ box'[b] = box[b]
           /\ \A message \in OnTheWay' : b \in Writes(message) => message \in OnTheWay
  PROVE  KnowsWell(u)'
<1>1. Running(u)' = Running(u) /\ Knows(u)' = Knows(u)
  BY DEF Running, Knows, Method
<1> SUFFICES ASSUME Running(u), ~shared'[u] PROVE Alone(u)'
  BY <1>1 DEF KnowsWell
<1>2. Alone(u)
  BY DEF KnowsWell
<1>3. \A b \in Knows(u).clean \cup Knows(u).own \cup Knows(u).filled :
         b \in Boxes \ boxes /\ b \notin LateData
  BY ReliesInCall
<1>4. QED BY <1>1, <1>2, <1>3, Untouched

-----------------------------------------------------------------------------
(* The next instruction, or the next call. *)

\* What a thread that runs moves by Continue.
LEMMA Moves ==
  ASSUME ClientTypes, NEW t \in Threads, Running(t), NEW next \in Nat, next > pc[t],
         Continue(t, next), plan' = plan
  PROVE  /\ call' \in [Threads -> Nat \ {0}] /\ pc' \in [Threads -> Nat \ {0}]
         /\ DOMAIN asked' = Threads
         /\ \A u \in Threads \ {t} : call'[u] = call[u] /\ pc'[u] = pc[u] /\ asked'[u] = asked[u]
         /\ Ending(t, next) => call'[t] = call[t] + 1 /\ pc'[t] = 1 /\ DOMAIN asked'[t] = {}
         /\ ~Ending(t, next) =>
              call'[t] = call[t] /\ pc'[t] = next /\ asked'[t] = asked[t]
              /\ next \in DOMAIN Program[Method(t)]
<1>1. /\ call[t] \in Nat \ {0} /\ pc[t] \in Nat \ {0} /\ next \in Nat \ {0}
      /\ Len(Program[Method(t)]) \in Nat
      /\ DOMAIN Program[Method(t)] = 1..Len(Program[Method(t)])
  BY AtShape DEF ClientTypes
<1>2. /\ call \in [Threads -> Nat \ {0}] /\ pc \in [Threads -> Nat \ {0}]
      /\ DOMAIN asked = Threads
  BY DEF ClientTypes
<1>3. CASE Ending(t, next)
  <2>1. /\ call' = [call EXCEPT ![t] = @ + 1] /\ pc' = [pc EXCEPT ![t] = 1]
        /\ asked' = [asked EXCEPT ![t] = [b \in {} |-> None]]
    BY <1>3 DEF Continue, Ending
  <2>2. QED BY <1>1, <1>2, <1>3, <2>1
<1>4. CASE ~Ending(t, next)
  <2>1. call' = call /\ asked' = asked /\ pc' = [pc EXCEPT ![t] = next]
    BY <1>4 DEF Continue, Ending
  <2>2. next <= Len(Program[Method(t)])
    BY <1>1, <1>4 DEF Ending
  <2>3. QED BY <1>1, <1>2, <1>4, <2>1, <2>2
<1>5. QED BY <1>3, <1>4

LEMMA MovesInBounds ==
  ASSUME ClientTypes, NEW t \in Threads, Running(t), NEW next \in Nat, next > pc[t],
         Continue(t, next), plan' = plan
  PROVE  \A u \in Threads : Running(u)' => pc'[u] \in DOMAIN Program[Method(u)']
<1> SUFFICES ASSUME NEW u \in Threads, Running(u)' PROVE pc'[u] \in DOMAIN Program[Method(u)']
  OBVIOUS
<1>1. CASE u # t
  BY <1>1, Moves DEF Running, Method, ClientTypes
<1>2. CASE u = t /\ ~Ending(t, next)
  BY <1>2, Moves DEF Method
<1>3. CASE u = t /\ Ending(t, next)
  <2>1. pc'[t] = 1 /\ call'[t] \in Nat \ {0} /\ plan'[t] \in Seq(DOMAIN Program)
    BY <1>3, Moves DEF ClientTypes
  <2>2. call'[t] \in 1..Len(plan'[t])
    BY <1>3, <2>1 DEF Running
  <2>3. Method(t)' \in DOMAIN Program
    BY <2>1, <2>2 DEF Method
  <2>4. QED BY <1>3, <2>1, <2>3, ProgramShape
<1>4. QED BY <1>1, <1>2, <1>3

LEMMA MovesAsked ==
  ASSUME ClientTypes, AskedInv, NEW t \in Threads, Running(t), NEW next \in Nat, next > pc[t],
         Continue(t, next), plan' = plan
  PROVE  AskedInv'
<1> SUFFICES ASSUME NEW u \in Threads, NEW b \in DOMAIN asked'[u]
             PROVE  /\ Running(u)'
                    /\ \E k \in 1..(pc'[u] - 1) :
                         asked'[u][b] = <<u, call'[u], k>> /\ b \in Asks(Method(u)', k)
  BY DEF AskedInv
<1>1. CASE u # t
  <2>1. call'[u] = call[u] /\ pc'[u] = pc[u] /\ asked'[u] = asked[u]
    BY <1>1, Moves
  <2>2. Running(u)' = Running(u) /\ Method(u)' = Method(u)
    BY <2>1 DEF Running, Method
  <2>3. QED BY <2>1, <2>2 DEF AskedInv
<1>2. CASE u = t
  <2>1. ~Ending(t, next)
    BY <1>2, Moves
  <2>2. call'[t] = call[t] /\ pc'[t] = next /\ asked'[t] = asked[t]
    BY <2>1, Moves
  <2>3. Running(t)' /\ Method(t)' = Method(t)
    BY <2>2 DEF Running, Method
  <2>4. PICK k \in 1..(pc[t] - 1) : asked[t][b] = <<t, call[t], k>> /\ b \in Asks(Method(t), k)
    BY <1>2, <2>2 DEF AskedInv
  <2>5. k \in 1..(next - 1)
    BY AtShape
  <2>6. QED BY <1>2, <2>2, <2>3, <2>4, <2>5
<1>3. QED BY <1>1, <1>2

LEMMA MovesInTime ==
  ASSUME ClientTypes, NEW t \in Threads, Running(t), NEW next \in Nat, next > pc[t],
         Continue(t, next), plan' = plan, NEW message, InTime(message)
  PROVE  InTime(message)'
<1> SUFFICES ASSUME NEW u \in Threads, NEW c \in Nat, NEW k \in Nat, message.id = <<u, c, k>>
             PROVE  /\ c <= call'[u]
                    /\ c = call'[u] =>
                         /\ Running(u)' /\ k < pc'[u]
                         /\ \A b \in Writes(message) \ LateData :
                              /\ b \in Asks(Method(u)', k) /\ b \in DOMAIN asked'[u]
                              /\ k <= asked'[u][b][3]
  BY DEF InTime, Writes
<1>1. /\ c <= call[u]
      /\ c = call[u] =>
           /\ Running(u) /\ k < pc[u]
           /\ \A b \in Writes(message) \ LateData :
                b \in Asks(Method(u), k) /\ b \in DOMAIN asked[u] /\ k <= asked[u][b][3]
  BY DEF InTime
<1>2. CASE call'[u] = call[u] /\ asked'[u] = asked[u] /\ pc'[u] >= pc[u]
  <2>1. Running(u)' = Running(u) /\ Method(u)' = Method(u)
    BY <1>2 DEF Running, Method
  <2>2. pc[u] \in Nat /\ pc'[u] \in Nat
    BY Moves DEF ClientTypes
  <2>3. QED BY <1>1, <1>2, <2>1, <2>2
<1>3. CASE u = t /\ Ending(t, next)
  <2>1. call'[u] = call[u] + 1 /\ call[u] \in Nat
    BY <1>3, Moves DEF ClientTypes
  <2>2. QED BY <1>1, <2>1
<1>4. QED BY <1>2, <1>3, Moves DEF ClientTypes

\* The types after such a step, whatever it does to the boxes it knows of.
LEMMA MovesTypes ==
  ASSUME ClientTypes, NEW t \in Threads, Running(t), NEW next \in Nat, next > pc[t],
         Continue(t, next), plan' = plan, shared' \in [Threads -> BOOLEAN], DOMAIN box' = Boxes
  PROVE  ClientTypes'
  BY Moves, MovesInBounds DEF ClientTypes

\* A thread between two calls relies on nothing.
LEMMA FreshKnowsWell ==
  ASSUME ClientTypes', NEW t \in Threads, pc'[t] = 1
  PROVE  KnowsWell(t)'
<1> SUFFICES ASSUME Running(t)' PROVE Knows(t).asked' \subseteq DOMAIN asked'[t] /\ Alone(t)'
  BY DEF KnowsWell
<1>1. plan'[t] \in Seq(DOMAIN Program) /\ call'[t] \in Nat \ {0}
  BY DEF ClientTypes
<1>2. Method(t)' \in DOMAIN Program
  BY <1>1 DEF Running, Method
<1>3. /\ Knows(t).asked' = {} /\ Knows(t).clean' = {} /\ Knows(t).own' = {} /\ Knows(t).filled' = {}
  BY <1>2, KnownAtFirst DEF Knows
<1>4. QED BY <1>3 DEF Alone

\* Steps that leave the boxes and the messages alone.
LEMMA QuietMove ==
  ASSUME AnswerInv, NEW t \in Threads, Running(t), NEW next \in Nat, next > pc[t],
         Continue(t, next), Stay(t, next), UNCHANGED <<plan, socketVars>>,
         ~Ending(t, next) =>
           LET known == Known[Method(t)][next]
           IN /\ known.asked \subseteq Knows(t).asked /\ known.clean \subseteq Knows(t).clean
              /\ known.own \subseteq Knows(t).own
              /\ ~shared[t] => \A b \in known.filled \ Knows(t).filled : box[b] # None
  PROVE  AnswerInv'
<1>1. plan' = plan /\ box' = box /\ OnTheWay' = OnTheWay
  BY DEF socketVars, OnTheWay
<1>2. ClientTypes /\ AskedInv /\ MessagesInv /\ KnowsInv
  BY DEF AnswerInv
<1>3. /\ shared' \in [Threads -> BOOLEAN]
      /\ \A u \in Threads \ {t} : shared'[u] = shared[u]
      /\ ~Ending(t, next) => shared'[t] = shared[t]
  BY <1>2 DEF ClientTypes, Stay
<1>4. ClientTypes'
  BY <1>1, <1>2, <1>3, MovesTypes DEF ClientTypes
<1>5. AskedInv'
  BY <1>1, <1>2, MovesAsked
<1>6. MessagesInv'
  BY <1>1, <1>2, MovesInTime DEF MessagesInv, Writes
<1>7. ASSUME NEW u \in Threads PROVE KnowsWell(u)'
  <2>1. KnowsWell(u)
    BY <1>2 DEF KnowsInv, KnowsWell
  <2>2. CASE u # t
    <3>1. call'[u] = call[u] /\ pc'[u] = pc[u] /\ asked'[u] = asked[u] /\ shared'[u] = shared[u]
      BY <1>1, <1>2, <1>3, <2>2, Moves
    <3>2. BoxesOf[Method(u)] \cap {} = {}
      OBVIOUS
    <3>3. QED BY ONLY <1>1, <1>2, <2>1, <3>1, <3>2, Bystander
  <2>3. CASE u = t /\ Ending(t, next)
    BY <1>1, <1>2, <1>4, <2>3, Moves, FreshKnowsWell
  <2>4. CASE u = t /\ ~Ending(t, next)
    <3>1. call'[t] = call[t] /\ pc'[t] = next /\ asked'[t] = asked[t] /\ shared'[t] = shared[t]
      BY <1>1, <1>2, <1>3, <2>4, Moves
    <3>2. Running(t)' /\ Knows(t)' = Known[Method(t)][next]
      BY <1>1, <3>1 DEF Running, Knows, Method
    <3>3. Knows(t)'.asked \subseteq DOMAIN asked'[t]
      BY <2>1, <2>4, <3>1, <3>2 DEF KnowsWell
    <3>4. ASSUME ~shared[t] PROVE Alone(t)'
      <4>1. Alone(t)
        BY <2>1, <2>4, <3>4 DEF KnowsWell
      <4>2. \A b \in Knows(t)'.clean : IsClean(b)'
        BY <1>1, <2>4, <3>2, <4>1 DEF Alone, IsClean, Writes
      <4>3. \A b \in Knows(t)'.own : IsOwn(t, b)'
        BY <1>1, <2>4, <3>1, <3>2, <4>1 DEF Alone, IsOwn, Latest, Writes
      <4>4. \A b \in Knows(t)'.filled : box'[b] # None
        BY <1>1, <2>4, <3>2, <3>4, <4>1 DEF Alone
      <4>5. QED BY <4>2, <4>3, <4>4 DEF Alone
    <3>5. QED BY <2>4, <3>1, <3>2, <3>3, <3>4 DEF KnowsWell
  <2>5. QED BY <2>2, <2>3, <2>4
<1>8. KnowsInv'
  BY <1>7 DEF KnowsInv, KnowsWell
<1>9. QED BY <1>4, <1>5, <1>6, <1>8 DEF AnswerInv

\* Steps of the websocket that fill no box; messages may be lost.
LEMMA QuietSocket ==
  ASSUME AnswerInv, UNCHANGED <<callVars, box>>, OnTheWay' \subseteq OnTheWay
  PROVE  AnswerInv'
<1>1. plan' = plan /\ call' = call /\ pc' = pc /\ asked' = asked /\ shared' = shared /\ box' = box
  BY DEF callVars
<1>2. ClientTypes /\ AskedInv /\ MessagesInv /\ KnowsInv
  BY DEF AnswerInv
<1>3. \A t \in Threads : Running(t)' = Running(t) /\ Method(t)' = Method(t) /\ Knows(t)' = Knows(t)
  BY <1>1 DEF Running, Method, Knows
<1>4. ClientTypes'
  BY <1>1, <1>2, <1>3 DEF ClientTypes
<1>5. AskedInv'
  BY <1>1, <1>2, <1>3 DEF AskedInv
<1>6. MessagesInv'
  <2>1. ASSUME NEW message, InTime(message) PROVE InTime(message)'
    BY <1>1, <1>3, <2>1 DEF InTime, Writes
  <2>2. QED BY <1>2, <2>1 DEF MessagesInv, Writes
<1>7. KnowsInv'
  <2>1. ASSUME NEW t \in Threads, Alone(t) PROVE Alone(t)'
    BY <1>1, <1>3, <2>1, Untouched
  <2>2. QED BY <1>1, <1>2, <1>3, <2>1 DEF KnowsInv
<1>8. QED BY <1>4, <1>5, <1>6, <1>7 DEF AnswerInv

-----------------------------------------------------------------------------
(* The steps of a thread that touch no box. *)

\* A call that met no other waits for no box but its own: of those that awaitTwo counts,
\* the others are empty.
LEMMA AnsweredAlone ==
  ASSUME AnswerInv, NEW t \in Threads, Running(t), Answered(At(t)), ~shared[t]
  PROVE  \A b \in At(t).boxes : box[b] # None
<1>1. CASE At(t).op # "awaitTwo"
  BY <1>1 DEF Answered
<1>2. CASE At(t).op = "awaitTwo"
  <2>1. Method(t) \in DOMAIN Program /\ pc[t] \in DOMAIN Program[Method(t)]
    BY AtShape DEF AnswerInv
  <2>2. /\ At(t).counts \ At(t).boxes \subseteq Knows(t).clean
        /\ \E b, c \in At(t).boxes : At(t).boxes = {b, c}
    BY <1>2, <2>1, InstructionShape DEF InstructionFits, Follows, At, Knows
  <2>3. \A b \in At(t).counts \ At(t).boxes : box[b] = None
    BY <2>2 DEF AnswerInv, KnowsInv, Alone, IsClean
  <2>4. PICK b, c \in At(t).counts : b # c /\ box[b] # None /\ box[c] # None
    BY <1>2 DEF Answered
  <2>5. At(t).boxes = {b, c}
    BY <2>2, <2>3, <2>4
  <2>6. QED BY <2>4, <2>5
<1>3. QED BY <1>1, <1>2

LEMMA AwakesKeeps ==
  ASSUME AnswerInv, NEW t \in Threads, Awakes(t)
  PROVE  AnswerInv'
<1> DEFINE m == Method(t)
           n == pc[t]
<1>1. /\ Running(t) /\ m \in DOMAIN Program /\ n \in DOMAIN Program[m]
      /\ n \in Nat /\ n + 1 \in Nat /\ n + 1 > n
  BY AtShape DEF AnswerInv, Awakes, Waiting, Doing
<1>2. Program[m][n].op \in Waits /\ Answered(At(t))
  BY DEF Awakes, Waiting, Doing, At, Waits
<1>3. ASSUME ~Ending(t, n + 1)
      PROVE  /\ Known[m][n + 1].asked \subseteq Knows(t).asked
             /\ Known[m][n + 1].clean \subseteq Knows(t).clean
             /\ Known[m][n + 1].own \subseteq Knows(t).own
             /\ ~shared[t] => \A b \in Known[m][n + 1].filled \ Knows(t).filled : box[b] # None
  <2>1. n + 1 \in DOMAIN Program[m] /\ n + 1 \in Nexts(m, n)
    BY <1>1, <1>3, ProgramShape DEF Ending, Nexts
  <2>2. ~shared[t] => \A b \in Program[m][n].boxes : box[b] # None
    BY <1>1, <1>2, AnsweredAlone DEF At
  <2>3. QED BY <1>1, <1>2, <2>1, <2>2, KnownAfter, AfterWait DEF Knows
<1>4. Continue(t, n + 1) /\ Stay(t, n + 1) /\ UNCHANGED <<plan, socketVars>>
  BY DEF Awakes
<1>5. QED BY <1>1, <1>3, <1>4, QuietMove

\* A call that ends on the way relies on nothing any more.
LEMMA ReturnKeeps ==
  ASSUME AnswerInv, NEW t \in Threads, Running(t),
         Continue(t, Len(Program[Method(t)]) + 1), Stay(t, Len(Program[Method(t)]) + 1),
         UNCHANGED <<plan, socketVars>>
  PROVE  AnswerInv'
<1> DEFINE next == Len(Program[Method(t)]) + 1
<1>1. next \in Nat /\ next > pc[t] /\ Ending(t, next)
  BY AtShape DEF AnswerInv, Ending
<1>2. QED BY <1>1, QuietMove

\* An instruction from which the program goes on without relying on more.
LEMMA GoesOn ==
  ASSUME AnswerInv, NEW t \in Threads, Running(t), At(t).op \in {"read", "maybe", "mayReturn", "again"},
         NEW next \in Nexts(Method(t), pc[t]), next \in Nat, next > pc[t],
         Continue(t, next), Stay(t, next), UNCHANGED <<plan, socketVars>>
  PROVE  AnswerInv'
<1> DEFINE m == Method(t)
           n == pc[t]
<1>1. m \in DOMAIN Program /\ n \in DOMAIN Program[m] /\ n \in Nat
  BY AtShape DEF AnswerInv
<1>2. ASSUME ~Ending(t, next)
      PROVE  /\ Known[m][next].asked \subseteq Knows(t).asked
             /\ Known[m][next].clean \subseteq Knows(t).clean
             /\ Known[m][next].own \subseteq Knows(t).own
             /\ \A b \in Known[m][next].filled \ Knows(t).filled : box[b] # None
  <2>1. next \in DOMAIN Program[m]
    BY <1>1, <1>2, ProgramShape DEF Ending
  <2>2. QED BY <1>1, <2>1, KnownAfter, AfterOther DEF Knows, At
<1>3. QED BY <1>2, QuietMove

LEMMA ReadsKeeps ==
  ASSUME AnswerInv, NEW t \in Threads, Reads(t)
  PROVE  AnswerInv'
<1>1. Running(t) /\ At(t).op = "read"
  BY DEF Reads, Doing
<1>2. pc[t] \in Nat
  BY <1>1, AtShape DEF AnswerInv
<1>3. pc[t] + 1 \in Nexts(Method(t), pc[t]) /\ pc[t] + 1 \in Nat /\ pc[t] + 1 > pc[t]
  BY <1>2 DEF Nexts
<1>4. QED BY <1>1, <1>3, GoesOn DEF Reads

LEMMA BranchesKeeps ==
  ASSUME AnswerInv, NEW t \in Threads, Branches(t)
  PROVE  AnswerInv'
<1>1. Running(t) /\ At(t).op \in {"maybe", "mayReturn", "again"} /\ UNCHANGED <<plan, socketVars>>
  BY DEF Branches, Doing
<1>2. /\ Method(t) \in DOMAIN Program /\ pc[t] \in DOMAIN Program[Method(t)] /\ pc[t] \in Nat
  BY <1>1, AtShape DEF AnswerInv
<1>3. At(t).skip \in Nat
  BY <1>2, InstructionShape DEF InstructionFits, At
<1>4. CASE At(t).op = "maybe"
  <2>1. PICK next \in {pc[t] + 1, pc[t] + 1 + At(t).skip} : Continue(t, next) /\ Stay(t, next)
    BY <1>4 DEF Branches, Doing
  <2>2. next \in Nexts(Method(t), pc[t]) /\ next \in Nat /\ next > pc[t]
    BY <1>2, <1>3, <1>4 DEF Nexts, At
  <2>3. QED BY <1>1, <2>1, <2>2, GoesOn
<1>5. CASE At(t).op = "mayReturn"
  <2>1. PICK next \in {pc[t] + 1, Len(Program[Method(t)]) + 1} : Continue(t, next) /\ Stay(t, next)
    BY <1>5 DEF Branches, Doing
  <2>2. CASE next = pc[t] + 1
    <3>1. next \in Nexts(Method(t), pc[t]) /\ next \in Nat /\ next > pc[t]
      BY <1>2, <2>2 DEF Nexts
    <3>2. QED BY <1>1, <2>1, <3>1, GoesOn
  <2>3. CASE next = Len(Program[Method(t)]) + 1
    BY <1>1, <2>1, <2>3, ReturnKeeps
  <2>4. QED BY <2>2, <2>3
<1>6. CASE At(t).op = "again"
  <2>1. Continue(t, pc[t] + 1) /\ Stay(t, pc[t] + 1)
    BY <1>6 DEF Branches, Doing
  <2>2. pc[t] + 1 \in Nexts(Method(t), pc[t]) /\ pc[t] + 1 \in Nat /\ pc[t] + 1 > pc[t]
    BY <1>2 DEF Nexts
  <2>3. QED BY <1>1, <2>1, <2>2, GoesOn
<1>7. QED BY <1>1, <1>4, <1>5, <1>6

\* One more turn of a loop: the plan grows behind the call that ends, and nowhere else.
LEMMA Turns ==
  ASSUME ClientTypes, NEW t \in Threads, Repeats(t)
  PROVE  /\ Running(t) /\ Repeating(At(t)) /\ UNCHANGED socketVars
         /\ plan' \in [Threads -> Seq(DOMAIN Program)]
         /\ \A n \in DOMAIN plan'[t] :
              plan'[t][n] = At(t).method \/ \E k \in DOMAIN plan[t] : plan'[t][n] = plan[t][k]
         /\ call' = [call EXCEPT ![t] = @ + 1] /\ pc' = [pc EXCEPT ![t] = 1]
         /\ asked' = [asked EXCEPT ![t] = [b \in {} |-> None]]
         /\ shared' = [shared EXCEPT ![t] = FALSE]
         /\ \A u \in Threads \ {t} : plan'[u] = plan[u]
<1> DEFINE m == At(t).method
           before == SubSeq(plan[t], 1, call[t])
           behind == SubSeq(plan[t], call[t] + 1, Len(plan[t]))
           front == before \o <<m>>
           longer == front \o behind
<1>1. Running(t) /\ Repeating(At(t)) /\ UNCHANGED socketVars
  BY DEF Repeats, Repeating, Doing
<1>2. /\ Method(t) \in DOMAIN Program /\ pc[t] \in DOMAIN Program[Method(t)]
      /\ plan \in [Threads -> Seq(DOMAIN Program)] /\ plan[t] \in Seq(DOMAIN Program)
      /\ call[t] \in Nat \ {0} /\ Len(plan[t]) \in Nat /\ call[t] \in 1..Len(plan[t])
      /\ Len(Program[Method(t)]) \in Nat
  BY <1>1, AtShape DEF ClientTypes, Running
<1>3. m \in DOMAIN Program
  BY <1>1, <1>2, InstructionShape DEF Follows, At
<1>4. /\ before \in Seq(DOMAIN Program) /\ Len(before) = call[t]
      /\ \A n \in 1..call[t] : before[n] = plan[t][n]
  BY <1>2, SubSeqProperties
<1>5. /\ behind \in Seq(DOMAIN Program) /\ Len(behind) = Len(plan[t]) - call[t]
      /\ \A n \in 1..(Len(plan[t]) - call[t]) : behind[n] = plan[t][call[t] + n]
  BY <1>2, SubSeqProperties
<1>6. <<m>> \in Seq(DOMAIN Program) /\ Len(<<m>>) = 1 /\ <<m>>[1] = m
  BY <1>3
<1> HIDE DEF m, before, behind
<1>7. /\ front \in Seq(DOMAIN Program) /\ Len(front) = call[t] + 1
      /\ \A n \in 1..(call[t] + 1) : front[n] = IF n <= call[t] THEN plan[t][n] ELSE m
  BY <1>2, <1>4, <1>6, ConcatProperties
<1> HIDE DEF front
<1>8. /\ longer \in Seq(DOMAIN Program) /\ Len(longer) = Len(plan[t]) + 1
      /\ \A n \in 1..(Len(plan[t]) + 1) :
           longer[n] = IF n <= call[t] + 1 THEN front[n] ELSE behind[n - (call[t] + 1)]
  <2>1. /\ front \o behind \in Seq(DOMAIN Program)
        /\ Len(front \o behind) = Len(front) + Len(behind)
        /\ \A n \in 1..(Len(front) + Len(behind)) :
             (front \o behind)[n] = IF n <= Len(front) THEN front[n] ELSE behind[n - Len(front)]
    BY <1>5, <1>7, ConcatProperties
  <2>2. Len(front) + Len(behind) = Len(plan[t]) + 1
    BY <1>2, <1>5, <1>7
  <2>3. QED BY <1>7, <2>1, <2>2
<1> HIDE DEF longer
<1>9. ASSUME NEW n \in DOMAIN longer
      PROVE  longer[n] = m \/ \E k \in DOMAIN plan[t] : longer[n] = plan[t][k]
  <2>1. n \in 1..(Len(plan[t]) + 1) /\ DOMAIN plan[t] = 1..Len(plan[t])
    BY <1>2, <1>8
  <2>2. CASE n <= call[t]
    BY <1>2, <1>7, <1>8, <2>1, <2>2
  <2>3. CASE n = call[t] + 1
    <3>1. n \in 1..(call[t] + 1) /\ n <= call[t] + 1 /\ ~(n <= call[t])
      BY <1>2, <2>3
    <3>2. front[n] = m
      BY <1>7, <3>1
    <3>3. longer[n] = front[n]
      BY <1>8, <2>1, <3>1
    <3>4. QED BY <3>2, <3>3
  <2>4. CASE n > call[t] + 1
    <3>1. n - 1 \in DOMAIN plan[t] /\ n - (call[t] + 1) \in 1..(Len(plan[t]) - call[t])
      BY <1>2, <2>1, <2>4
    <3>2. longer[n] = plan[t][call[t] + (n - (call[t] + 1))]
      BY <1>2, <1>5, <1>8, <2>1, <2>4, <3>1
    <3>3. call[t] + (n - (call[t] + 1)) = n - 1
      BY <1>2, <2>1
    <3>4. QED BY <3>1, <3>2, <3>3
  <2>5. QED BY <1>2, <2>1, <2>2, <2>3, <2>4
<1>10. plan' = [plan EXCEPT ![t] = longer]
  BY DEF Repeats, m, before, behind, front, longer
<1>11. plan'[t] = longer /\ plan' \in [Threads -> Seq(DOMAIN Program)]
       /\ \A u \in Threads \ {t} : plan'[u] = plan[u]
  BY <1>2, <1>8, <1>10
<1>12. Len(Program[Method(t)]) + 1 > Len(Program[Method(t)])
  BY <1>2
<1>13. /\ call' = [call EXCEPT ![t] = @ + 1] /\ pc' = [pc EXCEPT ![t] = 1]
       /\ asked' = [asked EXCEPT ![t] = [b \in {} |-> None]]
  BY <1>12 DEF Repeats, Continue
<1>14. shared' = [shared EXCEPT ![t] = FALSE]
  BY <1>12 DEF Repeats, Stay, Ending
<1>15. QED BY <1>1, <1>9, <1>11, <1>13, <1>14 DEF m

LEMMA RepeatsKeeps ==
  ASSUME AnswerInv, NEW t \in Threads, Repeats(t)
  PROVE  AnswerInv'
<1>1. ClientTypes /\ AskedInv /\ MessagesInv /\ KnowsInv
  BY DEF AnswerInv
<1>2. /\ Running(t) /\ box' = box /\ OnTheWay' = OnTheWay
      /\ plan' \in [Threads -> Seq(DOMAIN Program)]
      /\ call' \in [Threads -> Nat \ {0}] /\ pc' \in [Threads -> Nat \ {0}]
      /\ shared' \in [Threads -> BOOLEAN] /\ DOMAIN asked' = Threads
      /\ call'[t] = call[t] + 1 /\ pc'[t] = 1 /\ DOMAIN asked'[t] = {}
      /\ \A u \in Threads \ {t} :
           /\ plan'[u] = plan[u] /\ call'[u] = call[u] /\ pc'[u] = pc[u]
           /\ asked'[u] = asked[u] /\ shared'[u] = shared[u]
  <2>1. /\ Running(t) /\ UNCHANGED socketVars
        /\ plan' \in [Threads -> Seq(DOMAIN Program)]
        /\ call' = [call EXCEPT ![t] = @ + 1] /\ pc' = [pc EXCEPT ![t] = 1]
        /\ asked' = [asked EXCEPT ![t] = [b \in {} |-> None]]
        /\ shared' = [shared EXCEPT ![t] = FALSE]
        /\ \A u \in Threads \ {t} : plan'[u] = plan[u]
    BY <1>1, Turns
  <2>2. box' = box /\ OnTheWay' = OnTheWay
    BY <2>1 DEF socketVars, OnTheWay
  <2>3. /\ call \in [Threads -> Nat \ {0}] /\ pc \in [Threads -> Nat \ {0}]
        /\ shared \in [Threads -> BOOLEAN] /\ DOMAIN asked = Threads
    BY <1>1 DEF ClientTypes
  <2>4. /\ call' \in [Threads -> Nat \ {0}] /\ pc' \in [Threads -> Nat \ {0}]
        /\ call'[t] = call[t] + 1 /\ pc'[t] = 1
        /\ \A u \in Threads \ {t} : call'[u] = call[u] /\ pc'[u] = pc[u]
    BY <2>1, <2>3
  <2>5. /\ shared' \in [Threads -> BOOLEAN]
        /\ \A u \in Threads \ {t} : shared'[u] = shared[u]
    BY <2>1, <2>3
  <2>6. /\ DOMAIN asked' = Threads /\ DOMAIN asked'[t] = {}
        /\ \A u \in Threads \ {t} : asked'[u] = asked[u]
    BY <2>1, <2>3
  <2>7. QED BY <2>1, <2>2, <2>4, <2>5, <2>6
<1>3. \A u \in Threads \ {t} :
        Running(u)' = Running(u) /\ Method(u)' = Method(u) /\ Knows(u)' = Knows(u)
  BY <1>2 DEF Running, Method, Knows
<1>4. ClientTypes'
  <2>1. ASSUME NEW u \in Threads, Running(u)' PROVE pc'[u] \in DOMAIN Program[Method(u)']
    <3>1. CASE u # t
      BY <1>1, <1>2, <1>3, <2>1, <3>1 DEF ClientTypes
    <3>2. CASE u = t
      <4>1. plan'[t] \in Seq(DOMAIN Program) /\ call'[t] \in 1..Len(plan'[t])
        BY <1>2, <2>1, <3>2 DEF Running
      <4>2. Method(t)' \in DOMAIN Program
        BY <4>1 DEF Method
      <4>3. QED BY <1>2, <3>2, <4>2, ProgramShape
    <3>3. QED BY <3>1, <3>2
  <2>2. QED BY <1>1, <1>2, <2>1 DEF ClientTypes
<1>5. AskedInv'
  <2> SUFFICES ASSUME NEW u \in Threads, NEW b \in DOMAIN asked'[u]
               PROVE  /\ Running(u)'
                      /\ \E k \in 1..(pc'[u] - 1) :
                           asked'[u][b] = <<u, call'[u], k>> /\ b \in Asks(Method(u)', k)
    BY DEF AskedInv
  <2>1. u # t
    BY <1>2
  <2>2. QED BY <1>1, <1>2, <1>3, <2>1 DEF AskedInv
<1>6. MessagesInv'
  <2>1. ASSUME NEW message, InTime(message) PROVE InTime(message)'
    <3> SUFFICES ASSUME NEW u \in Threads, NEW c \in Nat, NEW k \in Nat, message.id = <<u, c, k>>
                 PROVE  /\ c <= call'[u]
                        /\ c = call'[u] =>
                             /\ Running(u)' /\ k < pc'[u]
                             /\ \A b \in Writes(message) \ LateData :
                                  /\ b \in Asks(Method(u)', k) /\ b \in DOMAIN asked'[u]
                                  /\ k <= asked'[u][b][3]
      BY DEF InTime, Writes
    <3>1. /\ c <= call[u]
          /\ c = call[u] =>
               /\ Running(u) /\ k < pc[u]
               /\ \A b \in Writes(message) \ LateData :
                    b \in Asks(Method(u), k) /\ b \in DOMAIN asked[u] /\ k <= asked[u][b][3]
      BY <2>1 DEF InTime
    <3>2. CASE u # t
      BY <1>2, <1>3, <3>1, <3>2
    <3>3. CASE u = t
      <4>1. call[t] \in Nat
        BY <1>1 DEF ClientTypes
      <4>2. QED BY <1>2, <3>1, <3>3, <4>1
    <3>4. QED BY <3>2, <3>3
  <2>2. QED BY <1>1, <1>2, <2>1 DEF MessagesInv, Writes
<1>7. ASSUME NEW u \in Threads PROVE KnowsWell(u)'
  <2>1. CASE u # t
    <3>1. KnowsWell(u)
      BY <1>1 DEF KnowsInv, KnowsWell
    <3>2. ASSUME Alone(u) PROVE Alone(u)'
      BY <1>2, <1>3, <2>1, <3>2, Untouched
    <3>3. QED BY <1>2, <1>3, <2>1, <3>1, <3>2 DEF KnowsWell
  <2>2. CASE u = t
    BY <1>2, <1>4, <2>2, FreshKnowsWell
  <2>3. QED BY <2>1, <2>2
<1>8. KnowsInv'
  BY <1>7 DEF KnowsInv, KnowsWell
<1>9. QED BY <1>4, <1>5, <1>6, <1>8 DEF AnswerInv

-----------------------------------------------------------------------------
(* The steps of a thread that touch boxes. *)

LEMMA Shares ==
  ASSUME NEW t \in Threads, NEW boxes, NEW id, NEW next, ShareAt(t, boxes, id, next),
         shared \in [Threads -> BOOLEAN]
  PROVE  /\ shared' \in [Threads -> BOOLEAN]
         /\ \A u \in Threads \ {t} :
              ~shared'[u] => ~shared[u] /\ ~(InCall(u) /\ BoxesOf[Method(u)] \cap boxes # {})
         /\ ~shared'[t] /\ ~Ending(t, next) => ~shared[t] /\ ~Meets(t, boxes, id)
<1>1. shared' = [u \in Threads |->
         IF u = t THEN ~Ending(t, next) /\ (shared[t] \/ Meets(t, boxes, id))
                  ELSE shared[u] \/ (InCall(u) /\ BoxesOf[Method(u)] \cap boxes # {})]
  BY DEF ShareAt
<1>2. shared' \in [Threads -> BOOLEAN]
  BY <1>1
<1>3. ASSUME NEW u \in Threads \ {t}, ~shared'[u]
      PROVE  ~shared[u] /\ ~(InCall(u) /\ BoxesOf[Method(u)] \cap boxes # {})
  BY <1>1, <1>3
<1>4. ASSUME ~shared'[t], ~Ending(t, next) PROVE ~shared[t] /\ ~Meets(t, boxes, id)
  BY <1>1, <1>4
<1>5. QED BY <1>2, <1>3, <1>4

\* A message that is on the way when its box is emptied, and meets nobody, answers the
\* request that went out right before.
LEMMA ClearMeets ==
  ASSUME AnswerInv, NEW t \in Threads, Running(t), At(t).op = "clear",
         ~Meets(t, At(t).boxes, <<t, call[t], pc[t] - 1>>),
         NEW message \in OnTheWay, NEW b \in Writes(message), b \in At(t).boxes, b \notin LateData
  PROVE  b \in Asks(Method(t), pc[t] - 1) /\ Latest(t, b, message.id)
<1>1. /\ Method(t) \in DOMAIN Program /\ pc[t] \in DOMAIN Program[Method(t)]
      /\ pc[t] \in Nat \ {0} /\ call[t] \in Nat
  BY AtShape DEF AnswerInv, ClientTypes
<1>2. message.id \in {<<t, call[t], pc[t] - 1>>, <<0, 0, 0>>}
  BY DEF Meets
<1>3. b \notin EventBoxes \cup {"raise"}
  BY <1>1, InstructionShape DEF EventsAreLeft, At
<1>4. message.id = <<t, call[t], pc[t] - 1>>
  BY <1>2, <1>3 DEF AnswerInv, MessagesInv
<1>5. InTime(message) /\ pc[t] - 1 \in Nat
  BY <1>1 DEF AnswerInv, MessagesInv
<1>6. /\ b \in Asks(Method(t), pc[t] - 1) /\ b \in DOMAIN asked[t]
      /\ pc[t] - 1 <= asked[t][b][3]
  BY <1>1, <1>4, <1>5 DEF InTime
<1>7. PICK k \in 1..(pc[t] - 1) : asked[t][b] = <<t, call[t], k>>
  BY <1>6 DEF AnswerInv, AskedInv
<1>8. k = pc[t] - 1
  BY <1>1, <1>6, <1>7
<1>9. QED BY <1>4, <1>6, <1>7, <1>8 DEF Latest

LEMMA ClearsKeeps ==
  ASSUME AnswerInv, NEW t \in Threads, Clears(t)
  PROVE  AnswerInv'
<1> DEFINE m == Method(t)
           n == pc[t]
           boxes == At(t).boxes
<1>1. /\ Running(t) /\ At(t).op = "clear" /\ plan' = plan /\ OnTheWay' = OnTheWay
      /\ Continue(t, n + 1) /\ ShareAt(t, boxes, <<t, call[t], n - 1>>, n + 1)
      /\ box' = [b \in Boxes |-> IF b \in boxes THEN None ELSE box[b]]
  BY DEF Clears, Doing, OnTheWay
<1>2. ClientTypes /\ AskedInv /\ MessagesInv /\ KnowsInv
  BY DEF AnswerInv
<1>3. /\ m \in DOMAIN Program /\ n \in DOMAIN Program[m] /\ n \in Nat \ {0}
      /\ n + 1 \in Nat /\ n + 1 > n
  BY <1>1, <1>2, AtShape
<1>4. /\ shared' \in [Threads -> BOOLEAN]
      /\ \A u \in Threads \ {t} :
           ~shared'[u] => ~shared[u] /\ ~(InCall(u) /\ BoxesOf[Method(u)] \cap boxes # {})
      /\ ~shared'[t] /\ ~Ending(t, n + 1) =>
           ~shared[t] /\ ~Meets(t, boxes, <<t, call[t], n - 1>>)
  <2>1. shared \in [Threads -> BOOLEAN]
    BY <1>2 DEF ClientTypes
  <2>2. QED BY <1>1, <2>1, Shares
<1>5. ClientTypes'
  <2>1. DOMAIN box' = Boxes
    BY <1>1
  <2>2. QED BY <1>1, <1>2, <1>3, <1>4, <2>1, MovesTypes
<1>6. AskedInv'
  BY <1>1, <1>2, <1>3, MovesAsked
<1>7. MessagesInv'
  <2>1. \A message \in OnTheWay : InTime(message)'
    BY <1>1, <1>2, <1>3, MovesInTime DEF MessagesInv
  <2>2. QED BY <1>1, <1>2, <2>1 DEF MessagesInv, Writes
<1>8. ASSUME NEW u \in Threads PROVE KnowsWell(u)'
  <2>1. KnowsWell(u)
    BY <1>2 DEF KnowsInv, KnowsWell
  <2>2. CASE u # t
    <3>1. call'[u] = call[u] /\ pc'[u] = pc[u] /\ asked'[u] = asked[u]
      BY <1>1, <1>2, <1>3, <2>2, Moves
    <3>2. ~shared'[u] => ~shared[u] /\ ~(InCall(u) /\ BoxesOf[Method(u)] \cap boxes # {})
      BY <1>4, <2>2
    <3>3. \A b \in Boxes \ boxes : b \notin LateData =>
            /\ box'[b] = box[b]
            /\ \A message \in OnTheWay' : b \in Writes(message) => message \in OnTheWay
      BY <1>1
    <3> HIDE DEF boxes
    <3>4. QED BY ONLY <1>1, <1>2, <2>1, <3>1, <3>2, <3>3, Bystander
  <2>3. CASE u = t /\ Ending(t, n + 1)
    BY <1>1, <1>2, <1>3, <1>5, <2>3, Moves, FreshKnowsWell
  <2>4. CASE u = t /\ ~Ending(t, n + 1)
    <3>1. /\ call'[t] = call[t] /\ pc'[t] = n + 1 /\ asked'[t] = asked[t]
          /\ n + 1 \in DOMAIN Program[m] /\ n + 1 \in Nexts(m, n)
      BY <1>1, <1>2, <1>3, <2>4, Moves DEF Nexts
    <3>2. Running(t)' /\ Knows(t)' = Known[m][n + 1]
      BY <1>1, <3>1 DEF Running, Knows, Method
    <3>3. /\ Known[m][n + 1].asked \subseteq Knows(t).asked
          /\ Known[m][n + 1].clean \subseteq Knows(t).clean \cup (boxes \ Asks(m, n - 1))
          /\ Known[m][n + 1].own \subseteq Knows(t).own \cup boxes
          /\ Known[m][n + 1].filled \subseteq Knows(t).filled \ boxes
      BY <1>1, <1>3, <3>1, KnownAfter, AfterClear DEF Knows, At
    <3>4. \A b \in Known[m][n + 1].clean \cup Known[m][n + 1].own \cup Known[m][n + 1].filled :
            b \in Boxes /\ b \notin LateData
      BY <1>3, <3>1, KnownShape DEF Boxes
    <3>5. Knows(t)'.asked \subseteq DOMAIN asked'[t]
      BY <2>1, <2>4, <3>1, <3>2, <3>3, <1>1 DEF KnowsWell
    <3>6. ASSUME ~shared'[t] PROVE Alone(t)'
      <4>1. Alone(t) /\ ~Meets(t, boxes, <<t, call[t], n - 1>>)
        BY <1>1, <1>4, <2>1, <2>4, <3>6 DEF KnowsWell
      <4>2. ASSUME NEW b \in boxes \ LateData, NEW message \in OnTheWay, b \in Writes(message)
            PROVE  b \in Asks(m, n - 1) /\ Latest(t, b, message.id)
        BY <1>1, <4>1, <4>2, ClearMeets
      <4>3. \A b \in Boxes : box'[b] = IF b \in boxes THEN None ELSE box[b]
        BY <1>1
      <4>4. ASSUME NEW b \in Knows(t)'.clean PROVE IsClean(b)'
        <5>1. b \in Boxes /\ b \notin LateData
              /\ (b \in Knows(t).clean \/ b \in boxes \ Asks(m, n - 1))
          BY <3>2, <3>3, <3>4, <4>4
        <5>2. CASE b \in Knows(t).clean
          BY <1>1, <4>1, <4>3, <5>1, <5>2 DEF Alone, IsClean, Writes
        <5>3. CASE b \in boxes \ Asks(m, n - 1)
          BY <1>1, <4>2, <4>3, <5>1, <5>3 DEF IsClean, Writes
        <5>4. QED BY <5>1, <5>2, <5>3
      <4>5. ASSUME NEW b \in Knows(t)'.own PROVE IsOwn(t, b)'
        <5>1. b \in Boxes /\ b \notin LateData /\ (b \in Knows(t).own \/ b \in boxes)
          BY <3>2, <3>3, <3>4, <4>5
        <5>2. CASE b \in boxes
          BY <1>1, <3>1, <4>2, <4>3, <5>1, <5>2 DEF IsOwn, Latest, Writes
        <5>3. CASE b \notin boxes
          BY <1>1, <3>1, <4>1, <4>3, <5>1, <5>3 DEF Alone, IsOwn, Latest, Writes
        <5>4. QED BY <5>2, <5>3
      <4>6. \A b \in Knows(t)'.filled : box'[b] # None
        BY <3>2, <3>3, <3>4, <4>1, <4>3 DEF Alone
      <4>7. QED BY <4>4, <4>5, <4>6 DEF Alone
    <3>7. QED BY <2>4, <3>2, <3>5, <3>6 DEF KnowsWell
  <2>5. QED BY <2>2, <2>3, <2>4
<1>9. KnowsInv'
  BY <1>8 DEF KnowsInv, KnowsWell
<1>10. QED BY <1>5, <1>6, <1>7, <1>9 DEF AnswerInv

\* A request that goes out, first or again: the messages it brings.
Sent(t, id) == {[id |-> id, left |-> message] : message \in At(t).messages}

LEMMA SentShape ==
  ASSUME ClientTypes, NEW t \in Threads, Running(t),
         At(t).op = "send" \/ Resending(At(t)), NEW id \in Ids, NEW message \in Sent(t, id)
  PROVE  /\ message \in [id : Ids, left : Seq(Names)] /\ message.id = id
         /\ Writes(message) \subseteq Touched(At(t))
<1>1. PICK left \in At(t).messages : message = [id |-> id, left |-> left]
  BY DEF Sent
<1>2. InstructionFits(At(t))
  BY AtShape, InstructionShape DEF At
<1>3. left \in Seq(Names) /\ "messages" \in DOMAIN At(t)
  BY <1>1, <1>2 DEF InstructionFits, Resending
<1>4. Writes(message) = {left[n] : n \in DOMAIN left}
  BY <1>1 DEF Writes
<1>5. Writes(message) \subseteq Touched(At(t))
  BY <1>1, <1>3, <1>4 DEF Touched
<1>6. QED BY <1>1, <1>3, <1>5

LEMMA SendsKeeps ==
  ASSUME AnswerInv, NEW t \in Threads, Sends(t)
  PROVE  AnswerInv'
<1> DEFINE m == Method(t)
           n == pc[t]
           boxes == Touched(At(t))
           id == <<t, call[t], n>>
<1>1. /\ Running(t) /\ At(t).op = "send" /\ plan' = plan /\ call' = call /\ box' = box
      /\ ShareAt(t, boxes, id, n + 1)
      /\ OnTheWay' = OnTheWay \cup Sent(t, id)
      /\ pc' = [pc EXCEPT ![t] = n + 1]
      /\ asked' = [asked EXCEPT ![t] =
           [b \in DOMAIN asked[t] \cup boxes |-> IF b \in boxes THEN id ELSE asked[t][b]]]
  BY DEF Sends, Doing, OnTheWay, Sent
<1>2. ClientTypes /\ AskedInv /\ MessagesInv /\ KnowsInv
  BY DEF AnswerInv
<1>3. /\ m \in DOMAIN Program /\ n \in DOMAIN Program[m] /\ n \in Nat \ {0}
      /\ n + 1 \in Nat /\ n + 1 > n /\ call[t] \in Nat \ {0}
  BY <1>1, <1>2, AtShape DEF ClientTypes
<1>4. n + 1 \in DOMAIN Program[m] /\ n + 1 \in Nexts(m, n) /\ ~Ending(t, n + 1)
  <2>1. n < Len(Program[m])
    BY <1>1, <1>3, InstructionShape DEF Follows, At
  <2>2. QED BY <1>3, <2>1, ProgramShape DEF Nexts, Ending
<1>5. boxes = Asks(m, n) /\ boxes \cap (EventBoxes \cup {"raise"}) = {}
  BY <1>1, <1>3, InstructionShape DEF Asks, At, EventsAreLeft
<1>6. /\ shared' \in [Threads -> BOOLEAN]
      /\ \A u \in Threads \ {t} :
           ~shared'[u] => ~shared[u] /\ ~(InCall(u) /\ BoxesOf[Method(u)] \cap boxes # {})
      /\ ~shared'[t] => ~shared[t]
  <2>1. shared \in [Threads -> BOOLEAN]
    BY <1>2 DEF ClientTypes
  <2>2. QED BY <1>1, <1>4, <2>1, Shares
<1>7. /\ DOMAIN asked' = Threads /\ pc' \in [Threads -> Nat \ {0}] /\ pc'[t] = n + 1
      /\ \A u \in Threads \ {t} : asked'[u] = asked[u] /\ pc'[u] = pc[u]
      /\ DOMAIN asked'[t] = DOMAIN asked[t] \cup boxes
      /\ \A b \in boxes : asked'[t][b] = id
      /\ \A b \in DOMAIN asked[t] \ boxes : asked'[t][b] = asked[t][b]
  BY <1>1, <1>2, <1>3 DEF ClientTypes
<1>8. \A u \in Threads : Running(u)' = Running(u) /\ Method(u)' = Method(u)
  BY <1>1 DEF Running, Method
<1>9. id \in Ids /\ id # <<0, 0, 0>>
  BY <1>3 DEF Ids, Threads
<1>10. \A message \in Sent(t, id) :
         /\ message \in [id : Ids, left : Seq(Names)] /\ message.id = id
         /\ Writes(message) \subseteq boxes
  BY <1>1, <1>2, <1>9, SentShape
<1>11. ClientTypes'
  BY <1>1, <1>2, <1>3, <1>4, <1>6, <1>7, <1>8 DEF ClientTypes
<1>12. AskedInv'
  <2> SUFFICES ASSUME NEW u \in Threads, NEW b \in DOMAIN asked'[u]
               PROVE  /\ Running(u)'
                      /\ \E k \in 1..(pc'[u] - 1) :
                           asked'[u][b] = <<u, call'[u], k>> /\ b \in Asks(Method(u)', k)
    BY DEF AskedInv
  <2>1. CASE u # t
    BY <1>1, <1>2, <1>7, <1>8, <2>1 DEF AskedInv
  <2>2. CASE u = t /\ b \in boxes
    <3>1. n \in 1..(pc'[t] - 1)
      BY <1>3, <1>7
    <3>2. QED BY <1>1, <1>5, <1>7, <1>8, <2>2, <3>1
  <2>3. CASE u = t /\ b \notin boxes
    <3>1. b \in DOMAIN asked[t] /\ asked'[t][b] = asked[t][b]
      BY <1>7, <2>3
    <3>2. PICK k \in 1..(n - 1) : asked[t][b] = <<t, call[t], k>> /\ b \in Asks(m, k)
      BY <1>2, <3>1 DEF AskedInv
    <3>3. k \in 1..(pc'[t] - 1)
      BY <1>3, <1>7
    <3>4. QED BY <1>1, <1>8, <2>3, <3>1, <3>2, <3>3
  <2>4. QED BY <2>1, <2>2, <2>3
<1>13. MessagesInv'
  <2>1. ASSUME NEW message \in OnTheWay PROVE InTime(message)'
    <3> SUFFICES ASSUME NEW u \in Threads, NEW c \in Nat, NEW k \in Nat,
                        message.id = <<u, c, k>>
                 PROVE  /\ c <= call'[u]
                        /\ c = call'[u] =>
                             /\ Running(u)' /\ k < pc'[u]
                             /\ \A b \in Writes(message) \ LateData :
                                  /\ b \in Asks(Method(u)', k) /\ b \in DOMAIN asked'[u]
                                  /\ k <= asked'[u][b][3]
      BY DEF InTime, Writes
    <3>1. /\ c <= call[u]
          /\ c = call[u] =>
               /\ Running(u) /\ k < pc[u]
               /\ \A b \in Writes(message) \ LateData :
                    b \in Asks(Method(u), k) /\ b \in DOMAIN asked[u] /\ k <= asked[u][b][3]
      BY <1>2 DEF MessagesInv, InTime
    <3>2. CASE u # t
      BY <1>1, <1>7, <1>8, <3>1, <3>2
    <3>3. CASE u = t
      <4> SUFFICES ASSUME c = call[t]
                   PROVE  /\ k < n + 1
                          /\ \A b \in Writes(message) \ LateData :
                               b \in DOMAIN asked'[t] /\ k <= asked'[t][b][3]
        BY <1>1, <1>7, <1>8, <3>1, <3>3
      <4>1. k < n
        BY <3>1, <3>3
      <4>2. ASSUME NEW b \in Writes(message) \ LateData
            PROVE  b \in DOMAIN asked'[t] /\ k <= asked'[t][b][3]
        <5>1. b \in DOMAIN asked[t] /\ k <= asked[t][b][3]
          BY <3>1, <3>3
        <5>2. CASE b \in boxes
          <6>1. asked'[t][b][3] = n
            BY <1>7, <5>2
          <6>2. QED BY <1>3, <1>7, <4>1, <5>1, <6>1
        <5>3. CASE b \notin boxes
          BY <1>7, <5>1, <5>3
        <5>4. QED BY <5>2, <5>3
      <4>3. QED BY <1>3, <4>1, <4>2
    <3>4. QED BY <3>2, <3>3
  <2>2. ASSUME NEW message \in Sent(t, id) PROVE InTime(message)'
    <3> SUFFICES ASSUME NEW u \in Threads, NEW c \in Nat, NEW k \in Nat,
                        message.id = <<u, c, k>>
                 PROVE  /\ c <= call'[u]
                        /\ c = call'[u] =>
                             /\ Running(u)' /\ k < pc'[u]
                             /\ \A b \in Writes(message) \ LateData :
                                  /\ b \in Asks(Method(u)', k) /\ b \in DOMAIN asked'[u]
                                  /\ k <= asked'[u][b][3]
      BY DEF InTime, Writes
    <3>1. message.id = id /\ Writes(message) \subseteq boxes
      BY <1>10
    <3>2. u = t /\ c = call[t] /\ k = n
      BY <3>1
    <3>3. \A b \in boxes : b \in Asks(m, n) /\ b \in DOMAIN asked'[t] /\ n <= asked'[t][b][3]
      BY <1>3, <1>5, <1>7
    <3> HIDE DEF boxes, id
    <3>4. QED BY <1>1, <1>3, <1>7, <1>8, <3>1, <3>2, <3>3
  <2>3. \A message \in Sent(t, id) : message.id # <<0, 0, 0>>
    BY <1>9, <1>10
  <2> HIDE DEF id, boxes
  <2>4. ASSUME NEW message \in OnTheWay'
        PROVE  /\ message \in [id : Ids, left : Seq(Names)]
               /\ message.id = <<0, 0, 0>> => Writes(message) \subseteq EventBoxes \cup {"raise"}
               /\ InTime(message)'
    <3>1. CASE message \in OnTheWay
      BY <1>2, <2>1, <3>1 DEF MessagesInv
    <3>2. CASE message \in Sent(t, id)
      BY <1>10, <2>2, <2>3, <3>2
    <3>3. QED BY <1>1, <3>1, <3>2
  <2>5. QED BY <2>4 DEF MessagesInv, Writes
<1>14. ASSUME NEW u \in Threads PROVE KnowsWell(u)'
  <2>1. KnowsWell(u)
    BY <1>2 DEF KnowsInv, KnowsWell
  <2>2. CASE u # t
    <3>1. call'[u] = call[u] /\ pc'[u] = pc[u] /\ asked'[u] = asked[u]
      BY <1>1, <1>7, <2>2
    <3>2. ~shared'[u] => ~shared[u] /\ ~(InCall(u) /\ BoxesOf[Method(u)] \cap boxes # {})
      BY <1>6, <2>2
    <3> HIDE DEF boxes, id
    <3>3. \A b \in Boxes \ boxes : b \notin LateData =>
            /\ box'[b] = box[b]
            /\ \A message \in OnTheWay' : b \in Writes(message) => message \in OnTheWay
      BY <1>1, <1>10
    <3>4. QED BY ONLY <1>1, <1>2, <2>1, <3>1, <3>2, <3>3, Bystander
  <2>3. CASE u = t
    <3>1. Running(t)' /\ Knows(t)' = Known[m][n + 1]
      BY <1>1, <1>7, <1>8 DEF Knows, Method
    <3>2. /\ Knows(t)'.asked \subseteq Knows(t).asked \cup boxes
          /\ Knows(t)'.clean \subseteq Knows(t).clean \ boxes
          /\ Knows(t)'.own \subseteq (Knows(t).own \ boxes) \cup (boxes \cap Knows(t).clean)
          /\ Knows(t)'.filled \subseteq Knows(t).filled
      BY <1>1, <1>3, <1>4, <1>5, <3>1, KnownAfter, AfterSend DEF Knows, At
    <3>3. Knows(t)'.asked \subseteq DOMAIN asked'[t]
      BY <1>1, <1>7, <2>1, <2>3, <3>2 DEF KnowsWell
    <3>4. ASSUME ~shared'[t] PROVE Alone(t)'
      <4>1. Alone(t)
        BY <1>1, <1>6, <2>1, <2>3, <3>4 DEF KnowsWell
      <4> HIDE DEF boxes, id
      <4>2. ASSUME NEW b \in Knows(t)'.clean PROVE IsClean(b)'
        BY <1>1, <1>10, <3>2, <4>1, <4>2 DEF Alone, IsClean, Writes
      <4>3. ASSUME NEW b \in Knows(t)'.own PROVE IsOwn(t, b)'
        <5>1. CASE b \in boxes
          <6>1. IsClean(b)
            BY <3>2, <4>1, <4>3, <5>1 DEF Alone
          <6>2. b \in DOMAIN asked'[t] /\ asked'[t][b] = id
            BY <1>7, <5>1
          <6>3. QED BY <1>1, <1>10, <6>1, <6>2 DEF IsClean, IsOwn, Latest, Writes
        <5>2. CASE b \notin boxes
          <6>1. IsOwn(t, b)
            BY <3>2, <4>1, <4>3, <5>2 DEF Alone
          <6>2. \A message \in OnTheWay' : b \in Writes(message) => message \in OnTheWay
            BY <1>1, <1>10, <5>2
          <6>3. b \in DOMAIN asked[t] => b \in DOMAIN asked'[t] /\ asked'[t][b] = asked[t][b]
            BY <1>7, <5>2
          <6>4. QED BY <1>1, <6>1, <6>2, <6>3 DEF IsOwn, Latest, Writes
        <5>3. QED BY <5>1, <5>2
      <4>4. \A b \in Knows(t)'.filled : box'[b] # None
        BY <1>1, <3>2, <4>1 DEF Alone
      <4>5. QED BY <4>2, <4>3, <4>4 DEF Alone
    <3>5. QED BY <2>3, <3>1, <3>3, <3>4 DEF KnowsWell
  <2>4. QED BY <2>2, <2>3
<1>15. KnowsInv'
  BY <1>14 DEF KnowsInv, KnowsWell
<1>16. QED BY <1>11, <1>12, <1>13, <1>15 DEF AnswerInv

\* Sent again: the answer of the request that is still the latest for its box.
LEMMA ResendsKeeps ==
  ASSUME AnswerInv, NEW t \in Threads, Resends(t)
  PROVE  AnswerInv'
<1> DEFINE m == Method(t)
           n == pc[t]
           boxes == Touched(At(t))
           id == CHOOSE i \in {asked[t][b] : b \in At(t).boxes} : TRUE
<1>1. /\ Running(t) /\ Resending(At(t)) /\ UNCHANGED <<plan, call, pc, asked, box>>
      /\ ShareAt(t, boxes, id, n) /\ OnTheWay' = OnTheWay \cup Sent(t, id)
  BY DEF Resends, Doing, Resending, OnTheWay, Sent
<1>2. ClientTypes /\ AskedInv /\ MessagesInv /\ KnowsInv
  BY DEF AnswerInv
<1>3. /\ m \in DOMAIN Program /\ n \in DOMAIN Program[m] /\ n \in Nat \ {0}
      /\ ~Ending(t, n) /\ call[t] \in Nat
  BY <1>1, <1>2, AtShape DEF ClientTypes, Ending
<1>4. PICK a \in At(t).boxes : At(t).boxes = {a} /\ boxes \subseteq {a} \cup LateData
  BY <1>1, <1>3, InstructionShape DEF InstructionFits, At
<1>5. a \in Knows(t).asked /\ a \notin Knows(t).clean /\ a \notin LateData
  <2>1. a \in Knows(t).asked /\ a \notin Knows(t).clean
    BY <1>1, <1>3, <1>4, InstructionShape DEF Follows, At, Knows
  <2>2. QED BY <1>3, <2>1, KnownShape DEF Knows
<1>6. a \in DOMAIN asked[t] /\ id = asked[t][a]
  <2>1. a \in DOMAIN asked[t]
    BY <1>1, <1>2, <1>5 DEF KnowsInv
  <2>2. {asked[t][b] : b \in At(t).boxes} = {asked[t][a]}
    BY <1>4
  <2>3. QED BY <2>1, <2>2
<1> HIDE DEF id
<1>7. PICK j \in 1..(n - 1) : id = <<t, call[t], j>> /\ a \in Asks(m, j)
  BY <1>2, <1>6 DEF AskedInv
<1>8. id \in Ids /\ id # <<0, 0, 0>> /\ j \in Nat
  BY <1>3, <1>7 DEF Ids, Threads
<1>9. /\ shared' \in [Threads -> BOOLEAN]
      /\ \A u \in Threads \ {t} :
           ~shared'[u] => ~shared[u] /\ ~(InCall(u) /\ BoxesOf[Method(u)] \cap boxes # {})
      /\ ~shared'[t] => ~shared[t]
  <2>1. shared \in [Threads -> BOOLEAN]
    BY <1>2 DEF ClientTypes
  <2>2. QED BY <1>1, <1>3, <2>1, Shares
<1>10. \A u \in Threads :
         Running(u)' = Running(u) /\ Method(u)' = Method(u) /\ Knows(u)' = Knows(u)
  BY <1>1 DEF Running, Method, Knows
<1>11. \A message \in Sent(t, id) :
         /\ message \in [id : Ids, left : Seq(Names)] /\ message.id = id
         /\ Writes(message) \subseteq boxes
  BY <1>1, <1>2, <1>8, SentShape
<1>12. ClientTypes'
  BY <1>1, <1>2, <1>9, <1>10 DEF ClientTypes
<1>13. AskedInv'
  BY <1>1, <1>2, <1>10 DEF AskedInv
<1>14. MessagesInv'
  <2>1. ASSUME NEW message, InTime(message) PROVE InTime(message)'
    BY <1>1, <1>10, <2>1 DEF InTime, Writes
  <2>2. ASSUME NEW message \in Sent(t, id) PROVE InTime(message)
    <3> SUFFICES ASSUME NEW u \in Threads, NEW c \in Nat, NEW k \in Nat,
                        message.id = <<u, c, k>>
                 PROVE  /\ c <= call[u]
                        /\ c = call[u] =>
                             /\ Running(u) /\ k < pc[u]
                             /\ \A b \in Writes(message) \ LateData :
                                  /\ b \in Asks(Method(u), k) /\ b \in DOMAIN asked[u]
                                  /\ k <= asked[u][b][3]
      BY DEF InTime
    <3>1. u = t /\ c = call[t] /\ k = j
      BY <1>7, <1>11
    <3>2. \A b \in Writes(message) \ LateData : b = a
      BY <1>4, <1>11
    <3>3. asked[t][a][3] = j
      BY <1>6, <1>7
    <3>4. j < n /\ j <= j /\ call[t] <= call[t]
      BY <1>3, <1>7
    <3>5. \A b \in Writes(message) \ LateData :
            b \in Asks(m, j) /\ b \in DOMAIN asked[t] /\ j <= asked[t][b][3]
      BY <1>6, <1>7, <3>2, <3>3, <3>4
    <3>6. QED BY <1>1, <3>1, <3>4, <3>5
  <2>3. \A message \in Sent(t, id) : message.id # <<0, 0, 0>>
    BY <1>8, <1>11
  <2>4. ASSUME NEW message \in OnTheWay'
        PROVE  /\ message \in [id : Ids, left : Seq(Names)]
               /\ message.id = <<0, 0, 0>> => Writes(message) \subseteq EventBoxes \cup {"raise"}
               /\ InTime(message)'
    <3>1. CASE message \in OnTheWay
      BY <1>2, <2>1, <3>1 DEF MessagesInv
    <3>2. CASE message \in Sent(t, id)
      BY <1>11, <2>1, <2>2, <2>3, <3>2
    <3>3. QED BY <1>1, <3>1, <3>2
  <2>5. QED BY <2>4 DEF MessagesInv, Writes
<1>15. ASSUME NEW u \in Threads PROVE KnowsWell(u)'
  <2>1. KnowsWell(u)
    BY <1>2 DEF KnowsInv, KnowsWell
  <2>2. CASE u # t
    <3>1. plan' = plan /\ call'[u] = call[u] /\ pc'[u] = pc[u] /\ asked'[u] = asked[u]
      BY <1>1
    <3>2. ~shared'[u] => ~shared[u] /\ ~(InCall(u) /\ BoxesOf[Method(u)] \cap boxes # {})
      BY <1>9, <2>2
    <3> HIDE DEF boxes
    <3>3. \A b \in Boxes \ boxes : b \notin LateData =>
            /\ box'[b] = box[b]
            /\ \A message \in OnTheWay' : b \in Writes(message) => message \in OnTheWay
      BY <1>1, <1>11
    <3>4. QED BY ONLY <1>2, <2>1, <3>1, <3>2, <3>3, Bystander
  <2>3. CASE u = t
    <3> SUFFICES ASSUME ~shared'[t] PROVE Alone(t)'
      BY <1>1, <1>10, <2>1, <2>3 DEF KnowsWell
    <3>1. Alone(t)
      BY <1>1, <1>9, <2>1, <2>3 DEF KnowsWell
    <3>2. \A b \in Knows(t).clean \cup Knows(t).own : b \notin LateData
      BY <1>3, KnownShape DEF Knows
    <3> HIDE DEF boxes
    <3>3. ASSUME NEW b \in Knows(t).clean PROVE IsClean(b)'
      <4>1. b \notin boxes /\ IsClean(b)
        BY <1>4, <1>5, <3>1, <3>2 DEF Alone
      <4>2. QED BY <1>1, <1>11, <4>1 DEF IsClean, Writes
    <3>4. ASSUME NEW b \in Knows(t).own PROVE IsOwn(t, b)'
      <4>1. IsOwn(t, b) /\ (b \in boxes => b = a)
        BY <1>4, <3>1, <3>2 DEF Alone
      <4>2. \A message \in Sent(t, id) : b \in Writes(message) => Latest(t, b, message.id)
        BY <1>6, <1>11, <4>1 DEF Latest
      <4>3. QED BY <1>1, <4>1, <4>2 DEF IsOwn, Latest, Writes
    <3>5. \A b \in Knows(t).filled : box'[b] # None
      BY <1>1, <3>1 DEF Alone
    <3>6. QED BY <1>10, <3>3, <3>4, <3>5 DEF Alone
  <2>4. QED BY <2>2, <2>3
<1>16. KnowsInv'
  BY <1>15 DEF KnowsInv, KnowsWell
<1>17. QED BY <1>12, <1>13, <1>14, <1>16 DEF AnswerInv

-----------------------------------------------------------------------------
(* The websocket. *)

LEMMA SocketKeeps ==
  ASSUME AnswerInv, Receives \/ Raises \/ TimeSync \/ Loses
  PROVE  AnswerInv'
<1>1. OnTheWay' \subseteq OnTheWay
  BY DEF Receives, Raises, TimeSync, Loses, OnTheWay
<1>2. UNCHANGED <<callVars, box>>
  BY DEF Receives, Raises, TimeSync, Loses
<1>3. QED BY <1>1, <1>2, QuietSocket

LEMMA HandlesKeeps ==
  ASSUME AnswerInv, Handles
  PROVE  AnswerInv'
<1> DEFINE filled == Head(handling.left)
<1>1. plan' = plan /\ call' = call /\ pc' = pc /\ asked' = asked /\ shared' = shared
  BY DEF Handles, callVars
<1>2. ClientTypes /\ AskedInv /\ MessagesInv /\ KnowsInv
  BY DEF AnswerInv
<1>3. /\ handling \in OnTheWay /\ handling \in [id : Ids, left : Seq(Names)]
      /\ handling.left # << >>
  BY <1>2 DEF Handles, OnTheWay, MessagesInv
<1>4. filled \in Writes(handling) /\ Len(handling.left) \in Nat \ {0}
  <2>1. Len(handling.left) \in Nat \ {0} /\ 1 \in DOMAIN handling.left /\ filled = handling.left[1]
    BY <1>3
  <2>2. QED BY <2>1 DEF Writes
<1>5. box' = [box EXCEPT ![filled] = handling.id] /\ handling.id # None
  BY <1>3, NoneAssumption DEF Handles, Ids
<1>6. \A b \in Boxes : box'[b] = IF b = filled THEN handling.id ELSE box[b]
  BY <1>2, <1>5 DEF ClientTypes
\* A message on the way after the step is one from before it, with no more to write.
<1>7. ASSUME NEW message \in OnTheWay'
      PROVE  \E old \in OnTheWay :
               /\ message.id = old.id /\ Writes(message) \subseteq Writes(old)
               /\ message \in [id : Ids, left : Seq(Names)]
  <2>1. CASE message \in net
    BY <1>2, <2>1 DEF MessagesInv, OnTheWay
  <2>2. CASE message \notin net
    <3>1. /\ Len(handling.left) # 1 /\ message = handling'
          /\ handling' = [handling EXCEPT !.left = Tail(@)]
      BY <2>2 DEF Handles, OnTheWay
    <3>2. message.id = handling.id /\ message.left = Tail(handling.left)
          /\ message \in [id : Ids, left : Seq(Names)]
      <4>1. message = [handling EXCEPT !.left = Tail(handling.left)]
        BY <3>1
      <4>2. Tail(handling.left) \in Seq(Names)
        BY <1>3
      <4> HIDE DEF filled
      <4>3. QED BY ONLY <1>3, <4>1, <4>2
    <3>3. \A i \in DOMAIN Tail(handling.left) :
            i + 1 \in DOMAIN handling.left /\ Tail(handling.left)[i] = handling.left[i + 1]
      BY <1>3
    <3>4. Writes(message) \subseteq Writes(handling)
      BY <3>2, <3>3 DEF Writes
    <3>5. QED BY <1>3, <3>2, <3>4
  <2>3. QED BY <2>1, <2>2
<1>8. \A t \in Threads : Running(t)' = Running(t) /\ Method(t)' = Method(t) /\ Knows(t)' = Knows(t)
  BY <1>1 DEF Running, Method, Knows
<1>9. ClientTypes'
  BY <1>1, <1>2, <1>5, <1>8 DEF ClientTypes
<1>10. AskedInv'
  BY <1>1, <1>2, <1>8 DEF AskedInv
<1>11. MessagesInv'
  <2> SUFFICES ASSUME NEW message \in OnTheWay'
               PROVE  /\ message \in [id : Ids, left : Seq(Names)]
                      /\ message.id = <<0, 0, 0>> =>
                           Writes(message) \subseteq EventBoxes \cup {"raise"}
                      /\ InTime(message)'
    BY DEF MessagesInv, Writes
  <2>1. PICK old \in OnTheWay :
          /\ message.id = old.id /\ Writes(message) \subseteq Writes(old)
          /\ message \in [id : Ids, left : Seq(Names)]
    BY <1>7
  <2>2. InTime(old) /\ (old.id = <<0, 0, 0>> => Writes(old) \subseteq EventBoxes \cup {"raise"})
    BY <1>2 DEF MessagesInv
  <2>3. InTime(message)'
    BY <1>1, <1>8, <2>1, <2>2 DEF InTime, Writes
  <2>4. QED BY <2>1, <2>2, <2>3
<1>12. ASSUME NEW t \in Threads, Running(t), Alone(t) PROVE Alone(t)'
  <2>1. \A b \in Knows(t).clean \cup Knows(t).own \cup Knows(t).filled : b \in Boxes
    BY <1>2, <1>12, ReliesInCall
  <2>2. ASSUME NEW b \in Knows(t).clean PROVE IsClean(b)'
    <3>1. IsClean(b)
      BY <1>12 DEF Alone
    <3>2. box'[b] = None
      BY <1>3, <1>4, <1>6, <2>1, <3>1 DEF IsClean
    <3>3. \A message \in OnTheWay' : b \notin Writes(message)
      BY <1>7, <3>1 DEF IsClean
    <3>4. QED BY <3>2, <3>3 DEF IsClean, Writes
  <2>3. ASSUME NEW b \in Knows(t).own PROVE IsOwn(t, b)'
    <3>1. IsOwn(t, b)
      BY <1>12 DEF Alone
    <3>2. box'[b] # None => Latest(t, b, box'[b])
      BY <1>3, <1>4, <1>6, <2>1, <3>1 DEF IsOwn
    <3>3. \A message \in OnTheWay' : b \in Writes(message) => Latest(t, b, message.id)
      BY <1>7, <3>1 DEF IsOwn
    <3>4. QED BY <1>1, <3>2, <3>3 DEF IsOwn, Latest, Writes
  <2>4. \A b \in Knows(t).filled : box'[b] # None
    BY <1>5, <1>6, <1>12, <2>1 DEF Alone
  <2>5. QED BY <1>8, <2>2, <2>3, <2>4 DEF Alone
<1>13. KnowsInv'
  BY <1>1, <1>2, <1>8, <1>12 DEF KnowsInv
<1>14. QED BY <1>9, <1>10, <1>11, <1>13 DEF AnswerInv

-----------------------------------------------------------------------------

LEMMA AnswerInitially == ClientInit => AnswerInv
<1> SUFFICES ASSUME ClientInit PROVE AnswerInv
  OBVIOUS
<1>1. /\ plan \in [Threads -> Seq(DOMAIN Program)]
      /\ call = [t \in Threads |-> 1] /\ pc = [t \in Threads |-> 1]
      /\ asked = [t \in Threads |-> [b \in {} |-> None]]
      /\ shared = [t \in Threads |-> FALSE] /\ box = [b \in Boxes |-> None] /\ handling = None
  BY PlansAssumption DEF ClientInit
<1>2. ASSUME NEW t \in Threads, Running(t) PROVE Method(t) \in DOMAIN Program
  BY <1>1, <1>2 DEF Running, Method
<1>3. ClientTypes
  BY <1>1, <1>2, ProgramShape DEF ClientTypes
<1>4. AskedInv
  BY <1>1 DEF AskedInv
<1>5. ASSUME NEW message \in OnTheWay
      PROVE  /\ message \in [id : Ids, left : Seq(Names)]
             /\ message.id = <<0, 0, 0>> /\ Writes(message) \subseteq EventBoxes \cup {"raise"}
  <2>1. PICK b \in EventBoxes \cup {"raise"} : message = Event(<<b>>)
    BY <1>1 DEF ClientInit, OnTheWay
  <2>2. b \in Names
    BY DEF Names
  <2>3. message = [id |-> <<0, 0, 0>>, left |-> <<b>>]
    BY <2>1 DEF Event
  <2>4. <<b>> \in Seq(Names) /\ DOMAIN <<b>> = {1} /\ <<b>>[1] = b
    BY <2>2
  <2>5. Writes(message) = {b}
    BY <2>3, <2>4 DEF Writes
  <2>6. QED BY <2>3, <2>4, <2>5 DEF Ids
<1>6. MessagesInv
  <2>1. ASSUME NEW message \in OnTheWay PROVE InTime(message)
    BY <1>5 DEF InTime, Threads
  <2>2. QED BY <1>5, <2>1 DEF MessagesInv
<1>7. KnowsInv
  <2> SUFFICES ASSUME NEW t \in Threads, Running(t)
               PROVE  Knows(t).asked \subseteq DOMAIN asked[t] /\ Alone(t)
    BY DEF KnowsInv
  <2>1. pc[t] = 1
    BY <1>1
  <2>2. /\ Knows(t).asked = {} /\ Knows(t).clean = {} /\ Knows(t).own = {} /\ Knows(t).filled = {}
    BY <1>2, <2>1, KnownAtFirst DEF Knows
  <2>3. QED BY <2>2 DEF Alone
<1>8. QED BY <1>3, <1>4, <1>6, <1>7 DEF AnswerInv

LEMMA AnswerStep == AnswerInv /\ [ClientNext]_clientVars => AnswerInv'
<1> SUFFICES ASSUME AnswerInv, [ClientNext]_clientVars PROVE AnswerInv'
  OBVIOUS
<1>1. ASSUME NEW t \in Threads, Clears(t) PROVE AnswerInv'
  BY <1>1, ClearsKeeps
<1>2. ASSUME NEW t \in Threads, Sends(t) PROVE AnswerInv'
  BY <1>2, SendsKeeps
<1>3. ASSUME NEW t \in Threads, Awakes(t) PROVE AnswerInv'
  BY <1>3, AwakesKeeps
<1>4. ASSUME NEW t \in Threads, GivesUp(t) PROVE AnswerInv'
  <2>1. Running(t)
    BY <1>4 DEF GivesUp, Doing
  <2>2. QED BY <1>4, <2>1, ReturnKeeps DEF GivesUp
<1>5. ASSUME NEW t \in Threads, Resends(t) PROVE AnswerInv'
  BY <1>5, ResendsKeeps
<1>6. ASSUME NEW t \in Threads, Reads(t) PROVE AnswerInv'
  BY <1>6, ReadsKeeps
<1>7. ASSUME NEW t \in Threads, Branches(t) PROVE AnswerInv'
  BY <1>7, BranchesKeeps
<1>8. CASE Receives \/ Raises \/ TimeSync \/ Loses
  BY <1>8, SocketKeeps
<1>9. CASE Handles
  BY <1>9, HandlesKeeps
<1>10. CASE UNCHANGED clientVars
  <2>1. UNCHANGED <<callVars, box>> /\ OnTheWay' = OnTheWay
    BY <1>10 DEF clientVars, callVars, OnTheWay
  <2>2. QED BY <2>1, QuietSocket
<1>11. ASSUME NEW t \in Threads, Repeats(t) PROVE AnswerInv'
  BY <1>11, RepeatsKeeps
<1>12. QED
  BY <1>1, <1>2, <1>3, <1>4, <1>5, <1>6, <1>7, <1>8, <1>9, <1>10, <1>11 DEF ClientNext, Calls

-----------------------------------------------------------------------------
(* What nobody waits for in vain. *)

LEMMA OwedShape ==
  ASSUME NEW m \in DOMAIN Program, NEW n \in DOMAIN Program[m]
  PROVE  OwesOn(m, n)
  BY ProgramsAssumption

\* The boxes a thread owes after a move, wherever the program goes on.
LEMMA OwesMoves ==
  ASSUME ClientTypes, NEW t \in Threads, Running(t), NEW next \in Nexts(Method(t), pc[t]),
         next \in Nat, next > pc[t], Continue(t, next), plan' = plan
  PROVE  Owes(t) \ SendsFor(Method(t), pc[t]) \subseteq Owes(t)'
<1> DEFINE m == Method(t)
           n == pc[t]
<1>1. m \in DOMAIN Program /\ n \in DOMAIN Program[m] /\ DOMAIN Program[m] = 1..Len(Program[m])
  BY AtShape
<1>2. Owes(t) = Owed(m, n) /\ Owed(m, n) \ SendsFor(m, n) \subseteq OwedAt(m, next)
  BY <1>1, OwedShape DEF OwesOn, Owes
<1>3. CASE Ending(t, next)
  <2>1. next \notin DOMAIN Program[m]
    BY <1>1, <1>3 DEF Ending
  <2>2. QED BY <1>2, <2>1 DEF OwedAt
<1>4. CASE ~Ending(t, next)
  <2>1. call'[t] = call[t] /\ pc'[t] = next /\ next \in DOMAIN Program[m]
    BY <1>4, Moves
  <2>2. Running(t)' /\ Method(t)' = m
    BY <2>1 DEF Running, Method
  <2>3. Owes(t)' = Owed(m, next)
    BY <2>1, <2>2 DEF Owes
  <2>4. QED BY <1>2, <2>1, <2>3 DEF OwedAt
<1>5. QED BY <1>3, <1>4

LEMMA OwesStays ==
  ASSUME NEW u \in Threads, plan' = plan, call'[u] = call[u], pc'[u] = pc[u]
  PROVE  /\ Running(u)' = Running(u) /\ Method(u)' = Method(u) /\ Owes(u)' = Owes(u)
         /\ Knows(u)' = Knows(u)
<1>1. Running(u)' = Running(u) /\ Method(u)' = Method(u)
  BY DEF Running, Method
<1>2. QED BY <1>1 DEF Owes, Knows

LEMMA BoxesOfPlans ==
  ASSUME ClientTypes, NEW t \in Threads, NEW n \in DOMAIN plan[t]
  PROVE  plan[t][n] \in DOMAIN Program /\ BoxesOf[plan[t][n]] \subseteq Boxes
<1>1. plan[t] \in Seq(DOMAIN Program)
  BY DEF ClientTypes
<1>2. plan[t][n] \in DOMAIN Program
  BY <1>1
<1>3. QED BY <1>2 DEF Boxes

\* A step may empty some boxes. What was to come still is, if those that count are owed,
\* nobody forgets what it owes, and whoever waits for the others is marked.
LEMMA ComingStep ==
  ASSUME ClientTypes, EventsCome, DueComes, plan' = plan, NEW emptied,
         emptied \cap EventBoxes = {},
         \A b \in Boxes : Coming(b) => Coming(b)' \/ b \in emptied,
         \A b \in emptied \ EmptiedForNothing : Provided(b)',
         \A u \in Threads : \A b \in Owes(u) : b \in Owes(u)' \/ Coming(b)',
         \A u \in Threads : Running(u)' => \A b \in Knows(u)'.due :
           \/ Coming(b)'
           \/ /\ Running(u) /\ b \in Knows(u).due
              /\ b \in EmptiedForNothing /\ (shared[u] \/ b \in emptied) => shared'[u]
  PROVE  EventsCome' /\ DueComes'
<1>1. EventsCome'
  <2> SUFFICES ASSUME NEW t \in Threads, NEW n \in DOMAIN plan[t],
                      NEW b \in BoxesOf[plan[t][n]] \cap EventBoxes
               PROVE  Coming(b)'
    BY DEF EventsCome
  <2>1. b \in Boxes /\ b \notin emptied /\ Coming(b)
    BY BoxesOfPlans DEF EventsCome
  <2>2. QED BY <2>1
<1>2. DueComes'
  <2> SUFFICES ASSUME NEW u \in Threads, Running(u)', NEW b \in Knows(u)'.due
               PROVE  Provided(b)' \/ (b \in EmptiedForNothing /\ shared'[u])
    BY DEF DueComes
  <2>1. CASE Coming(b)'
    BY <2>1 DEF Provided
  <2>2. CASE /\ Running(u) /\ b \in Knows(u).due
             /\ b \in EmptiedForNothing /\ (shared[u] \/ b \in emptied) => shared'[u]
    <3>1. b \in Boxes
      BY <2>2, ReliesInCall
    <3>2. CASE b \in EmptiedForNothing /\ shared[u]
      BY <2>2, <3>2
    <3>3. CASE Coming(b)
      <4>1. CASE b \in emptied
        BY <2>2, <4>1
      <4>2. CASE Coming(b)'
        BY <4>2 DEF Provided
      <4>3. QED BY <3>1, <3>3, <4>1, <4>2
    <3>4. CASE \E v \in Threads : b \in Owes(v)
      <4>1. PICK v \in Threads : b \in Owes(v)
        BY <3>4
      <4>2. b \in Owes(v)' \/ Coming(b)'
        BY <4>1
      <4>3. QED BY <4>2 DEF Provided
    <3>5. QED BY <2>2, <3>2, <3>3, <3>4 DEF DueComes, Provided
  <2>3. QED BY <2>1, <2>2
<1>3. QED BY <1>1, <1>2

\* What a thread that moves on has due: no more than it had, and what it just asked for.
LEMMA DueMoves ==
  ASSUME ClientTypes, NEW t \in Threads, Running(t), NEW next \in Nexts(Method(t), pc[t]),
         next \in Nat, next > pc[t], Continue(t, next), plan' = plan, Running(t)', ClientTypes'
  PROVE  \/ Knows(t)'.due = {}
         \/ ~Ending(t, next) /\ Knows(t)'.due \subseteq After(Knows(t), Method(t), pc[t]).due
<1> DEFINE m == Method(t)
           n == pc[t]
<1>1. m \in DOMAIN Program /\ n \in DOMAIN Program[m]
  BY AtShape
<1>2. CASE Ending(t, next)
  <2>1. pc'[t] = 1
    BY <1>2, Moves
  <2>2. plan'[t] \in Seq(DOMAIN Program) /\ call'[t] \in Nat \ {0}
    BY DEF ClientTypes
  <2>3. Method(t)' \in DOMAIN Program
    BY <2>2 DEF Running, Method
  <2>4. QED BY <2>1, <2>3, KnownAtFirst DEF Knows
<1>3. CASE ~Ending(t, next)
  <2>1. call'[t] = call[t] /\ pc'[t] = next /\ next \in DOMAIN Program[m]
    BY <1>3, Moves
  <2>2. Knows(t)' = Known[m][next]
    BY <2>1 DEF Knows, Method
  <2>3. QED BY <1>1, <1>3, <2>1, <2>2, KnownAfter DEF Knows
<1>4. QED BY <1>2, <1>3

\* The other thread, beside a step that empties some boxes or none.
LEMMA DueBeside ==
  ASSUME ClientTypes, NEW u \in Threads, plan' = plan, call'[u] = call[u], pc'[u] = pc[u],
         NEW boxes, shared[u] \in BOOLEAN, shared'[u] \in BOOLEAN,
         ~shared'[u] => ~shared[u] /\ ~(InCall(u) /\ BoxesOf[Method(u)] \cap boxes # {}),
         NEW b \in Knows(u)'.due, Running(u)'
  PROVE  /\ Running(u) /\ b \in Knows(u).due
         /\ shared[u] \/ b \in boxes => shared'[u]
<1>1. Running(u) /\ b \in Knows(u).due
  BY OwesStays
<1>2. InCall(u) /\ b \in BoxesOf[Method(u)]
  BY <1>1, ReliesInCall
<1>3. QED BY <1>1, <1>2

-----------------------------------------------------------------------------

\* Steps on which the boxes and the messages stay, and the thread asks for nothing.
LEMMA ComingQuiet ==
  ASSUME AnswerInv, AnswerInv', ComingInv, NEW t \in Threads, Running(t),
         NEW next \in Nexts(Method(t), pc[t]), next \in Nat, next > pc[t],
         At(t).op \in Waits \cup {"read", "maybe", "mayReturn", "again"},
         Continue(t, next), Stay(t, next), UNCHANGED <<plan, socketVars>>
  PROVE  ComingInv'
<1> DEFINE m == Method(t)
           n == pc[t]
<1>1. plan' = plan /\ OnTheWay' = OnTheWay /\ box' = box /\ fault' = fault
  BY DEF socketVars, OnTheWay
<1>2. ClientTypes /\ ClientTypes'
  BY DEF AnswerInv
<1>3. m \in DOMAIN Program /\ n \in DOMAIN Program[m]
  BY <1>2, AtShape
<1>4. \A b : Coming(b)' <=> Coming(b)
  BY <1>1 DEF Coming, Writes
<1>5. SendsFor(m, n) = {}
  BY DEF SendsFor, At, Waits
<1>6. \A u \in Threads : \A b \in Owes(u) : b \in Owes(u)'
  <2>1. Owes(t) \subseteq Owes(t)'
    BY <1>1, <1>2, <1>5, OwesMoves
  <2>2. \A u \in Threads \ {t} : Owes(u)' = Owes(u)
    BY <1>1, <1>2, Moves, OwesStays
  <2>3. QED BY <2>1, <2>2
<1>7. After(Known[m][n], m, n).due = Known[m][n].due
  <2>1. CASE Program[m][n].op \in Waits
    BY <1>3, <2>1, AfterWait
  <2>2. CASE Program[m][n].op \in {"read", "maybe", "mayReturn", "again"}
    BY <1>3, <2>2, AfterOther
  <2>3. QED BY <2>1, <2>2 DEF At
<1>8. ASSUME NEW u \in Threads, Running(u)', NEW b \in Knows(u)'.due
      PROVE  Running(u) /\ b \in Knows(u).due /\ (shared[u] => shared'[u])
  <2>1. shared \in [Threads -> BOOLEAN] /\ shared' = [shared EXCEPT ![t] = @ /\ ~Ending(t, next)]
    BY <1>2 DEF ClientTypes, Stay
  <2>2. CASE u = t
    <3>1. ~Ending(t, next) /\ b \in Knows(t).due
      BY <1>1, <1>2, <1>7, <1>8, <2>2, DueMoves DEF Knows
    <3>2. shared'[t] = shared[t]
      BY <2>1, <3>1
    <3>3. QED BY <2>2, <3>1, <3>2
  <2>3. CASE u # t
    <3>1. shared'[u] = shared[u] /\ call'[u] = call[u] /\ pc'[u] = pc[u]
      BY <1>1, <1>2, <2>1, <2>3, Moves
    <3>2. QED BY <1>1, <1>8, <3>1, OwesStays
  <2>4. QED BY <2>2, <2>3
<1>9. RaisesAlone'
  BY <1>1 DEF ComingInv, RaisesAlone, Writes
<1>10. ASSUME fault = "raises" PROVE EventsCome' /\ DueComes'
  <2>1. EventsCome /\ DueComes
    BY <1>10 DEF ComingInv
  <2>2. {} \cap EventBoxes = {} /\ \A b \in {} \ EmptiedForNothing : Provided(b)'
    OBVIOUS
  <2>3. \A u \in Threads : Running(u)' => \A b \in Knows(u)'.due :
          Running(u) /\ b \in Knows(u).due
          /\ (b \in EmptiedForNothing /\ (shared[u] \/ b \in {}) => shared'[u])
    BY <1>8
  <2>4. QED BY ONLY <1>1, <1>2, <1>4, <1>6, <2>1, <2>2, <2>3, ComingStep
<1>11. QED BY <1>1, <1>9, <1>10 DEF ComingInv

\* A call that ends on the way owes nothing.
LEMMA ComingReturn ==
  ASSUME AnswerInv, AnswerInv', ComingInv, NEW t \in Threads, Running(t),
         At(t).op \in {"awaitOr", "mayReturn"},
         Continue(t, Len(Program[Method(t)]) + 1), Stay(t, Len(Program[Method(t)]) + 1),
         UNCHANGED <<plan, socketVars>>
  PROVE  ComingInv'
<1> DEFINE m == Method(t)
           n == pc[t]
           next == Len(Program[m]) + 1
<1>1. plan' = plan /\ OnTheWay' = OnTheWay /\ box' = box /\ fault' = fault
  BY DEF socketVars, OnTheWay
<1>2. ClientTypes /\ ClientTypes'
  BY DEF AnswerInv
<1>3. /\ m \in DOMAIN Program /\ n \in DOMAIN Program[m]
      /\ next \in Nat /\ next > n /\ Ending(t, next)
  BY <1>2, AtShape DEF Ending
<1> HIDE DEF next
<1>4. \A b : Coming(b)' <=> Coming(b)
  BY <1>1 DEF Coming, Writes
<1>5. Continue(t, next) /\ Stay(t, next)
  BY DEF next
<1>6. \A u \in Threads \ {t} : call'[u] = call[u] /\ pc'[u] = pc[u] /\ Owes(u)' = Owes(u)
  BY <1>1, <1>2, <1>3, <1>5, Moves, OwesStays
<1>7. Owes(t) = {}
  BY <1>3, OwedShape DEF OwesOn, At, Owes
<1>8. \A u \in Threads : \A b \in Owes(u) : b \in Owes(u)'
  BY <1>6, <1>7
<1>9. ASSUME NEW u \in Threads, Running(u)', NEW b \in Knows(u)'.due
      PROVE  Running(u) /\ b \in Knows(u).due /\ (shared[u] => shared'[u])
  <2>1. CASE u = t
    <3>1. pc'[t] = 1
      BY <1>1, <1>2, <1>3, <1>5, Moves
    <3>2. plan'[t] \in Seq(DOMAIN Program) /\ call'[t] \in Nat \ {0}
      BY <1>2 DEF ClientTypes
    <3>3. Method(t)' \in DOMAIN Program
      BY <1>9, <2>1, <3>2 DEF Running, Method
    <3>4. QED BY <1>9, <2>1, <3>1, <3>3, KnownAtFirst DEF Knows
  <2>2. CASE u # t
    <3>1. shared'[u] = shared[u]
      BY <1>2, <1>5, <2>2 DEF ClientTypes, Stay
    <3>2. QED BY <1>1, <1>6, <1>9, <2>2, <3>1, OwesStays
  <2>3. QED BY <2>1, <2>2
<1>10. RaisesAlone'
  BY <1>1 DEF ComingInv, RaisesAlone, Writes
<1>11. ASSUME fault = "raises" PROVE EventsCome' /\ DueComes'
  <2>1. EventsCome /\ DueComes
    BY <1>11 DEF ComingInv
  <2>2. {} \cap EventBoxes = {} /\ \A b \in {} \ EmptiedForNothing : Provided(b)'
    OBVIOUS
  <2>3. \A u \in Threads : Running(u)' => \A b \in Knows(u)'.due :
          Running(u) /\ b \in Knows(u).due
          /\ (b \in EmptiedForNothing /\ (shared[u] \/ b \in {}) => shared'[u])
    BY <1>9
  <2>4. QED BY ONLY <1>1, <1>2, <1>4, <1>8, <2>1, <2>2, <2>3, ComingStep
<1>12. QED BY <1>1, <1>10, <1>11 DEF ComingInv

LEMMA ComingAwakes ==
  ASSUME AnswerInv, AnswerInv', ComingInv, NEW t \in Threads, Awakes(t) \/ Reads(t)
  PROVE  ComingInv'
<1>1. /\ Running(t) /\ At(t).op \in Waits \cup {"read", "maybe", "mayReturn", "again"}
      /\ Continue(t, pc[t] + 1) /\ Stay(t, pc[t] + 1) /\ UNCHANGED <<plan, socketVars>>
  BY DEF Awakes, Reads, Waiting, Doing, Waits
<1>2. pc[t] \in Nat
  BY <1>1, AtShape DEF AnswerInv
<1>3. pc[t] + 1 \in Nexts(Method(t), pc[t]) /\ pc[t] + 1 \in Nat /\ pc[t] + 1 > pc[t]
  BY <1>2 DEF Nexts
<1>4. QED BY <1>1, <1>3, ComingQuiet

LEMMA ComingBranches ==
  ASSUME AnswerInv, AnswerInv', ComingInv, NEW t \in Threads, Branches(t)
  PROVE  ComingInv'
<1>1. /\ Running(t) /\ At(t).op \in {"maybe", "mayReturn", "again"} /\ UNCHANGED <<plan, socketVars>>
      /\ At(t).op \in Waits \cup {"read", "maybe", "mayReturn", "again"}
  BY DEF Branches, Doing
<1>2. Method(t) \in DOMAIN Program /\ pc[t] \in DOMAIN Program[Method(t)] /\ pc[t] \in Nat
  BY <1>1, AtShape DEF AnswerInv
<1>3. At(t).skip \in Nat
  BY <1>2, InstructionShape DEF InstructionFits, At
<1>4. CASE At(t).op = "maybe"
  <2>1. PICK next \in {pc[t] + 1, pc[t] + 1 + At(t).skip} : Continue(t, next) /\ Stay(t, next)
    BY <1>4 DEF Branches, Doing
  <2>2. next \in Nexts(Method(t), pc[t]) /\ next \in Nat /\ next > pc[t]
    BY <1>2, <1>3, <1>4 DEF Nexts, At
  <2>3. QED BY <1>1, <2>1, <2>2, ComingQuiet
<1>5. CASE At(t).op = "mayReturn"
  <2>1. PICK next \in {pc[t] + 1, Len(Program[Method(t)]) + 1} : Continue(t, next) /\ Stay(t, next)
    BY <1>5 DEF Branches, Doing
  <2>2. CASE next = pc[t] + 1
    <3>1. next \in Nexts(Method(t), pc[t]) /\ next \in Nat /\ next > pc[t]
      BY <1>2, <2>2 DEF Nexts
    <3>2. QED BY <1>1, <2>1, <3>1, ComingQuiet
  <2>3. CASE next = Len(Program[Method(t)]) + 1
    BY <1>1, <1>5, <2>1, <2>3, ComingReturn
  <2>4. QED BY <2>2, <2>3
<1>6. CASE At(t).op = "again"
  <2>1. Continue(t, pc[t] + 1) /\ Stay(t, pc[t] + 1)
    BY <1>6 DEF Branches, Doing
  <2>2. pc[t] + 1 \in Nexts(Method(t), pc[t]) /\ pc[t] + 1 \in Nat /\ pc[t] + 1 > pc[t]
    BY <1>2 DEF Nexts
  <2>3. QED BY <1>1, <2>1, <2>2, ComingQuiet
<1>7. QED BY <1>1, <1>4, <1>5, <1>6

\* The next turn needs no events but those of the turn before, which owes nothing.
LEMMA ComingRepeats ==
  ASSUME AnswerInv, AnswerInv', ComingInv, NEW t \in Threads, Repeats(t)
  PROVE  ComingInv'
<1>1. ClientTypes /\ ClientTypes'
  BY DEF AnswerInv
<1>2. /\ Running(t) /\ Repeating(At(t)) /\ box' = box /\ OnTheWay' = OnTheWay /\ fault' = fault
      /\ \A n \in DOMAIN plan'[t] :
           plan'[t][n] = At(t).method \/ \E k \in DOMAIN plan[t] : plan'[t][n] = plan[t][k]
      /\ pc'[t] = 1
      /\ \A u \in Threads \ {t} :
           /\ plan'[u] = plan[u] /\ call'[u] = call[u] /\ pc'[u] = pc[u] /\ shared'[u] = shared[u]
  BY <1>1, Turns DEF ClientTypes, socketVars, OnTheWay
<1>3. \A u \in Threads \ {t} :
        Running(u)' = Running(u) /\ Method(u)' = Method(u) /\ Knows(u)' = Knows(u)
  BY <1>2 DEF Running, Method, Knows
<1>4. \A b : Coming(b)' <=> Coming(b)
  BY <1>2 DEF Coming, Writes
<1>5. Method(t) \in DOMAIN Program /\ pc[t] \in DOMAIN Program[Method(t)]
  BY <1>1, <1>2, AtShape
<1>6. Owes(t) = {}
  BY <1>2, <1>5, OwedShape DEF OwesOn, At, Owes, Repeating
<1>7. BoxesOf[At(t).method] \subseteq BoxesOf[Method(t)]
  BY <1>2, <1>5, InstructionShape DEF Follows, At
<1>8. RaisesAlone'
  BY <1>2 DEF ComingInv, RaisesAlone, Writes
<1>9. ASSUME EventsCome PROVE EventsCome'
  <2> SUFFICES ASSUME NEW u \in Threads, NEW n \in DOMAIN plan'[u],
                      NEW b \in BoxesOf[plan'[u][n]] \cap EventBoxes
               PROVE  Coming(b)
    BY <1>4 DEF EventsCome
  <2>1. call[t] \in DOMAIN plan[t] /\ Method(t) = plan[t][call[t]]
    <3>1. plan[t] \in Seq(DOMAIN Program) /\ call[t] \in Nat \ {0}
      BY <1>1 DEF ClientTypes
    <3>2. QED BY <1>2, <3>1 DEF Running, Method
  <2>2. CASE u # t
    BY <1>2, <1>9, <2>2 DEF EventsCome
  <2>3. CASE u = t /\ plan'[t][n] = At(t).method
    BY <1>7, <1>9, <2>1, <2>3 DEF EventsCome
  <2>4. CASE u = t /\ \E k \in DOMAIN plan[t] : plan'[t][n] = plan[t][k]
    BY <1>9, <2>4 DEF EventsCome
  <2>5. QED BY <1>2, <2>2, <2>3, <2>4
<1>10. ASSUME DueComes PROVE DueComes'
  <2> SUFFICES ASSUME NEW u \in Threads, Running(u)', NEW b \in Knows(u)'.due
               PROVE  Provided(b)' \/ (b \in EmptiedForNothing /\ shared'[u])
    BY DEF DueComes
  <2>1. u # t
    <3> SUFFICES ASSUME u = t PROVE FALSE
      OBVIOUS
    <3>1. plan'[t] \in Seq(DOMAIN Program) /\ call'[t] \in Nat \ {0}
      BY <1>1 DEF ClientTypes
    <3>2. Method(t)' \in DOMAIN Program
      BY <3>1 DEF Running, Method
    <3>3. QED BY <1>2, <3>2, KnownAtFirst DEF Knows
  <2>2. Provided(b) \/ (b \in EmptiedForNothing /\ shared[u])
    BY <1>3, <1>10, <2>1 DEF DueComes
  <2>3. ASSUME NEW v \in Threads, b \in Owes(v) PROVE b \in Owes(v)'
    <3>1. v # t
      BY <1>6, <2>3
    <3>2. QED BY <1>2, <1>3, <2>3, <3>1 DEF Owes
  <2>4. Provided(b) => Provided(b)'
    BY <1>4, <2>3 DEF Provided
  <2>5. QED BY <1>2, <2>1, <2>2, <2>4
<1>11. QED BY <1>2, <1>8, <1>9, <1>10 DEF ComingInv

LEMMA ComingClears ==
  ASSUME AnswerInv, AnswerInv', ComingInv, NEW t \in Threads, Clears(t)
  PROVE  ComingInv'
<1> DEFINE m == Method(t)
           n == pc[t]
           boxes == At(t).boxes
<1>1. /\ Running(t) /\ At(t).op = "clear" /\ plan' = plan /\ OnTheWay' = OnTheWay
      /\ fault' = fault
      /\ Continue(t, n + 1) /\ ShareAt(t, boxes, <<t, call[t], n - 1>>, n + 1)
      /\ box' = [b \in Boxes |-> IF b \in boxes THEN None ELSE box[b]]
  BY DEF Clears, Doing, OnTheWay
<1>2. ClientTypes /\ ClientTypes' /\ shared \in [Threads -> BOOLEAN]
  BY DEF AnswerInv, ClientTypes
<1>3. /\ m \in DOMAIN Program /\ n \in DOMAIN Program[m] /\ n \in Nat
      /\ n + 1 \in Nat /\ n + 1 > n /\ n + 1 \in Nexts(m, n)
  BY <1>1, <1>2, AtShape DEF Nexts
<1>4. /\ shared' \in [Threads -> BOOLEAN]
      /\ \A u \in Threads \ {t} :
           ~shared'[u] => ~shared[u] /\ ~(InCall(u) /\ BoxesOf[Method(u)] \cap boxes # {})
      /\ ~shared'[t] /\ ~Ending(t, n + 1) => ~shared[t]
  BY <1>1, <1>2, Shares
<1>5. \A u \in Threads \ {t} : call'[u] = call[u] /\ pc'[u] = pc[u]
  BY <1>1, <1>2, <1>3, Moves
<1>6. \A b \in Boxes : Coming(b) => Coming(b)' \/ b \in boxes
  BY <1>1 DEF Coming, Writes
<1>7. SendsFor(m, n) = {}
  BY <1>1 DEF SendsFor, At
<1>8. \A u \in Threads : \A b \in Owes(u) : b \in Owes(u)'
  <2>1. Owes(t) \subseteq Owes(t)'
    BY <1>1, <1>2, <1>3, <1>7, OwesMoves
  <2>2. \A u \in Threads \ {t} : Owes(u)' = Owes(u)
    BY <1>1, <1>5, OwesStays
  <2>3. QED BY <2>1, <2>2
<1>9. ASSUME NEW b \in boxes \ EmptiedForNothing PROVE Provided(b)'
  <2>1. b \in OwedAt(m, n + 1)
    BY <1>1, <1>3, OwedShape DEF OwesOn, At
  <2>2. n + 1 \in DOMAIN Program[m] /\ b \in Owed(m, n + 1)
    BY <2>1 DEF OwedAt
  <2>3. ~Ending(t, n + 1)
    BY <1>3, <2>2, ProgramShape DEF Ending
  <2>4. call'[t] = call[t] /\ pc'[t] = n + 1
    BY <1>1, <1>2, <1>3, <2>3, Moves
  <2>5. Owes(t)' = Owed(m, n + 1)
    BY <1>1, <2>4 DEF Owes, Running, Method
  <2>6. QED BY <2>2, <2>5 DEF Provided
<1>10. boxes \cap EventBoxes = {}
  BY <1>1, <1>3, InstructionShape DEF EventsAreLeft, At
<1>11. ASSUME NEW u \in Threads, Running(u)', NEW b \in Knows(u)'.due
       PROVE  /\ Running(u) /\ b \in Knows(u).due
              /\ shared[u] \/ b \in boxes => shared'[u]
  <2>1. CASE u = t
    <3>1. After(Known[m][n], m, n).due = Known[m][n].due \ boxes
      BY <1>1, <1>3, AfterClear DEF At
    <3>2. ~Ending(t, n + 1) /\ b \in Knows(t).due /\ b \notin boxes
      BY <1>1, <1>2, <1>3, <1>11, <2>1, <3>1, DueMoves DEF Knows
    <3>3. shared[t] => shared'[t]
      BY <1>2, <1>4, <3>2
    <3>4. QED BY <1>1, <2>1, <3>2, <3>3
  <2>2. CASE u # t
    <3>1. shared[u] \in BOOLEAN /\ shared'[u] \in BOOLEAN
      BY <1>2, <1>4
    <3>2. ~shared'[u] => ~shared[u] /\ ~(InCall(u) /\ BoxesOf[Method(u)] \cap boxes # {})
      BY <1>4, <2>2
    <3>3. call'[u] = call[u] /\ pc'[u] = pc[u]
      BY <1>5, <2>2
    <3> HIDE DEF boxes
    <3>4. QED BY ONLY <1>1, <1>2, <1>11, <3>1, <3>2, <3>3, DueBeside
  <2>3. QED BY <2>1, <2>2
<1>12. RaisesAlone'
  BY <1>1 DEF ComingInv, RaisesAlone, Writes
<1> HIDE DEF boxes
<1>13. ASSUME fault = "raises" PROVE EventsCome' /\ DueComes'
  <2>1. EventsCome /\ DueComes
    BY <1>13 DEF ComingInv
  <2>2. \A u \in Threads : \A b \in Owes(u) : b \in Owes(u)' \/ Coming(b)'
    BY <1>8
  <2>3. \A u \in Threads : Running(u)' => \A b \in Knows(u)'.due :
          Running(u) /\ b \in Knows(u).due
          /\ (b \in EmptiedForNothing /\ (shared[u] \/ b \in boxes) => shared'[u])
    BY <1>11
  <2>4. QED BY ONLY <1>1, <1>2, <1>6, <1>9, <1>10, <2>1, <2>2, <2>3, ComingStep
<1>14. QED BY <1>1, <1>12, <1>13 DEF ComingInv

\* The answers of a request are on the way, for every box it asks for.
LEMMA SentComes ==
  ASSUME ClientTypes, NEW t \in Threads, Running(t), At(t).op = "send", NEW id
  PROVE  \A b \in Touched(At(t)) : \E message \in Sent(t, id) : b \in Writes(message)
<1>1. At(t).boxes = {} /\ "messages" \in DOMAIN At(t)
  BY AtShape, InstructionShape DEF InstructionFits, At
<1> SUFFICES ASSUME NEW b \in Touched(At(t))
             PROVE  \E message \in Sent(t, id) : b \in Writes(message)
  OBVIOUS
<1>2. PICK left \in At(t).messages : b \in {left[n] : n \in DOMAIN left}
  BY <1>1 DEF Touched
<1> DEFINE message == [id |-> id, left |-> left]
<1>3. message \in Sent(t, id) /\ message.left = left
  BY DEF Sent
<1>4. b \in Writes(message)
  BY <1>2, <1>3 DEF Writes
<1>5. QED BY <1>3, <1>4

\* No request brings a message that raises.
LEMMA SentNoRaise ==
  ASSUME AnswerInv, ComingInv, NEW t \in Threads, Running(t),
         At(t).op = "send" \/ Resending(At(t)), NEW id \in Ids,
         OnTheWay' = OnTheWay \cup Sent(t, id)
  PROVE  RaisesAlone'
<1>1. ClientTypes
  BY DEF AnswerInv
<1>2. "raise" \notin Touched(At(t))
  BY <1>1, AtShape, InstructionShape DEF EventsAreLeft, At
<1>3. \A message \in Sent(t, id) : "raise" \notin Writes(message)
  BY <1>1, <1>2, SentShape
<1>4. QED BY <1>3 DEF ComingInv, RaisesAlone, Writes

LEMMA ComingSends ==
  ASSUME AnswerInv, AnswerInv', ComingInv, NEW t \in Threads, Sends(t)
  PROVE  ComingInv'
<1> DEFINE m == Method(t)
           n == pc[t]
           boxes == Touched(At(t))
           id == <<t, call[t], n>>
<1>1. /\ Running(t) /\ At(t).op = "send" /\ plan' = plan /\ call' = call /\ box' = box
      /\ fault' = fault /\ ShareAt(t, boxes, id, n + 1)
      /\ OnTheWay' = OnTheWay \cup Sent(t, id)
      /\ pc' = [pc EXCEPT ![t] = n + 1]
  BY DEF Sends, Doing, OnTheWay, Sent
<1>2. ClientTypes /\ ClientTypes' /\ shared \in [Threads -> BOOLEAN]
  BY DEF AnswerInv, ClientTypes
<1>3. /\ m \in DOMAIN Program /\ n \in DOMAIN Program[m] /\ n \in Nat \ {0}
      /\ call[t] \in Nat /\ n + 1 \in Nexts(m, n)
  BY <1>1, <1>2, AtShape DEF Nexts, ClientTypes
<1>4. n + 1 \in DOMAIN Program[m] /\ ~Ending(t, n + 1)
  <2>1. n < Len(Program[m])
    BY <1>1, <1>3, InstructionShape DEF Follows, At
  <2>2. QED BY <1>3, <2>1, ProgramShape DEF Ending
<1>5. boxes = Asks(m, n) /\ boxes = SendsFor(m, n)
  BY <1>1, <1>3 DEF Asks, SendsFor, At
<1>6. /\ shared' \in [Threads -> BOOLEAN]
      /\ \A u \in Threads \ {t} :
           ~shared'[u] => ~shared[u] /\ ~(InCall(u) /\ BoxesOf[Method(u)] \cap boxes # {})
      /\ ~shared'[t] => ~shared[t]
  BY <1>1, <1>2, <1>4, Shares
<1>7. id \in Ids
  BY <1>3 DEF Ids
<1>8. RaisesAlone'
  BY <1>1, <1>7, SentNoRaise
<1>9. \A b \in Boxes : Coming(b) => Coming(b)'
  BY <1>1 DEF Coming, Writes
<1>10. \A b \in boxes : Coming(b)'
  <2>1. \A b \in boxes : \E message \in Sent(t, id) : b \in Writes(message)
    BY <1>1, <1>2, SentComes
  <2> HIDE DEF boxes, id
  <2>2. QED BY <1>1, <2>1 DEF Coming, Writes
<1>11. pc'[t] = n + 1 /\ \A u \in Threads \ {t} : pc'[u] = pc[u]
  BY <1>1, <1>2 DEF ClientTypes
<1>12. Running(t)' /\ Knows(t)' = Known[m][n + 1] /\ Owes(t)' = Owed(m, n + 1) /\ Owes(t) = Owed(m, n)
  BY <1>1, <1>11 DEF Knows, Method, Running, Owes
<1>13. \A u \in Threads : \A b \in Owes(u) : b \in Owes(u)' \/ Coming(b)'
  <2>1. Owes(t) \ boxes \subseteq Owes(t)'
    BY <1>3, <1>4, <1>5, <1>12, OwedShape DEF OwesOn, OwedAt
  <2>2. \A u \in Threads \ {t} : Owes(u)' = Owes(u)
    BY <1>1, <1>11, OwesStays
  <2>3. QED BY <1>10, <2>1, <2>2
<1>14. ASSUME NEW u \in Threads, Running(u)', NEW b \in Knows(u)'.due
       PROVE  Coming(b)' \/ (Running(u) /\ b \in Knows(u).due /\ (shared[u] => shared'[u]))
  <2>1. CASE u = t
    <3>1. b \in Known[m][n].due \cup boxes
      BY <1>1, <1>3, <1>4, <1>5, <1>12, <1>14, <2>1, KnownAfter, AfterSend DEF At
    <3>2. shared[t] => shared'[t]
      BY <1>2, <1>6
    <3>3. QED BY <1>1, <1>10, <2>1, <3>1, <3>2 DEF Knows
  <2>2. CASE u # t
    <3>1. Running(u) /\ b \in Knows(u).due
      BY <1>1, <1>11, <1>14, <2>2, OwesStays
    <3>2. QED BY <1>2, <1>6, <2>2, <3>1
  <2>3. QED BY <2>1, <2>2
<1>15. ASSUME fault = "raises" PROVE EventsCome' /\ DueComes'
  <2>1. EventsCome /\ DueComes
    BY <1>15 DEF ComingInv
  <2>2. {} \cap EventBoxes = {} /\ \A b \in {} \ EmptiedForNothing : Provided(b)'
    OBVIOUS
  <2>3. \A u \in Threads : Running(u)' => \A b \in Knows(u)'.due :
          \/ Coming(b)'
          \/ Running(u) /\ b \in Knows(u).due
             /\ (b \in EmptiedForNothing /\ (shared[u] \/ b \in {}) => shared'[u])
    BY <1>14
  <2>4. QED BY ONLY <1>1, <1>2, <1>9, <1>13, <2>1, <2>2, <2>3, ComingStep
<1>16. QED BY <1>1, <1>8, <1>15 DEF ComingInv

\* Who sends again still owes, and has due, what it had before.
LEMMA ComingResends ==
  ASSUME AnswerInv, AnswerInv', ComingInv, NEW t \in Threads, Resends(t)
  PROVE  ComingInv'
<1> DEFINE m == Method(t)
           n == pc[t]
           boxes == Touched(At(t))
           id == CHOOSE i \in {asked[t][b] : b \in At(t).boxes} : TRUE
<1>1. /\ Running(t) /\ Resending(At(t)) /\ UNCHANGED <<plan, call, pc, asked, box, fault>>
      /\ ShareAt(t, boxes, id, n) /\ OnTheWay' = OnTheWay \cup Sent(t, id)
  BY DEF Resends, Doing, Resending, OnTheWay, Sent
<1>2. ClientTypes /\ AskedInv /\ KnowsInv /\ shared \in [Threads -> BOOLEAN]
  BY DEF AnswerInv, ClientTypes
<1>3. /\ m \in DOMAIN Program /\ n \in DOMAIN Program[m] /\ n \in Nat \ {0}
      /\ ~Ending(t, n) /\ call[t] \in Nat
  BY <1>1, <1>2, AtShape DEF ClientTypes, Ending
<1>4. id \in Ids
  <2>1. PICK a \in At(t).boxes : At(t).boxes = {a}
    BY <1>1, <1>3, InstructionShape DEF InstructionFits, At
  <2>2. a \in Knows(t).asked
    BY <1>1, <1>3, <2>1, InstructionShape DEF Follows, At, Knows
  <2>3. a \in DOMAIN asked[t]
    BY <1>1, <1>2, <2>2 DEF KnowsInv
  <2>4. {asked[t][b] : b \in At(t).boxes} = {asked[t][a]}
    BY <2>1
  <2>5. PICK j \in 1..(n - 1) : asked[t][a] = <<t, call[t], j>>
    BY <1>2, <2>3 DEF AskedInv
  <2>6. id = asked[t][a]
    BY <2>4
  <2> HIDE DEF id
  <2>7. QED BY <1>3, <2>5, <2>6 DEF Ids
<1> HIDE DEF id
<1>5. \A u \in Threads : shared[u] => shared'[u]
  BY <1>1, <1>2, <1>3, Shares
<1>6. \A u \in Threads :
        Running(u)' = Running(u) /\ Knows(u)' = Knows(u) /\ Owes(u)' = Owes(u)
  BY <1>1, OwesStays
<1>7. RaisesAlone'
  BY <1>1, <1>4, SentNoRaise
<1>8. \A b \in Boxes : Coming(b) => Coming(b)'
  BY <1>1 DEF Coming, Writes
<1>9. ASSUME fault = "raises" PROVE EventsCome' /\ DueComes'
  <2>1. EventsCome /\ DueComes /\ plan' = plan
    BY <1>1, <1>9 DEF ComingInv
  <2>2. {} \cap EventBoxes = {} /\ \A b \in {} \ EmptiedForNothing : Provided(b)'
    OBVIOUS
  <2>3. QED BY ONLY <1>2, <1>5, <1>6, <1>8, <2>1, <2>2, ComingStep
<1>10. QED BY <1>1, <1>7, <1>9 DEF ComingInv

-----------------------------------------------------------------------------

\* The websocket may bring what is to come: that is enough for both threads.
LEMMA ComingSocket ==
  ASSUME AnswerInv, ComingInv, UNCHANGED <<callVars, fault>>, RaisesAlone',
         fault = "raises" => \A b \in Boxes : Coming(b) => Coming(b)'
  PROVE  ComingInv'
<1>1. plan' = plan /\ call' = call /\ pc' = pc /\ shared' = shared /\ fault' = fault
  BY DEF callVars
<1>2. ClientTypes
  BY DEF AnswerInv
<1>3. \A u \in Threads :
        Running(u)' = Running(u) /\ Knows(u)' = Knows(u) /\ Owes(u)' = Owes(u)
  BY <1>1, OwesStays
<1>4. ASSUME fault = "raises" PROVE EventsCome' /\ DueComes'
  <2>1. EventsCome /\ DueComes /\ \A b \in Boxes : Coming(b) => Coming(b)'
    BY <1>4 DEF ComingInv
  <2>2. {} \cap EventBoxes = {} /\ \A b \in {} \ EmptiedForNothing : Provided(b)'
    OBVIOUS
  <2>3. QED BY ONLY <1>1, <1>2, <1>3, <2>1, <2>2, ComingStep
<1>5. QED BY <1>1, <1>4 DEF ComingInv

\* No message is taken for none.
LEMMA MessageIsSome ==
  ASSUME AnswerInv, NEW message \in OnTheWay
  PROVE  message # None /\ message.id # None /\ message \in [id : Ids, left : Seq(Names)]
<1>1. message \in [id : Ids, left : Seq(Names)]
  BY DEF AnswerInv, MessagesInv
<1>2. message.id \in Ids
  BY <1>1
<1>3. QED BY <1>1, <1>2, NoneAssumption

LEMMA ComingReceives ==
  ASSUME AnswerInv, ComingInv, Receives
  PROVE  ComingInv'
<1>1. PICK message \in net : handling = None /\ handling' = message /\ net' = net \ {message}
  BY DEF Receives
<1>2. message # None
  BY <1>1, MessageIsSome DEF OnTheWay
<1>3. OnTheWay' = OnTheWay
  BY <1>1, <1>2 DEF OnTheWay
<1>4. box' = box /\ UNCHANGED <<callVars, fault>>
  BY DEF Receives
<1>5. RaisesAlone'
  BY <1>3 DEF ComingInv, RaisesAlone, Writes
<1>6. \A b \in Boxes : Coming(b) => Coming(b)'
  BY <1>3, <1>4 DEF Coming, Writes
<1>7. QED BY <1>4, <1>5, <1>6, ComingSocket

\* The message that raises takes no answer with it.
LEMMA ComingRaises ==
  ASSUME AnswerInv, ComingInv, Raises
  PROVE  ComingInv'
<1>1. /\ handling # None /\ Head(handling.left) = "raise" /\ handling' = None
      /\ box' = box /\ net' = net /\ UNCHANGED <<callVars, fault>>
  BY DEF Raises
<1>2. OnTheWay' = net /\ OnTheWay = net \cup {handling}
  BY <1>1 DEF OnTheWay
<1>3. RaisesAlone'
  BY <1>2 DEF ComingInv, RaisesAlone, Writes
<1>4. ASSUME NEW b \in Boxes, b \in Writes(handling) PROVE FALSE
  <2>1. handling.left \in Seq(Names)
    BY <1>2, MessageIsSome
  <2>2. handling.left # << >>
    BY <1>4 DEF Writes
  <2>3. 1 \in DOMAIN handling.left /\ handling.left[1] = "raise"
    BY <1>1, <2>1, <2>2
  <2>4. "raise" \in Writes(handling)
    BY <2>3 DEF Writes
  <2>5. b = "raise"
    BY <1>2, <1>4, <2>4 DEF ComingInv, RaisesAlone
  <2>6. QED BY <2>5, ProgramsAssumption DEF Boxes
<1>5. \A b \in Boxes : Coming(b) => Coming(b)'
  BY <1>1, <1>2, <1>4 DEF Coming, Writes
<1>6. QED BY <1>1, <1>3, <1>5, ComingSocket

LEMMA ComingHandles ==
  ASSUME AnswerInv, ComingInv, Handles
  PROVE  ComingInv'
<1> DEFINE filled == Head(handling.left)
           rest == [handling EXCEPT !.left = Tail(handling.left)]
<1>1. /\ handling # None /\ handling.left # << >> /\ net' = net
      /\ box' = [box EXCEPT ![filled] = handling.id] /\ UNCHANGED <<callVars, fault>>
      /\ handling' = IF Len(handling.left) = 1 THEN None ELSE rest
  BY DEF Handles
<1>2. OnTheWay = net \cup {handling}
  BY <1>1 DEF OnTheWay
<1>3. /\ handling \in [id : Ids, left : Seq(Names)] /\ handling.id # None
      /\ handling.left \in Seq(Names)
  BY <1>2, MessageIsSome
<1>4. /\ Tail(handling.left) \in Seq(Names)
      /\ \A i \in DOMAIN handling.left : i # 1 =>
           i - 1 \in DOMAIN Tail(handling.left) /\ Tail(handling.left)[i - 1] = handling.left[i]
      /\ \A i \in DOMAIN Tail(handling.left) :
           i + 1 \in DOMAIN handling.left /\ Tail(handling.left)[i] = handling.left[i + 1]
      /\ handling.left[1] = filled
      /\ Len(handling.left) = 1 => DOMAIN handling.left = {1}
  BY <1>1, <1>3
<1> HIDE DEF filled
<1>5. rest \in [id : Ids, left : Seq(Names)] /\ rest.left = Tail(handling.left)
  BY <1>3, <1>4
<1>6. rest # None
  BY <1>5, NoneAssumption
<1> HIDE DEF rest
<1>7. Writes(rest) \subseteq Writes(handling) /\ Writes(handling) \subseteq {filled} \cup Writes(rest)
  <2>1. Writes(rest) \subseteq Writes(handling)
    BY <1>4, <1>5 DEF Writes
  <2>2. ASSUME NEW b \in Writes(handling), b # filled PROVE b \in Writes(rest)
    <3>1. PICK i \in DOMAIN handling.left : b = handling.left[i]
      BY <2>2 DEF Writes
    <3>2. i # 1
      BY <1>4, <2>2, <3>1
    <3>3. QED BY <1>4, <1>5, <3>1, <3>2 DEF Writes
  <2>3. QED BY <2>1, <2>2
<1>8. Len(handling.left) = 1 => Writes(handling) \subseteq {filled}
  BY <1>4 DEF Writes
<1>9. OnTheWay' = net \cup (IF Len(handling.left) = 1 THEN {} ELSE {rest})
  BY <1>1, <1>6 DEF OnTheWay
<1>10. RaisesAlone'
  <2> SUFFICES ASSUME NEW message \in OnTheWay', "raise" \in Writes(message)
               PROVE  Writes(message) \subseteq {"raise"}
    BY DEF RaisesAlone, Writes
  <2>1. CASE message \in net
    BY <1>2, <2>1 DEF ComingInv, RaisesAlone
  <2>2. CASE message = rest
    BY <1>2, <1>7, <2>2 DEF ComingInv, RaisesAlone
  <2>3. QED BY <1>9, <2>1, <2>2
<1>11. ASSUME NEW b \in Boxes, Coming(b) PROVE Coming(b)'
  <2>1. DOMAIN box = Boxes
    BY DEF AnswerInv, ClientTypes
  <2>2. CASE b = filled
    BY <1>1, <1>3, <2>1, <2>2 DEF Coming
  <2>3. CASE b # filled
    <3>1. CASE box[b] # None
      BY <1>1, <2>1, <2>3, <3>1 DEF Coming
    <3>2. CASE \E message \in net : b \in Writes(message)
      BY <1>9, <3>2 DEF Coming, Writes
    <3>3. CASE b \in Writes(handling)
      <4>1. Len(handling.left) # 1 /\ b \in Writes(rest)
        BY <1>7, <1>8, <2>3, <3>3
      <4>2. QED BY <1>9, <4>1 DEF Coming, Writes
    <3>4. QED BY <1>2, <1>11, <3>1, <3>2, <3>3 DEF Coming
  <2>4. QED BY <2>2, <2>3
<1>12. QED BY <1>1, <1>10, <1>11, ComingSocket

LEMMA ComingOther ==
  ASSUME AnswerInv, ComingInv, TimeSync \/ Loses \/ UNCHANGED clientVars
  PROVE  ComingInv'
<1>1. UNCHANGED <<callVars, fault>> /\ box' = box
  BY DEF TimeSync, Loses, clientVars, callVars
<1>2. OnTheWay' \subseteq OnTheWay /\ (fault = "raises" => OnTheWay' = OnTheWay)
  BY DEF TimeSync, Loses, clientVars, OnTheWay
<1>3. RaisesAlone'
  BY <1>2 DEF ComingInv, RaisesAlone, Writes
<1>4. fault = "raises" => \A b \in Boxes : Coming(b) => Coming(b)'
  BY <1>1, <1>2 DEF Coming, Writes
<1>5. QED BY <1>1, <1>3, <1>4, ComingSocket

-----------------------------------------------------------------------------

LEMMA ComingInitially == ClientInit => ComingInv
<1> SUFFICES ASSUME ClientInit PROVE ComingInv
  OBVIOUS
<1> DEFINE used == UNION {UNION {BoxesOf[plan[t][n]] : n \in DOMAIN plan[t]} : t \in Threads}
<1>1. OnTheWay = {Event(<<b>>) : b \in EventBoxes \cap used}
                 \cup {Event(<<"raise">>) : f \in {fault} \cap {"raises"}}
  BY DEF ClientInit, OnTheWay
<1>2. \A b : Writes(Event(<<b>>)) = {b}
  <2> TAKE b
  <2>1. Event(<<b>>).left = <<b>> /\ DOMAIN <<b>> = {1} /\ <<b>>[1] = b
    BY DEF Event
  <2>2. QED BY <2>1 DEF Writes
<1>3. RaisesAlone
  <2> SUFFICES ASSUME NEW message \in OnTheWay, "raise" \in Writes(message)
               PROVE  Writes(message) \subseteq {"raise"}
    BY DEF RaisesAlone
  <2>1. PICK b : message = Event(<<b>>)
    BY <1>1
  <2>2. Writes(message) = {b}
    BY <1>2, <2>1
  <2>3. QED BY <2>2
<1>4. EventsCome
  <2> SUFFICES ASSUME NEW t \in Threads, NEW n \in DOMAIN plan[t],
                      NEW b \in BoxesOf[plan[t][n]] \cap EventBoxes
               PROVE  Coming(b)
    BY DEF EventsCome
  <2>1. b \in used
    OBVIOUS
  <2>2. Event(<<b>>) \in OnTheWay
    BY <1>1, <2>1
  <2>3. QED BY <1>2, <2>2 DEF Coming
<1>5. DueComes
  <2> SUFFICES ASSUME NEW t \in Threads, Running(t) PROVE Knows(t).due = {}
    BY DEF DueComes
  <2>1. ClientTypes /\ pc[t] = 1
    BY AnswerInitially DEF AnswerInv, ClientInit
  <2>2. QED BY <2>1, AtShape, KnownAtFirst DEF Knows
<1>6. QED BY <1>3, <1>4, <1>5 DEF ComingInv

LEMMA ComingMoves ==
  AnswerInv /\ AnswerInv' /\ ComingInv /\ [ClientNext]_clientVars => ComingInv'
<1> SUFFICES ASSUME AnswerInv, AnswerInv', ComingInv, [ClientNext]_clientVars
             PROVE  ComingInv'
  OBVIOUS
<1>1. ASSUME NEW t \in Threads, Clears(t) PROVE ComingInv'
  BY <1>1, ComingClears
<1>2. ASSUME NEW t \in Threads, Sends(t) PROVE ComingInv'
  BY <1>2, ComingSends
<1>3. ASSUME NEW t \in Threads, Awakes(t) \/ Reads(t) PROVE ComingInv'
  BY <1>3, ComingAwakes
<1>4. ASSUME NEW t \in Threads, GivesUp(t) PROVE ComingInv'
  <2>1. Running(t) /\ At(t).op \in {"awaitOr", "mayReturn"}
    BY <1>4 DEF GivesUp, Doing
  <2>2. QED BY <1>4, <2>1, ComingReturn DEF GivesUp
<1>5. ASSUME NEW t \in Threads, Resends(t) PROVE ComingInv'
  BY <1>5, ComingResends
<1>6. ASSUME NEW t \in Threads, Branches(t) PROVE ComingInv'
  BY <1>6, ComingBranches
<1>7. CASE Receives
  BY <1>7, ComingReceives
<1>8. CASE Handles
  BY <1>8, ComingHandles
<1>9. CASE Raises
  BY <1>9, ComingRaises
<1>10. CASE TimeSync \/ Loses \/ UNCHANGED clientVars
  BY <1>10, ComingOther
<1>11. ASSUME NEW t \in Threads, Repeats(t) PROVE ComingInv'
  BY <1>11, ComingRepeats
<1>12. QED
  BY <1>1, <1>2, <1>3, <1>4, <1>5, <1>6, <1>7, <1>8, <1>9, <1>10, <1>11 DEF ClientNext, Calls

-----------------------------------------------------------------------------
(* What the inductive invariants say of who reads and who waits. *)

LEMMA AnswerRead == AnswerInv => AnswerIsOwn
<1> SUFFICES ASSUME AnswerInv, NEW t \in Threads, Doing(t, "read"), ~shared[t],
                    Method(t) # "close_position_v2", NEW b \in At(t).boxes \ {"betinfo_dict"}
             PROVE  box[b] # None /\ (b \in DOMAIN asked[t] => box[b] = asked[t][b])
  BY DEF AnswerIsOwn
<1>1. Running(t) /\ At(t).op = "read"
  BY DEF Doing
<1>2. Method(t) \in DOMAIN Program /\ pc[t] \in DOMAIN Program[Method(t)]
  BY <1>1, AtShape DEF AnswerInv
<1>3. /\ b \in Knows(t).filled
      /\ b \notin EventBoxes => b \in Knows(t).own
  BY <1>1, <1>2, InstructionShape DEF Follows, Knows, At, LateData
<1>4. Alone(t)
  BY <1>1 DEF AnswerInv, KnowsInv
<1>5. box[b] # None
  BY <1>3, <1>4 DEF Alone
<1>6. ASSUME b \in DOMAIN asked[t] PROVE b \notin EventBoxes
  <2>1. PICK k \in 1..(pc[t] - 1) : b \in Asks(Method(t), k)
    BY <1>6 DEF AnswerInv, AskedInv
  <2>2. /\ k \in DOMAIN Program[Method(t)] /\ Program[Method(t)][k].op = "send"
        /\ b \in Touched(Program[Method(t)][k])
    BY <2>1 DEF Asks
  <2>3. QED BY <1>2, <2>2, InstructionShape DEF EventsAreLeft
<1>7. QED BY <1>3, <1>4, <1>5, <1>6 DEF Alone, IsOwn, Latest


LEMMA AnswerWaited == AnswerInv /\ ComingInv => AnswerIsComing
<1> SUFFICES ASSUME AnswerInv, ComingInv, fault = "raises", NEW t \in Threads, Waiting(t),
                    NEW b \in At(t).boxes
             PROVE  \/ Coming(b)
                    \/ \E u \in Threads \ {t} : Running(u) /\ b \in Owed(Method(u), pc[u])
                    \/ /\ b \in EmptiedForNothing
                       /\ \/ shared[t]
                          \/ Method(t) \in {"sell_option", "buy", "buy_by_raw_expirations"}
  BY DEF AnswerIsComing, Coming
<1> DEFINE m == Method(t)
           n == pc[t]
<1>1. Running(t) /\ At(t).op \in Waits
  BY DEF Waiting, Doing, Waits
<1>2. ClientTypes /\ EventsCome /\ DueComes
  BY DEF AnswerInv, ComingInv
<1>3. m \in DOMAIN Program /\ n \in DOMAIN Program[m]
  BY <1>1, <1>2, AtShape
<1>4. b \in Knows(t).due \cup EventBoxes \cup
        IF m \in {"sell_option", "buy", "buy_by_raw_expirations"} THEN EmptiedForNothing ELSE {}
  BY <1>1, <1>3, InstructionShape DEF Follows, Knows, At
<1>5. b \notin Owes(t)
  BY <1>1, <1>3, OwedShape DEF OwesOn, Owes, At
<1>6. CASE b \in Knows(t).due
  <2>1. Provided(b) \/ (b \in EmptiedForNothing /\ shared[t])
    BY <1>1, <1>2, <1>6 DEF DueComes
  <2>2. ASSUME NEW u \in Threads, b \in Owes(u)
        PROVE  u # t /\ Running(u) /\ b \in Owed(Method(u), pc[u])
    BY <1>5, <2>2 DEF Owes
  <2>3. QED BY <2>1, <2>2 DEF Provided
<1>7. CASE b \in EventBoxes
  <2>1. call[t] \in DOMAIN plan[t]
    <3>1. plan[t] \in Seq(DOMAIN Program) /\ call[t] \in Nat \ {0}
      BY <1>2 DEF ClientTypes
    <3>2. QED BY <1>1, <3>1 DEF Running
  <2>2. b \in Touched(Program[m][n])
    BY DEF Touched, At
  <2>3. b \in BoxesOf[m]
    BY <1>3, <2>2 DEF BoxesOf
  <2>4. QED BY <1>2, <1>7, <2>1, <2>3 DEF EventsCome, Method
<1>8. QED BY <1>4, <1>6, <1>7

\* stable_api.py, all request methods, for every plan of the two threads: a method that
\* met no other request for its boxes reads the answers to its own requests, and where
\* no answer is lost, nobody waits for a box that nobody will fill.
THEOREM AnswersFitHolds == ClientSpec => []AnswersFit
<1>1. ClientInit => AnswerInv /\ ComingInv
  BY AnswerInitially, ComingInitially
<1>2. (AnswerInv /\ ComingInv) /\ [ClientNext]_clientVars => (AnswerInv /\ ComingInv)'
  BY AnswerStep, ComingMoves
<1>3. AnswerInv /\ ComingInv => AnswersFit
  BY AnswerRead, AnswerWaited DEF AnswersFit
<1>4. QED BY <1>1, <1>2, <1>3, PTL DEF ClientSpec
=============================================================================
