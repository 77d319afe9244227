---------------------------- MODULE BrokerClient ----------------------------
(* The threads of the program inside the broker client, and the thread of the *)
(* websocket. Callers run the programs of BrokerMethods; on_message puts the  *)
(* answers into the boxes; a flag, tested and set by hand, is to keep senders  *)
(* quiet while a message is handled. Nothing ties an answer to its request.   *)
EXTENDS BrokerMethods, Naturals, FiniteSets

CONSTANTS Plans,        \* the methods each thread calls, one function per situation
          MaxResends,   \* bound: requests sent once more and further turns of loops, in all
          None          \* an empty box

Threads == {1, 2}

VARIABLES
  plan,       \* the methods each thread calls
  call, pc,   \* per thread: the call it is in, and the next instruction
  asked,      \* per thread: box -> the request of this call that box should answer
  shared,     \* per thread: this call met another request for one of its boxes
  box,        \* box of the api object -> the request it answers
  net,        \* the messages that the broker has sent and nobody received
  handling,   \* the message in on_message, or None
  gate,       \* ssl_Mutual_exclusion
  fault,      \* what is wrong with the connection: it loses answers, or on_message raises
  resends

callVars == <<plan, call, pc, asked, shared, resends>>
socketVars == <<box, net, handling, gate, fault>>
clientVars == <<plan, call, pc, asked, shared, resends, box, net, handling, gate, fault>>

\* The boxes an instruction reads, clears or has filled.
Touched(i) ==
  i.boxes \cup IF "messages" \in DOMAIN i
               THEN UNION {{message[n] : n \in DOMAIN message} : message \in i.messages} ELSE {}
          \cup IF "counts" \in DOMAIN i THEN i.counts ELSE {}
BoxesOf == [m \in DOMAIN Program |-> UNION {Touched(Program[m][n]) : n \in DOMAIN Program[m]}]
Boxes == UNION {BoxesOf[m] : m \in DOMAIN Program}

Running(t) == call[t] <= Len(plan[t])
Method(t) == plan[t][call[t]]
At(t) == Program[Method(t)][pc[t]]
Doing(t, op) == Running(t) /\ At(t).op = op

OnTheWay == net \cup (IF handling = None THEN {} ELSE {handling})
Writes(message) == {message.left[n] : n \in DOMAIN message.left}

\* Events reach order_async, listinfodata, the profile and the quotes unasked.
\* "raise" stands for a message on which on_message ends with an exception.
Event(left) == [id |-> <<0, 0, 0>>, left |-> left]

ClientInit ==
  /\ plan \in Plans /\ fault \in {"loses", "raises"}
  /\ call = [t \in Threads |-> 1] /\ pc = [t \in Threads |-> 1]
  /\ asked = [t \in Threads |-> [b \in {} |-> None]]
  /\ shared = [t \in Threads |-> FALSE]
  /\ box = [b \in Boxes |-> None]
  /\ LET used == UNION {UNION {BoxesOf[plan[t][n]] : n \in DOMAIN plan[t]} : t \in Threads}
     IN net = {Event(<<b>>) : b \in EventBoxes \cap used}
             \cup {Event(<<"raise">>) : f \in {fault} \cap {"raises"}}
  /\ handling = None /\ gate = FALSE /\ resends = 0

----------------------------------------------------------------------------
(* Callers *)

\* The next instruction, or the end of the method and the next call.
Continue(t, next) ==
  IF next > Len(Program[Method(t)])
  THEN /\ call' = [call EXCEPT ![t] = @ + 1]
       /\ pc' = [pc EXCEPT ![t] = 1]
       /\ asked' = [asked EXCEPT ![t] = [b \in {} |-> None]]
  ELSE pc' = [pc EXCEPT ![t] = next] /\ UNCHANGED <<call, asked>>

Ending(t, next) == next > Len(Program[Method(t)])

\* History: this call and another one, or an answer left over, meet in boxes.
InCall(t) == Running(t) /\ pc[t] > 1
Meets(t, boxes, id) ==
  \/ \E u \in Threads \ {t} : InCall(u) /\ BoxesOf[Method(u)] \cap boxes # {}
  \/ \E message \in OnTheWay :
       message.id \notin {id, <<0, 0, 0>>} /\ Writes(message) \cap boxes # {}
ShareAt(t, boxes, id, next) ==
  shared' = [u \in Threads |->
    IF u = t
    THEN ~Ending(t, next) /\ (shared[t] \/ Meets(t, boxes, id))
    ELSE shared[u] \/ (InCall(u) /\ BoxesOf[Method(u)] \cap boxes # {})]
Stay(t, next) == shared' = [shared EXCEPT ![t] = @ /\ ~Ending(t, next)]

\* A mutant: the box keeps the answer it has.
ClearsNothing(t) ==
  /\ Doing(t, "clear")
  /\ Continue(t, pc[t] + 1)
  /\ ShareAt(t, At(t).boxes, <<t, call[t], pc[t] - 1>>, pc[t] + 1)
  /\ UNCHANGED <<plan, box, net, handling, gate, fault, resends>>

\* A clear may come right after the request; the answer to that one is its own.
Clears(t) ==
  /\ Doing(t, "clear")
  /\ box' = [b \in Boxes |-> IF b \in At(t).boxes THEN None ELSE box[b]]
  /\ Continue(t, pc[t] + 1)
  /\ ShareAt(t, At(t).boxes, <<t, call[t], pc[t] - 1>>, pc[t] + 1)
  /\ UNCHANGED <<plan, net, handling, gate, fault, resends>>

\* send_websocket_request: waits for the gate. The second flag only orders senders.
Sends(t) ==
  LET id == <<t, call[t], pc[t]>>
  IN /\ Doing(t, "send") /\ ~gate
     /\ net' = net \cup {[id |-> id, left |-> message] : message \in At(t).messages}
     /\ asked' = [asked EXCEPT ![t] =
          [b \in DOMAIN @ \cup Touched(At(t)) |-> IF b \in Touched(At(t)) THEN id ELSE @[b]]]
     /\ pc' = [pc EXCEPT ![t] = @ + 1]
     /\ ShareAt(t, Touched(At(t)), id, pc[t] + 1)
     /\ UNCHANGED <<plan, call, box, handling, gate, fault, resends>>

Waiting(t) ==
  \E op \in {"await", "awaitTwo", "awaitOr", "awaitOrAgain", "awaitOrResend"} : Doing(t, op)

Answered(i) ==
  IF i.op = "awaitTwo"
  THEN \E b \in i.counts : box[b] # None /\ \E c \in i.counts \ {b} : box[c] # None
  ELSE \A b \in i.boxes : box[b] # None

Awakes(t) ==
  /\ Waiting(t) /\ Answered(At(t))
  /\ Continue(t, pc[t] + 1) /\ Stay(t, pc[t] + 1)
  /\ UNCHANGED <<plan, resends, socketVars>>

\* The time is over: the whole call ends without an answer.
GivesUp(t) ==
  /\ Doing(t, "awaitOr")
  /\ Continue(t, Len(Program[Method(t)]) + 1) /\ Stay(t, Len(Program[Method(t)]) + 1)
  /\ UNCHANGED <<plan, resends, socketVars>>

\* The box is tested, then the request goes out: an answer may have come in between.
Resends(t) ==
  /\ Doing(t, "awaitOrResend") /\ resends < MaxResends /\ ~gate
  /\ LET id == CHOOSE i \in {asked[t][b] : b \in At(t).boxes} : TRUE
     IN /\ net' = net \cup {[id |-> id, left |-> message] : message \in At(t).messages}
        /\ ShareAt(t, Touched(At(t)), id, pc[t])
  /\ resends' = resends + 1
  /\ UNCHANGED <<plan, call, pc, asked, box, handling, gate, fault>>

\* One more turn of a loop, as a call of its own behind this one.
Repeats(t) ==
  /\ \/ Doing(t, "again")
     \/ Doing(t, "awaitOrAgain") /\ \E b \in At(t).boxes : box[b] = None
  /\ resends < MaxResends /\ resends' = resends + 1
  /\ plan' = [plan EXCEPT ![t] =
       SubSeq(@, 1, call[t]) \o <<At(t).method>> \o SubSeq(@, call[t] + 1, Len(@))]
  /\ Continue(t, Len(Program[Method(t)]) + 1) /\ Stay(t, Len(Program[Method(t)]) + 1)
  /\ UNCHANGED socketVars

Reads(t) ==
  /\ Doing(t, "read")
  /\ Continue(t, pc[t] + 1) /\ Stay(t, pc[t] + 1)
  /\ UNCHANGED <<plan, resends, socketVars>>

\* What the arguments and the answers decide.
Branches(t) ==
  \/ /\ Doing(t, "maybe")
     /\ \E next \in {pc[t] + 1, pc[t] + 1 + At(t).skip} : Continue(t, next) /\ Stay(t, next)
     /\ UNCHANGED <<plan, resends, socketVars>>
  \/ /\ Doing(t, "mayReturn")
     /\ \E next \in {pc[t] + 1, Len(Program[Method(t)]) + 1} : Continue(t, next) /\ Stay(t, next)
     /\ UNCHANGED <<plan, resends, socketVars>>
  \/ /\ Doing(t, "again")
     /\ Continue(t, pc[t] + 1) /\ Stay(t, pc[t] + 1)
     /\ UNCHANGED <<plan, resends, socketVars>>

Calls(t) ==
  \/ Clears(t) \/ Sends(t) \/ Awakes(t) \/ GivesUp(t) \/ Resends(t) \/ Repeats(t)
  \/ Reads(t) \/ Branches(t)

----------------------------------------------------------------------------
(* The websocket *)

\* on_message closes the gate first.
Receives ==
  /\ handling = None
  /\ \E message \in net :
       /\ handling' = message /\ net' = net \ {message}
       /\ gate' = TRUE
  /\ UNCHANGED <<box, fault, callVars>>

\* Writes one box; after the last one, the gate opens.
Handles ==
  /\ handling # None /\ handling.left # << >> /\ Head(handling.left) # "raise"
  /\ box' = [box EXCEPT ![Head(handling.left)] = handling.id]
  /\ IF Len(handling.left) = 1
     THEN handling' = None /\ gate' = FALSE
     ELSE handling' = [handling EXCEPT !.left = Tail(@)] /\ UNCHANGED gate
  /\ UNCHANGED <<net, fault, callVars>>

\* The exception is the library's to log: the gate stays closed behind it.
Raises ==
  /\ handling # None /\ Head(handling.left) = "raise"
  /\ handling' = None
  /\ UNCHANGED <<box, net, gate, fault, callVars>>


\* timeSync comes every second, fills no box, and opens the gate again.
TimeSync ==
  /\ handling = None /\ gate
  /\ gate' = FALSE
  /\ UNCHANGED <<box, net, handling, fault, callVars>>

Loses ==
  /\ fault = "loses"
  /\ \E message \in net : message.id # <<0, 0, 0>> /\ net' = net \ {message}
  /\ UNCHANGED <<box, handling, gate, fault, callVars>>

ClientNext ==
  (\E t \in Threads : Calls(t)) \/ Receives \/ Handles \/ Raises \/ TimeSync \/ Loses

\* The threads run, the websocket delivers, the broker sends its clock.
ClientFairness ==
  /\ \A t \in Threads : WF_clientVars(Calls(t))
  /\ WF_clientVars(Receives) /\ WF_clientVars(Handles) /\ WF_clientVars(Raises)
  /\ WF_clientVars(TimeSync)

ClientSpec == ClientInit /\ [][ClientNext]_clientVars /\ ClientFairness

----------------------------------------------------------------------------

\* stable_api.py, all request methods: a method that met no other request for its
\* boxes reads the answers to its own requests, and never an empty box.
\* close_position_v2 does not clear its box, and the data of get_betinfo is written
\* after the verdict it waits for.
AnswerIsOwn ==
  \A t \in Threads :
    (Doing(t, "read") /\ ~shared[t] /\ Method(t) # "close_position_v2")
      => \A b \in At(t).boxes \ {"betinfo_dict"} :
           box[b] # None /\ (b \in DOMAIN asked[t] => box[b] = asked[t][b])

\* Before instruction n of m: the boxes that m has emptied for a request yet to come.
SendsFor(m, n) == IF Program[m][n].op = "send" THEN Touched(Program[m][n]) ELSE {}
Owed(m, n) ==
  {b \in BoxesOf[m] :
     /\ \E j \in 1..(n - 1) :
          /\ Program[m][j].op = "clear" /\ b \in Program[m][j].boxes
          /\ \A k \in j..(n - 1) : b \notin SendsFor(m, k)
     /\ \E k \in n..Len(Program[m]) : b \in SendsFor(m, k)}

\* Some method empties these boxes and does not ask after that.
EmptiedForNothing == Options \cup {"result", "sold_options_respond"}

\* stable_api.py, all request methods: where no answer is lost, nobody waits for a box
\* that nobody will fill. The answer is there or on its way, or the other thread has
\* emptied the box for a request of its own that it has yet to send. Excused are the
\* boxes that a method empties for nothing, if it is the waiting one, or met it.
AnswerIsComing ==
  fault = "raises" => \A t \in Threads : Waiting(t) => \A b \in At(t).boxes :
    \/ box[b] # None \/ \E message \in OnTheWay : b \in Writes(message)
    \/ \E u \in Threads \ {t} : Running(u) /\ b \in Owed(Method(u), pc[u])
    \/ /\ b \in EmptiedForNothing
       /\ shared[t] \/ Method(t) \in {"sell_option", "buy", "buy_by_raw_expirations"}

AnswersFit == AnswerIsOwn /\ AnswerIsComing

=============================================================================
