---------------------------- MODULE BrokerPattern ----------------------------
(* What the programs of BrokerMethods have in common: which boxes a call may  *)
(* rely on before each of its instructions, if no other request met it.       *)
EXTENDS BrokerClient

\* Written after the verdict that get_betinfo waits for: nobody can rely on it.
LateData == {"betinfo_dict"}

\* asked: a request of this call is out; due: and it was not emptied since; clean: emptied
\* and not asked since; own: empty, or filled by the latest request of this call; filled:
\* waited for, not emptied since.
Nothing == [asked |-> {}, due |-> {}, clean |-> {}, own |-> {}, filled |-> {}]

Waits == {"await", "awaitTwo", "awaitOr", "awaitOrAgain", "awaitOrResend"}

Asks(m, n) == IF n \in DOMAIN Program[m] /\ Program[m][n].op = "send"
              THEN Touched(Program[m][n]) ELSE {}

\* A clear right after the request of its box leaves the answer to come.
Emptied(known, boxes, justAsked) ==
  [known EXCEPT !.due = @ \ boxes, !.clean = @ \cup (boxes \ justAsked), !.own = @ \cup boxes,
                !.filled = @ \ boxes]
AskedFor(known, boxes) ==
  [known EXCEPT !.asked = @ \cup boxes, !.due = @ \cup boxes, !.clean = @ \ boxes,
                !.own = (@ \ boxes) \cup (boxes \cap known.clean)]
WaitedFor(known, boxes) == [known EXCEPT !.filled = @ \cup boxes]

\* What instruction n of m makes of it.
After(known, m, n) ==
  LET i == Program[m][n]
  IN CASE i.op = "clear" -> Emptied(known, i.boxes, Asks(m, n - 1))
       [] i.op = "send"  -> AskedFor(known, Asks(m, n))
       [] i.op \in Waits -> WaitedFor(known, i.boxes)
       [] OTHER          -> known

\* As far as the rest of the program comes back to it: a part may have been skipped.
Rest(m, n) == UNION {Touched(Program[m][k]) : k \in n..Len(Program[m])} \ LateData
Known ==
  [m \in DOMAIN Program |->
     LET all[n \in 1..Len(Program[m])] ==
           IF n = 1 THEN Nothing ELSE After(all[n - 1], m, n - 1)
     IN [n \in 1..Len(Program[m]) |-> [f \in DOMAIN Nothing |-> all[n][f] \cap Rest(m, n)]]]

Weaker(known, than) == \A f \in DOMAIN Nothing : known[f] \subseteq than[f]

Operations == Waits \cup {"clear", "send", "read", "maybe", "mayReturn", "again"}
Resending(i) == i.op = "awaitOrResend"
Repeating(i) == i.op \in {"again", "awaitOrAgain"}

Names == Boxes \cup EventBoxes \cup {"raise"}

\* The shape of an instruction. What a request is sent again for is one box, and what
\* awaitTwo waits for is two.
InstructionFits(i) ==
  /\ i.op \in Operations /\ i.skip \in Nat
  /\ i.op \in {"send", "awaitOrResend"} => i.messages \subseteq Seq(Names) \ {<< >>}
  /\ i.op = "send" => "messages" \in DOMAIN i /\ i.boxes = {}
  /\ Resending(i) =>
       /\ "messages" \in DOMAIN i
       /\ \E b \in i.boxes : i.boxes = {b} /\ Touched(i) \subseteq {b} \cup LateData
  /\ i.op = "awaitTwo" => "counts" \in DOMAIN i /\ \E b, c \in i.boxes : i.boxes = {b, c}

\* No call asks for an event, or empties its box.
EventsAreLeft(i) ==
  /\ i.op = "clear" => i.boxes \cap (EventBoxes \cup {"raise"}) = {}
  /\ i.op = "send" \/ Resending(i) => Touched(i) \cap (EventBoxes \cup {"raise"}) = {}

\* Before instruction n: what it needs, and that the instructions that may come next
\* rely on no more than it leaves behind.
Nexts(m, n) == {n + 1} \cup IF Program[m][n].op = "maybe" THEN {n + 1 + Program[m][n].skip} ELSE {}
Follows(m, n) ==
  LET i == Program[m][n]
      known == Known[m][n]
      reliable == SUBSET (BoxesOf[m] \ LateData)
  IN /\ known \in [asked : reliable, due : reliable, clean : reliable, own : reliable, filled : reliable]
     /\ n = 1 => known = Nothing
     /\ i.op = "send" => n < Len(Program[m])
     /\ Resending(i) => i.boxes \subseteq known.asked \ known.clean
     /\ Repeating(i) => i.method \in DOMAIN Program /\ BoxesOf[i.method] \subseteq BoxesOf[m]
     /\ i.op = "awaitTwo" => i.counts \ i.boxes \subseteq known.clean
     /\ i.op = "read" => i.boxes \ LateData \subseteq known.filled
     /\ i.op = "read" /\ m # "close_position_v2" =>
          i.boxes \ (LateData \cup EventBoxes) \subseteq known.own
     /\ i.op \in Waits => i.boxes \subseteq known.due \cup EventBoxes \cup
          IF m \in {"sell_option", "buy", "buy_by_raw_expirations"} THEN EmptiedForNothing ELSE {}
     /\ \A next \in Nexts(m, n) \cap DOMAIN Program[m] :
          Weaker(Known[m][next], After(known, m, n))

\* What a call has emptied for a request to come is not forgotten on any way, nor waited for.
OwedAt(m, n) == IF n \in DOMAIN Program[m] THEN Owed(m, n) ELSE {}
OwesOn(m, n) ==
  LET i == Program[m][n]
  IN /\ i.op = "clear" => i.boxes \ EmptiedForNothing \subseteq OwedAt(m, n + 1)
     /\ i.op \in {"awaitOr", "awaitOrAgain", "again", "mayReturn"} => Owed(m, n) = {}
     /\ i.op \in Waits => i.boxes \cap Owed(m, n) = {}
     /\ \A next \in Nexts(m, n) : Owed(m, n) \ SendsFor(m, n) \subseteq OwedAt(m, next)

\* A closed statement about the programs: there is no parameter in it.
ASSUME ProgramsAssumption ==
  \A m \in DOMAIN Program :
    /\ Len(Program[m]) \in Nat \ {0} /\ DOMAIN Program[m] = 1..Len(Program[m])
    /\ "raise" \notin BoxesOf[m]
    /\ \A n \in DOMAIN Program[m] :
         /\ InstructionFits(Program[m][n]) /\ EventsAreLeft(Program[m][n])
         /\ Follows(m, n) /\ OwesOn(m, n)

ASSUME PlansAssumption == Plans \subseteq [Threads -> Seq(DOMAIN Program)]

\* The ids of requests and of events; the empty box is none of them, and no message.
Ids == (Threads \X Nat \X Nat) \cup {<<0, 0, 0>>}
ASSUME NoneAssumption == None \notin Ids /\ None \notin [id : Ids, left : Seq(Names)]
=============================================================================
