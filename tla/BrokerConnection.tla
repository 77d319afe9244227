-------------------------- MODULE BrokerConnection --------------------------
(* How the trading engine gets, keeps and loses its connection to the broker:  *)
(* IQConnector of strategy.py above IQ_Option.connect and IQOptionAPI.connect. *)
(* The connector runs each attempt in a thread and gives up on it after 30 s,   *)
(* but the thread goes on, and all threads share the flags of global_value and  *)
(* the class attributes of the api.                                             *)
EXTENDS Naturals, Sequences

CONSTANTS Streams,       \* the candle streams of the engine
          ATTEMPTS,      \* attempts of one connect()
          MaxThreads,    \* bound: connection attempts, in all
          MaxFaults      \* bound: timeouts, closed sockets, expired sessions, failed logins

ASSUME LinkAssumption == MaxThreads \in Nat

Sockets == 1..2 * MaxThreads
Objects == 0..MaxThreads     \* IQ_Option objects; a timeout makes a new one

VARIABLES
  engine,      \* what the thread of the engine does
  attempt,     \* of the connect() it is in; 0 in the connect of get_all_init
  object,      \* the IQ_Option object of the connector
  lists,       \* object -> subscribe_candle
  toStart,     \* assets whose stream start_all_streams has not started
  current,     \* object -> its socket, 0 before the first
  threads,     \* the attempts, in order: [pc, object, todo, last, outer, fell]; outer
               \* are the todos of the connects this one was called in, last that it
               \* logged in, fell that a connect inside it did not return True
  socket,      \* socket -> "none", "opening", "open", "closed"
  live,        \* socket -> streams the broker began to send on it
  accepted,    \* sockets on which the broker took the session
  asked,       \* sockets with a session the broker has not answered
  late,        \* streams whose start gave up after 20 s
  flag, err,   \* check_websocket_if_connect, check_websocket_if_error
  writing,     \* ssl_Mutual_exclusion_write
  ssid, profile, balanceKnown,
  faults

linkVars == <<engine, attempt, object, lists, toStart, current, threads, socket, live, accepted,
              asked, late, flag, err, writing, ssid, profile, balanceKnown, faults>>
engineVars == <<engine, attempt, object, lists, toStart>>
socketVars == <<current, socket, live, accepted, asked, flag, err>>
sessionVars == <<ssid, profile, balanceKnown>>

LinkInit ==
  /\ engine = "attempt" /\ attempt = 1 /\ object = 0 /\ toStart = Streams
  /\ lists = [o \in Objects |-> {}] /\ current = [o \in Objects |-> 0]
  /\ threads = << >>
  /\ socket = [w \in Sockets |-> "none"] /\ live = [w \in Sockets |-> {}]
  /\ accepted = {} /\ asked = {} /\ late = {}
  /\ flag = "none" /\ err = FALSE /\ writing = FALSE
  /\ ssid = "none" /\ profile = "none" /\ balanceKnown = FALSE
  /\ faults = 0

Threads == DOMAIN threads
Ended == {"true", "false", "raised"}
Fault == faults < MaxFaults /\ faults' = faults + 1
SocketOf(k) == current[threads[k].object]
IsOpen(w) == w # 0 /\ socket[w] = "open"
FreshSocket == CHOOSE w \in Sockets : socket[w] = "none" /\ \A v \in 1..(w - 1) : socket[v] # "none"
To(k, pc) == threads' = [threads EXCEPT ![k].pc = pc]

\* connect() returns, or raises. Where it was called in re_subscribe_stream nobody looks
\* at what it returned: the stream is tried again; an exception ends the loop there.
Ends(k, verdict) ==
  LET t == threads[k] IN
  threads' = [threads EXCEPT ![k] =
    IF t.outer = << >> THEN [t EXCEPT !.pc = verdict]
    ELSE [t EXCEPT !.pc = "streams", !.outer = Tail(t.outer), !.fell = @ \/ verdict # "true",
                   !.todo = IF verdict = "raised" THEN {} ELSE Head(t.outer)]]

\* send_websocket_request: waits for the flag, raises it, sends, lowers it. On a closed
\* socket send() raises, and the flag stays up.
SendOn(w) == ~writing /\ IsOpen(w) /\ UNCHANGED writing
SendFails(w) == ~writing /\ ~IsOpen(w) /\ writing' = (w # 0)

----------------------------------------------------------------------------
(* The thread of an attempt *)

\* start_websocket
StartSocket(k, closed) ==
  /\ socket' = [w \in Sockets |-> IF w \in closed THEN "closed"
                                  ELSE IF w = FreshSocket THEN "opening" ELSE socket[w]]
  /\ current' = [current EXCEPT ![threads[k].object] = FreshSocket]
  /\ flag' = "none" /\ err' = FALSE

\* The old socket is closed and its thread joined; the flags of the senders are lowered.
Opens(k) ==
  /\ threads[k].pc = "new" /\ (\E w \in Sockets : socket[w] = "none")
  /\ StartSocket(k, {SocketOf(k)}) /\ writing' = FALSE
  /\ To(k, "starting")
  /\ UNCHANGED <<engineVars, live, accepted, asked, late, sessionVars, faults>>

WaitsForSocket(k) ==
  /\ threads[k].pc = "starting"
  /\ \/ (err \/ flag = "0") /\ Ends(k, "false")
     \/ ~err /\ flag = "1" /\ To(k, IF ssid = "none" THEN "login" ELSE "ask")
  /\ UNCHANGED <<engineVars, socketVars, late, writing, sessionVars, faults>>

\* The second start_websocket of an attempt: its verdict is not looked at.
WaitsAgain(k) ==
  /\ threads[k].pc = "restarting" /\ (err \/ flag # "none")
  /\ To(k, "ask")
  /\ UNCHANGED <<engineVars, socketVars, late, writing, sessionVars, faults>>

\* send_ssid
ProfileKept == profile
ProfileAtAsk == "none"
SendsSsid(k) ==
  /\ threads[k].pc = "ask" /\ profile' = ProfileAtAsk
  /\ \/ SendOn(SocketOf(k)) /\ asked' = asked \cup {SocketOf(k)} /\ To(k, "profile")
     \/ SendFails(SocketOf(k)) /\ Ends(k, "raised") /\ UNCHANGED asked
  /\ UNCHANGED <<engineVars, current, socket, live, accepted, flag, err, late, ssid,
                 balanceKnown, faults>>

SeesProfile(k) ==
  /\ threads[k].pc = "profile" /\ profile # "none"
  /\ To(k, IF profile = "no" /\ ~threads[k].last THEN "login" ELSE "stamp")
  /\ UNCHANGED <<engineVars, socketVars, late, writing, sessionVars, faults>>

\* get_ssid: the login over http. The first session of the program goes to the socket
\* that is open; a refused one is replaced on a second socket.
LogsIn(k) ==
  /\ threads[k].pc = "login" /\ ssid' = "good"
  /\ IF ssid = "none"
     THEN threads' = [threads EXCEPT ![k].pc = "ask", ![k].last = TRUE]
          /\ UNCHANGED <<current, socket, flag, err>>
     ELSE /\ \E w \in Sockets : socket[w] = "none"
          /\ threads' = [threads EXCEPT ![k].pc = "restarting", ![k].last = TRUE]
          /\ StartSocket(k, {})
  /\ UNCHANGED <<engineVars, live, accepted, asked, late, writing, profile, balanceKnown, faults>>

LoginFails(k) ==
  /\ threads[k].pc = "login" /\ Fault
  /\ \E verdict \in {"false", "raised"} : Ends(k, verdict)
  /\ IF ssid = "none"
     THEN socket' = [socket EXCEPT ![SocketOf(k)] = "closed"] /\ flag' = "0"
     ELSE UNCHANGED <<socket, flag>>
  /\ UNCHANGED <<engineVars, current, live, accepted, asked, err, late, writing, sessionVars>>

\* The clock of the broker arrives on any socket.
SeesClock(k) ==
  /\ threads[k].pc = "stamp" /\ \E w \in Sockets : IsOpen(w)
  /\ threads' = [threads EXCEPT ![k].pc = "streams", ![k].todo = lists[threads[k].object]]
  /\ UNCHANGED <<engineVars, socketVars, late, writing, sessionVars, faults>>

\* start_candles_one_stream: sends until the candles come, for 20 s at most.
Streamed(w, s) ==
  /\ SendOn(w) /\ w \in accepted
  /\ live' = [live EXCEPT ![w] = @ \cup {s}] /\ UNCHANGED late
GivenUp(s) == late' = late \cup {s} /\ UNCHANGED <<live, writing>>

\* re_subscribe_stream: each stream is started again; where send() raises,
\* start_candles_one_stream calls connect().
Resubscribes(k) ==
  /\ threads[k].pc = "streams"
  /\ \/ /\ threads[k].todo = {} /\ To(k, "account") /\ UNCHANGED <<live, late, writing>>
     \/ \E s \in threads[k].todo :
          /\ Streamed(SocketOf(k), s) \/ GivenUp(s)
          /\ threads' = [threads EXCEPT ![k].todo = @ \ {s}]
     \/ /\ threads[k].todo # {} /\ SendFails(SocketOf(k)) /\ UNCHANGED <<live, late>>
        /\ threads' = [threads EXCEPT ![k].pc = "new", ![k].last = FALSE, ![k].fell = FALSE,
                          ![k].outer = <<threads[k].todo>> \o @]
  /\ UNCHANGED <<engineVars, current, socket, accepted, asked, flag, err, sessionVars, faults>>

\* position_change_all, order_changed_all, setOptions
SubscribesAccount(k) ==
  /\ threads[k].pc = "account" /\ balanceKnown
  /\ \/ SendOn(SocketOf(k)) /\ Ends(k, "true")
     \/ SendFails(SocketOf(k)) /\ Ends(k, "raised")
  /\ UNCHANGED <<engineVars, socketVars, late, sessionVars, faults>>

ThreadStep(k) ==
  \/ Opens(k) \/ WaitsForSocket(k) \/ WaitsAgain(k) \/ SendsSsid(k) \/ SeesProfile(k)
  \/ LogsIn(k) \/ SeesClock(k) \/ Resubscribes(k) \/ SubscribesAccount(k)

----------------------------------------------------------------------------
(* The broker and the callbacks of the sockets *)

SocketOpens(w) ==
  /\ socket[w] = "opening" /\ socket' = [socket EXCEPT ![w] = "open"] /\ flag' = "1"
  /\ UNCHANGED <<engineVars, current, threads, live, accepted, asked, late, err, writing,
                 sessionVars, faults>>

\* on_error and on_close, or on_close alone; a socket that does not open has an error.
SocketCloses(w) ==
  /\ socket[w] \in {"opening", "open"} /\ Fault
  /\ socket' = [socket EXCEPT ![w] = "closed"] /\ flag' = "0"
  /\ err' \in {err \/ socket[w] = "opening", TRUE}
  /\ UNCHANGED <<engineVars, current, threads, live, accepted, asked, late, writing, sessionVars>>

AnswersSsid(w) ==
  /\ IsOpen(w) /\ w \in asked /\ asked' = asked \ {w}
  /\ IF ssid = "good"
     THEN profile' = "yes" /\ balanceKnown' = TRUE /\ accepted' = accepted \cup {w}
     ELSE profile' = "no" /\ UNCHANGED <<balanceKnown, accepted>>
  /\ UNCHANGED <<engineVars, current, threads, socket, live, flag, err, late, writing, ssid, faults>>

SessionExpires ==
  /\ ssid = "good" /\ Fault /\ ssid' = "bad"
  /\ UNCHANGED <<engineVars, socketVars, threads, late, writing, profile, balanceKnown>>

----------------------------------------------------------------------------
(* The engine *)

EngineTo(e) == engine' = e /\ UNCHANGED <<attempt, object, lists, toStart>>

Spawn ==
  /\ Len(threads) < MaxThreads
  /\ threads' = Append(threads, [pc |-> "new", object |-> object, todo |-> {}, last |-> FALSE,
                                 outer |-> << >>, fell |-> FALSE])
Latest == Len(threads)

Attempts ==
  /\ engine = "attempt" /\ attempt <= ATTEMPTS /\ Spawn
  /\ EngineTo("joining")
  /\ UNCHANGED <<socketVars, late, writing, sessionVars, faults>>

NextAttempt == engine' = "attempt" /\ attempt' = attempt + 1 /\ UNCHANGED toStart

Joins ==
  /\ engine = "joining" /\ threads[Latest].pc \in Ended
  /\ \/ threads[Latest].pc = "true" /\ EngineTo("changing")
     \/ threads[Latest].pc # "true" /\ NextAttempt /\ UNCHANGED <<object, lists>>
  /\ UNCHANGED <<socketVars, threads, late, writing, sessionVars, faults>>

\* After 30 s: a new IQ_Option, which has no streams and no socket.
ListsOfNew == {}
JoinTimesOut ==
  /\ engine = "joining" /\ threads[Latest].pc \notin Ended /\ Fault
  /\ object' = object + 1 /\ lists' = [lists EXCEPT ![object + 1] = ListsOfNew]
  /\ NextAttempt
  /\ UNCHANGED <<socketVars, threads, late, writing, sessionVars>>

\* change_balance: waits for the profile, then moves the subscriptions of the account; it
\* raises where the profile is False.
ChangesBalance ==
  /\ engine = "changing"
  /\ \/ profile = "yes" /\ SendOn(current[object]) /\ EngineTo("connected")
     \/ profile = "yes" /\ SendFails(current[object]) /\ NextAttempt /\ UNCHANGED <<object, lists>>
     \/ profile = "no" /\ NextAttempt /\ UNCHANGED <<object, lists, writing>>
  /\ UNCHANGED <<socketVars, threads, late, sessionVars, faults>>

\* connect() returns False: the engine ends, or tries again after 15 s.
GivesUpConnecting ==
  /\ engine = "attempt" /\ attempt > ATTEMPTS
  /\ IF toStart = {} THEN EngineTo("balance") ELSE EngineTo("ended")
  /\ UNCHANGED <<socketVars, threads, late, writing, sessionVars, faults>>

\* start_all_streams, once; after a reconnect the loop goes on.
StartsStreams ==
  /\ engine \in {"connected", "streams"}
  /\ IF toStart = {} THEN EngineTo("balance") ELSE engine = "connected" /\ EngineTo("streams")
  /\ UNCHANGED <<socketVars, threads, late, writing, sessionVars, faults>>

\* start_candles_stream of the next asset: its history, then its stream. Where send()
\* raises, either connects on its own and sends again.
NextStream == CHOOSE s \in toStart : TRUE
ListsStream(s) == lists' = [lists EXCEPT ![object] = @ \cup {s}]
FirstStreams ==
  /\ engine = "streams" /\ toStart # {}
  /\ \/ /\ Streamed(current[object], NextStream) \/ GivenUp(NextStream)
        /\ ListsStream(NextStream) /\ toStart' = toStart \ {NextStream}
        /\ UNCHANGED <<engine, threads>>
     \/ /\ SendFails(current[object]) /\ Spawn /\ engine' = "innerStreams"
        /\ ListsStream(NextStream) \/ UNCHANGED lists
        /\ UNCHANGED <<toStart, live, late>>
  /\ UNCHANGED <<attempt, object, current, socket, accepted, asked, flag, err, sessionVars, faults>>

\* An exception of that connect ends the start of the asset.
InnerStreamsEnd ==
  /\ engine = "innerStreams" /\ threads[Latest].pc \in Ended
  /\ engine' = "streams"
  /\ toStart' = IF threads[Latest].pc = "raised" THEN toStart \ {NextStream} ELSE toStart
  /\ UNCHANGED <<attempt, object, lists, socketVars, threads, late, writing, sessionVars, faults>>

\* get_balance: where send() raises the answer is None, and the engine reconnects.
AsksBalance ==
  /\ engine = "balance"
  /\ \/ SendOn(current[object]) /\ EngineTo("waitBalance")
     \/ SendFails(current[object]) /\ engine' = "attempt" /\ attempt' = 1
        /\ UNCHANGED <<object, lists, toStart>>
  /\ UNCHANGED <<socketVars, threads, late, sessionVars, faults>>

\* The answer comes while the socket is open. get_balances waits without a limit.
GetsBalance ==
  /\ engine = "waitBalance" /\ IsOpen(current[object]) /\ EngineTo("profit")
  /\ UNCHANGED <<socketVars, threads, late, writing, sessionVars, faults>>

\* get_all_init: where send() raises it connects on its own and sends again; if that
\* raises, get_profit_dict goes on without an answer.
AsksProfit ==
  /\ engine = "profit"
  /\ \/ SendOn(current[object]) /\ EngineTo("trade") /\ UNCHANGED threads
     \/ SendFails(current[object]) /\ Spawn /\ EngineTo("inner")
  /\ UNCHANGED <<socketVars, late, sessionVars, faults>>
InnerConnectEnds ==
  /\ engine = "inner" /\ threads[Latest].pc \in Ended
  /\ EngineTo(IF threads[Latest].pc = "raised" THEN "trade" ELSE "profit")
  /\ UNCHANGED <<socketVars, threads, late, writing, sessionVars, faults>>

\* buy() or no signal. Where send() raises, IQConnector.buy answers "refused".
Trades ==
  /\ engine = "trade" /\ EngineTo("balance")
  /\ \/ UNCHANGED writing
     \/ SendOn(current[object])
     \/ SendFails(current[object])
  /\ UNCHANGED <<socketVars, threads, late, sessionVars, faults>>

EngineWorks ==
  \/ Attempts \/ Joins \/ ChangesBalance \/ GivesUpConnecting \/ StartsStreams \/ FirstStreams
  \/ InnerStreamsEnd \/ AsksBalance \/ GetsBalance \/ AsksProfit \/ InnerConnectEnds \/ Trades

LinkNext ==
  \/ \E k \in Threads : ThreadStep(k) \/ LoginFails(k)
  \/ \E w \in Sockets : SocketOpens(w) \/ SocketCloses(w) \/ AnswersSsid(w)
  \/ SessionExpires \/ EngineWorks \/ JoinTimesOut

\* The threads run, and sockets that do not fail open and answer.
LinkFairness ==
  /\ WF_linkVars(EngineWorks)
  /\ \A k \in 1..MaxThreads : WF_linkVars(k \in Threads /\ ThreadStep(k))
  /\ \A w \in Sockets : WF_linkVars(SocketOpens(w)) /\ WF_linkVars(AnswersSsid(w))

LinkSpec == LinkInit /\ [][LinkNext]_linkVars /\ LinkFairness

----------------------------------------------------------------------------

\* stable_api.py 78-125, api.py 751-812: as long as no attempt timed out, an attempt
\* that says True has had its own socket opened and its own session taken. Left out are
\* the attempts where nobody looks: those that logged in, the first of the program among
\* them, whose second verdict is ignored (api.py 788, 799), and those that went on from a
\* connect inside them that had failed (stable_api.py 59-60, 555).
VerdictIsOwn ==
  object = 0 => \A k \in Threads :
    (threads[k].pc = "true" /\ ~threads[k].last /\ ~threads[k].fell /\ k = Latest)
      => current[0] \in accepted

\* strategy.py 290-332, stable_api.py 54-125: when connect() has returned True, with no
\* failed connect inside it, the streams of the engine are on its socket again, or gave up
\* after 20 s; they are forgotten only where an attempt timed out, and then for good.
StreamsFollow ==
  engine = "connected" =>
    /\ threads[Latest].fell \/ lists[object] \subseteq live[current[object]] \cup late
    /\ (\E o \in Objects : lists[o] # {}) /\ lists[object] = {}
         => \E k \in Threads : threads[k].object < object

\* strategy.py 347-353 says of get_balance "Retorna saldo atual. None se falhar.", and the
\* loop answers None with "Conexão perdida. Tentando reconectar..." (763): an engine whose
\* socket is closed comes to reconnect.
LossIsNoticed ==
  (engine \in {"balance", "waitBalance", "profit", "trade"} /\ ~IsOpen(current[object]))
    ~> (engine = "connected" \/ engine \in {"attempt", "joining", "inner"})

\* strategy.py 280-345, stable_api.py 54-125: what connect() has done when it says True.
ConnectionHolds == VerdictIsOwn /\ StreamsFollow
=============================================================================
