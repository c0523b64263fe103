--------------------------- MODULE TcpCallsProofs ---------------------------
(***************************************************************************)
(* What holds of TcpCalls for any number of connections, lengths of lines, *)
(* step size and patience.  The connections, the line being sent and the   *)
(* timer do not depend on each other, so there is an inductive invariant   *)
(* for each of them.                                                       *)
(***************************************************************************)
EXTENDS TcpCalls, SequenceTheorems, TLAPS

-----------------------------------------------------------------------------
(* Connections                                                             *)

States == Active \cup {"free", "resident", "closing"}

\* No query or opening begins with a connection in *conn, and only a command
\* that has ended may have found none free.
Connections ==
  /\ conn \in 0..MaxConn
  /\ pool \in [Conns -> States]
  /\ pc \in {"answer", "open"} => conn = 0
  /\ result = "no free" => pc = "exit"
  /\ OneOpen
  /\ ConnectionToHave

LEMMA ClosedConnections ==
  ASSUME pool \in [Conns -> States], NEW number
  PROVE  /\ Closed(number) \in [Conns -> States]
         /\ \A c \in Conns : Closed(number)[c] \in Active =>
              pool[c] \in Active /\ number \notin {0, c}
BY DEF Closed, States, Active

LEMMA AbortedConnections ==
  /\ Aborted \in [Conns -> States]
  /\ \A c \in Conns : Aborted[c] \in {"resident", "free"}
BY DEF Aborted, States, Active

LEMMA InitConnections == Init => Connections
BY CallsAssumption DEF Init, Connections, OneOpen, ConnectionToHave, States, Active, Conns

LEMMA Numbers ==
  /\ 0 \in 0..MaxConn
  /\ \A c \in Conns : c \in 0..MaxConn /\ c # 0
BY CallsAssumption DEF CallsAssumption, Conns

\* What a step may do that closes or finds closed what was open.
LEMMA NoneActive ==
  ASSUME pool' \in [Conns -> States], \A c \in Conns : pool'[c] \notin Active,
         conn' = 0, result' # "no free"
  PROVE  Connections'
<1>1. conn' \in 0..MaxConn
  BY Numbers
<1>2. OneOpen'
  BY DEF OneOpen
<1>3. ConnectionToHave'
  BY DEF ConnectionToHave
<1>. QED
  BY <1>1, <1>2, <1>3 DEF Connections

LEMMA NextConnections == Connections /\ [Next]_vars => Connections'
<1>. SUFFICES ASSUME Connections, [Next]_vars PROVE Connections'
  OBVIOUS
<1>. USE CallsAssumption DEF Connections, OneOpen, ConnectionToHave
<1>1. CASE InitUnapi
  BY <1>1, AbortedConnections DEF InitUnapi, Return, Die, Active
<1>2. ASSUME pc = "idle", pool' = Closed(conn), conn' = 0, UNCHANGED result \/ result' = "ok"
      PROVE  Connections'
  <2>1. pool' \in [Conns -> States] /\ \A c \in Conns : pool'[c] \notin Active
    BY <1>2, ClosedConnections
  <2>. QED
    BY <1>2, <2>1, NoneActive
<1>3. CASE Close \/ Connect
  BY <1>2, <1>3 DEF Close, Connect
<1>4. CASE Get \/ Send \/ Exit
  BY <1>4 DEF Get, Send, Exit, Die, stack
<1>5. CASE Start
  <2>1. pool' \in [Conns -> States]
    BY <1>5 DEF Start, States, Active
  <2>2. pc' = "start" /\ conn' = 0 /\ result' = "ok"
    BY <1>5 DEF Start
  <2>3. conn' \in 0..MaxConn
    BY <2>2, Numbers
  <2>. QED
    BY <2>1, <2>2, <2>3
<1>6. CASE AwaitAnswer
  BY <1>6 DEF AwaitAnswer, Die, stack
<1>7. CASE Open
  <2>. pc = "open"
    BY <1>7 DEF Open
  <2>1. \A c \in Conns : pool[c] \notin Active
    BY Numbers
  <2>2. /\ Reopened \in [Conns -> States]
        /\ \A c \in Conns : Reopened[c] \notin Active
    BY <2>1, AbortedConnections DEF Reopened, Active
  <2>3. ASSUME NEW c \in Conns, Reopened[c] = "free",
               pool' = [Reopened EXCEPT ![c] = "syn"], conn' = c,
               pc' = "state", UNCHANGED result
        PROVE  Connections'
    <3>1. pool' \in [Conns -> States]
      BY <2>2, <2>3 DEF States, Active
    <3>2. \A d \in Conns : pool'[d] \in Active => d = c
      BY <2>2, <2>3
    <3>3. conn' \in 0..MaxConn
      BY <2>3, Numbers
    <3>4. OneOpen'
      BY <2>3, <3>2
    <3>5. pc' = "state" /\ result' # "no free"
      BY <2>3
    <3>. QED
      BY <3>1, <3>3, <3>4, <3>5
  <2>4. ASSUME \A c \in Conns : Reopened[c] # "free",
               Die("no free"), pool' = Reopened, UNCHANGED conn
        PROVE  Connections'
    <3>1. \A c \in Conns : pool'[c] = "resident"
      BY <2>4, AbortedConnections DEF Reopened
    <3>. QED
      BY <2>2, <2>4, <3>1 DEF Die
  <2>5. ASSUME Die("error"), UNCHANGED <<conn, pool>>
        PROVE  Connections'
    BY <2>5 DEF Die
  <2>. QED
    BY <1>7, <2>3, <2>4, <2>5 DEF Open
<1>8. CASE AwaitState
  BY <1>8 DEF AwaitState, GiveUp, GoOn, Return, Die, stack
<1>9. CASE AwaitData
  BY <1>9 DEF AwaitData, GiveUp, GoOn, Return, Die
<1>10. CASE SendTurn \/ SendEsc \/ SendError
  BY <1>10 DEF SendTurn, SendEsc, SendError, Return, Die, stack
<1>11. CASE StackMoves
  <2>. PICK c \in Conns :
         /\ pool[c] \in Active \cup {"closing"}
         /\ \E state \in Moves(pool[c]) : pool' = [pool EXCEPT ![c] = state]
    BY <1>11 DEF StackMoves
  <2>1. PICK state \in Moves(pool[c]) : pool' = [pool EXCEPT ![c] = state]
    OBVIOUS
  <2>2. state \in States /\ (state \in Active => pool[c] \in Active)
    BY DEF Moves, States, Active
  <2>3. pool' \in [Conns -> States]
    BY <2>1, <2>2
  <2>4. \A d \in Conns : pool'[d] \in Active => pool[d] \in Active
    BY <2>1, <2>2
  <2>5. pc # "exit" /\ UNCHANGED <<pc, conn, result>>
    BY <1>11 DEF StackMoves
  <2>. QED
    BY <2>3, <2>4, <2>5
<1>12. CASE StackAnswers \/ Tick \/ Key
  BY <1>12 DEF StackAnswers, Tick, Key, stack
<1>13. CASE UNCHANGED vars
  BY <1>13 DEF vars, stack
<1>. QED
  BY <1>1, <1>3, <1>4, <1>5, <1>6, <1>7, <1>8, <1>9, <1>10, <1>11, <1>12, <1>13
  DEF Next, Loops

\* However commands end, and whatever they leave open, a running command has
\* no connection but the one in *conn.
THEOREM AlwaysOneOpen == Spec => []OneOpen
<1>1. Connections => OneOpen
  BY DEF Connections
<1>. QED BY <1>1, InitConnections, NextConnections, PTL DEF Spec

\* TCP_OPEN fails for want of a connection only if resident programs have all.
THEOREM AlwaysConnectionToHave == Spec => []ConnectionToHave
<1>1. Connections => ConnectionToHave
  BY DEF Connections
<1>. QED BY <1>1, InitConnections, NextConnections, PTL DEF Spec

-----------------------------------------------------------------------------
(* The line being sent                                                     *)

\* What is behind the pointer has been taken, what is before it is left, and
\* the call goes on as long as there is something left.
Sending ==
  /\ size \in Nat /\ data \in Nat /\ left \in Nat
  /\ data + left = size
  /\ pc # "send" => left = 0
  /\ handed = [i \in 1..data |-> i]

LEMMA Extended ==
  ASSUME NEW d \in Nat, NEW k \in Nat
  PROVE  [i \in 1..d |-> i] \o [i \in 1..k |-> d + i] = [i \in 1..d + k |-> i]
OBVIOUS

LEMMA InitSending == Init => Sending
BY DEF Init, Sending

LEMMA NextSending == Sending /\ [Next]_vars => Sending'
<1>. SUFFICES ASSUME Sending, [Next]_vars PROVE Sending'
  OBVIOUS
<1>. USE CallsAssumption DEF Sending
<1>1. CASE InitUnapi
  BY <1>1 DEF InitUnapi, Return, Die, output
<1>2. ASSUME Forget, pc' # "send" PROVE Sending'
  BY <1>2 DEF Forget
<1>3. CASE Send
  BY <1>3 DEF Send
<1>4. CASE AwaitAnswer \/ Open
  BY <1>4 DEF AwaitAnswer, Open, Die, output
<1>5. ASSUME pc # "send", pc' # "send", UNCHANGED output PROVE Sending'
  BY <1>5 DEF output
<1>6. CASE SendTurn
  <2>1. Piece \in Nat /\ Piece <= left
    BY DEF Piece, Least
  <2>2. data' = data + Piece /\ left' = left - Piece /\ size' = size
    BY <1>6 DEF SendTurn
  <2>3. handed' = [i \in 1..data' |-> i]
    BY <1>6, <2>1, <2>2, Extended DEF SendTurn
  <2>4. pc' # "send" => left' = 0
    BY <1>6, <2>2 DEF SendTurn, Return, Piece, Least
  <2>. QED
    BY <2>1, <2>2, <2>3, <2>4
<1>7. CASE SendEsc \/ SendError
  BY <1>2, <1>7 DEF SendEsc, SendError, Return, Die
<1>8. CASE Start
  BY <1>8 DEF Start, output
<1>9. CASE Close \/ Connect \/ Get \/ Exit
  BY <1>2, <1>9 DEF Close, Connect, Get, Exit, Die
<1>10. CASE AwaitState \/ AwaitData
  BY <1>5, <1>10 DEF AwaitState, AwaitData, GiveUp, GoOn, Return, Die
<1>11. CASE StackMoves \/ StackAnswers \/ Tick \/ Key
  BY <1>11 DEF StackMoves, StackAnswers, Tick, Key, output
<1>12. CASE UNCHANGED vars
  BY <1>12 DEF vars, output
<1>. QED
  BY <1>1, <1>3, <1>4, <1>6, <1>7, <1>8, <1>11, <1>12, <1>9, <1>10 DEF Next, Loops

\* A line is taken by the stack whole, in order and once, for every length and
\* step size and however often the stack's buffer is full.
THEOREM AlwaysSentInOrder == Spec => []SentInOrder
<1>1. Sending => SentInOrder
  BY DEF Sending, SentInOrder
<1>. QED BY <1>1, InitSending, NextSending, PTL DEF Spec

-----------------------------------------------------------------------------
(* The timer                                                               *)

\* hub looks at the timer less often than it ticks: the ticks it has counted,
\* with the one it will count next, are never more than those there were.
Waiting ==
  /\ n \in Nat /\ ticks \in Nat /\ waited \in 0..TicksToWait
  /\ pc \notin {"state", "recv", "exit"} => n = 0 /\ ticks = 0 /\ waited = 0
  /\ pc \in {"state", "recv"} => Counted <= waited \/ waited = TicksToWait
  /\ result = "timeout" => pc = "exit"
  /\ PatientEnough

LEMMA InitWaiting == Init => Waiting
BY CallsAssumption DEF Init, Waiting, PatientEnough

LEMMA NextWaiting == Waiting /\ [Next]_vars => Waiting'
<1>. SUFFICES ASSUME Waiting, [Next]_vars PROVE Waiting'
  OBVIOUS
<1>. USE CallsAssumption DEF Waiting, PatientEnough, Counted
<1>1. CASE InitUnapi \/ Close \/ Connect \/ Get \/ Send \/ Exit
  BY <1>1 DEF InitUnapi, Close, Connect, Get, Send, Exit, Return, Die, timer
<1>2. CASE Start
  BY <1>2 DEF Start, StopTimer
<1>3. CASE AwaitAnswer \/ Open
  <2>1. UNCHANGED timer /\ pc' \in {"answer", "open", "state", "exit"}
    BY <1>3 DEF AwaitAnswer, Open, Die
  <2>2. n = 0 /\ ticks = 0 /\ waited = 0 /\ result' # "timeout"
    BY <1>3 DEF AwaitAnswer, Open, Die
  <2>. QED
    BY <2>1, <2>2 DEF timer
<1>4. CASE AwaitState
  BY <1>4 DEF AwaitState, GiveUp, Passed, TimedOut, GoOn, Held, Least, StopTimer, Return,
              Die, timer
<1>5. CASE AwaitData
  BY <1>5 DEF AwaitData, GiveUp, Passed, TimedOut, GoOn, Held, Least, StopTimer, Return,
              Die, timer
<1>6. CASE SendTurn \/ SendEsc \/ SendError
  BY <1>6 DEF SendTurn, SendEsc, SendError, Return, Die, timer
<1>7. CASE Tick
  BY <1>7 DEF Tick, Least
<1>8. CASE StackMoves \/ StackAnswers \/ Key
  BY <1>8 DEF StackMoves, StackAnswers, Key, timer
<1>9. CASE UNCHANGED vars
  BY <1>9 DEF vars, timer
<1>. QED
  BY <1>1, <1>2, <1>3, <1>4, <1>5, <1>6, <1>7, <1>8, <1>9 DEF Next, Loops

\* hub never gives up a connection or data before TICKS_TO_WAIT ticks, however
\* irregularly its loops turn.
THEOREM AlwaysPatientEnough == Spec => []PatientEnough
<1>1. Waiting => PatientEnough
  BY DEF Waiting
<1>. QED BY <1>1, InitWaiting, NextWaiting, PTL DEF Spec
=============================================================================
