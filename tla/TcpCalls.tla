------------------------------ MODULE TcpCalls ------------------------------
(***************************************************************************)
(* The calls of src/hub.c to the TCP/IP stack: init_unapi(), tcp_connect() *)
(* with getaddrinfo(), tcp_send(), tcp_get() and tcp_close().  Each waits  *)
(* in a loop that looks at the ESC key and, in some, at the system timer.  *)
(*                                                                         *)
(* The stack has a few connections for all programs.  Those of resident    *)
(* programs stay; the others are transient: connection 0 in a call to      *)
(* close or to abort stands for all of these.  A command of hub may end in *)
(* any call and leave its connection open, and the next command finds it.  *)
(***************************************************************************)
EXTENDS Naturals, Sequences

CONSTANTS
  MaxConn,      \* connections of the stack are numbered 1..MaxConn
  Sizes,        \* lengths of the lines to send
  StepSize,     \* TCPOUT_STEP_SIZE
  TicksToWait,  \* TICKS_TO_WAIT
  MaxLag        \* bound of the model: ticks between two turns of a loop

ASSUME CallsAssumption ==
  /\ MaxConn \in Nat \ {0} /\ Sizes \subseteq Nat \ {0}
  /\ StepSize \in Nat \ {0} /\ TicksToWait \in Nat \ {0} /\ MaxLag \in Nat \ {0}

Conns == 1..MaxConn

VARIABLES
  pc,         \* the call hub is in; "idle" between two calls
  conn,       \* *conn, 0 for none
  result,     \* how the last call ended
  esc,        \* the ESC key is down
  pool,       \* the state of each connection of the stack
  dns,        \* the stack is busy with a query
  room,       \* the stack can take more data to send
  arrived,    \* it has received data for hub
  n, ticks,   \* ticks counted in the loop; those since sys_timer_hold was read
  size, data, left, \* strlen() of the line, the pointer into it, data_size
  handed,     \* history: the bytes of the line taken by the stack
  waited      \* history: ticks since the loop was entered

stack == <<pool, dns, room, arrived>>
timer == <<n, ticks, waited>>
output == <<size, data, left, handed>>
vars == <<pc, conn, result, esc, stack, timer, output>>

Least(a, b) == IF a <= b THEN a ELSE b

Active == {"syn", "open", "half"}

Init ==
  /\ pc = "start" /\ conn = 0 /\ result = "ok" /\ esc = FALSE
  /\ pool \in [Conns -> {"free", "resident", "open"}]
  /\ dns = FALSE /\ room = TRUE /\ arrived = FALSE
  /\ n = 0 /\ ticks = 0 /\ waited = 0
  /\ size = 0 /\ data = 0 /\ left = 0 /\ handed = <<>>

Return(r) == pc' = "idle" /\ result' = r

\* die(): hub closes nothing.
Die(r) == pc' = "exit" /\ result' = r

\* The locals of a call that is over are 0 here.
StopTimer == n' = 0 /\ ticks' = 0 /\ waited' = 0
Forget == size' = 0 /\ data' = 0 /\ left' = 0 /\ handed' = <<>>

-----------------------------------------------------------------------------
(* The calls of the stack that change its connections                      *)

\* TCP_ABORT of connection 0
Aborted == [c \in Conns |-> IF pool[c] = "resident" THEN "resident" ELSE "free"]

\* TCP_CLOSE; the stack needs some time until the connection is free.
Closed(number) ==
  [c \in Conns |-> IF pool[c] \in Active /\ number \in {0, c} THEN "closing" ELSE pool[c]]

\* Mutant: what earlier programs left open is not aborted.
InitUnapi_NoAbort ==
  /\ pc = "start"
  /\ Return("ok") \/ Die("error")
  /\ UNCHANGED <<conn, esc, stack, timer, output>>

\* init_unapi(), which dies without a network card.
InitUnapi ==
  /\ pc = "start"
  /\ \/ Return("ok") /\ pool' = Aborted
     \/ Die("error") /\ UNCHANGED pool
  /\ UNCHANGED <<conn, esc, dns, room, arrived, timer, output>>

\* tcp_close()
Close ==
  /\ pc = "idle"
  /\ pool' = Closed(conn) /\ conn' = 0 /\ arrived' = FALSE /\ result' = "ok"
  /\ Forget
  /\ UNCHANGED <<pc, esc, dns, room, timer>>

\* What the stack knows of the connection hub names.
State == IF conn = 0 THEN "none" ELSE pool[conn]
Connected == State \in {"open", "half"}

-----------------------------------------------------------------------------
(* tcp_connect()                                                           *)

\* The connection hub has is closed, and DNS_Q begins a query or fails.
Connect ==
  /\ pc = "idle"
  /\ pool' = Closed(conn) /\ conn' = 0 /\ arrived' = FALSE
  /\ \/ pc' = "answer" /\ dns' = TRUE
     \/ pc' = "open" /\ UNCHANGED dns
  /\ Forget
  /\ UNCHANGED <<result, esc, room, timer>>

\* Mutant: the ESC key is not looked at.
AwaitAnswer_NoEsc ==
  /\ pc = "answer"
  /\ ~dns /\ pc' = "open" /\ UNCHANGED result
  /\ UNCHANGED <<conn, esc, stack, timer, output>>

\* getaddrinfo() waits while DNS_S says that the query goes on; its result is
\* not looked at.
AwaitAnswer ==
  /\ pc = "answer"
  /\ IF esc THEN Die("esc") ELSE ~dns /\ pc' = "open" /\ UNCHANGED result
  /\ UNCHANGED <<conn, esc, stack, timer, output>>

\* Mutant: TCP_OPEN is not repeated after ERR_NO_FREE_CONN.
Reopened_Not == pool

\* The connections with which TCP_OPEN succeeds, if there is a free one.
Reopened == IF \E c \in Conns : pool[c] = "free" THEN pool ELSE Aborted

\* TCP_OPEN, repeated after TCP_ABORT if no connection is free.
Open ==
  /\ pc = "open"
  /\ \/ \E c \in Conns :
          /\ Reopened[c] = "free"
          /\ pool' = [Reopened EXCEPT ![c] = "syn"]
          /\ conn' = c
          /\ arrived' = FALSE /\ room' = TRUE
          /\ pc' = "state" /\ UNCHANGED result
     \/ /\ \A c \in Conns : Reopened[c] # "free"
        /\ Die("no free") /\ pool' = Reopened
        /\ UNCHANGED <<conn, arrived, room>>
     \/ /\ Die("error")
        /\ UNCHANGED <<conn, pool, arrived, room>>
  /\ UNCHANGED <<esc, dns, timer, output>>

-----------------------------------------------------------------------------
(* The loops with a timer                                                  *)

\* n after the timer has been looked at.
Counted == IF ticks > 0 THEN n + 1 ELSE n

\* Mutant: sys_timer_hold keeps its first value.
Held_Kept == ticks

\* The ticks since sys_timer_hold was read, after it has been read again.
Held == 0

\* Mutant: the ticks are counted and the count is not looked at.
TimedOut_Not == FALSE

TimedOut == Counted >= TicksToWait

\* ESC, then the timer: the first two ways to leave a turn of the loop.
GiveUp ==
  /\ \/ esc /\ Die("esc")
     \/ ~esc /\ TimedOut /\ Die("timeout")
  /\ UNCHANGED timer

Passed == ~esc /\ ~TimedOut

GoOn == n' = Least(Counted, TicksToWait) /\ ticks' = Held /\ UNCHANGED <<pc, result, waited>>

\* TCP_STATE is asked until the connection is established, and for that state
\* only: a peer that has closed it again is waited for.
AwaitState ==
  /\ pc = "state"
  /\ \/ GiveUp
     \/ Passed /\ State = "open" /\ Return("ok") /\ StopTimer
     \/ Passed /\ State = "free" /\ Die("error") /\ StopTimer
     \/ Passed /\ State \in {"syn", "half"} /\ GoOn
  /\ UNCHANGED <<conn, esc, stack, output>>

\* tcp_get() is called.
Get ==
  /\ pc = "idle"
  /\ pc' = "recv"
  /\ Forget
  /\ UNCHANGED <<conn, result, esc, stack, timer>>

\* TCP_RCV gives what has arrived.  When the peer has closed the connection the
\* stack may say so or go on giving nothing.
AwaitData ==
  /\ pc = "recv"
  /\ \/ GiveUp /\ UNCHANGED arrived
     \/ /\ Passed /\ conn # 0 /\ arrived
        /\ Return("ok") /\ arrived' = FALSE /\ StopTimer
     \/ /\ Passed /\ Connected /\ ~arrived
        /\ GoOn /\ UNCHANGED arrived
     \/ /\ Passed
        /\ conn = 0 \/ (State # "open" /\ ~arrived)
        /\ Die("error") /\ UNCHANGED arrived /\ StopTimer
  /\ UNCHANGED <<conn, esc, pool, dns, room, output>>

-----------------------------------------------------------------------------
(* tcp_send()                                                              *)

Send ==
  /\ pc = "idle"
  /\ \E s \in Sizes : size' = s /\ left' = s
  /\ data' = 0 /\ handed' = <<>>
  /\ pc' = "send"
  /\ UNCHANGED <<conn, result, esc, stack, timer>>

\* Bytes of the line TCP_SEND is given.
Piece == Least(left, StepSize)

\* Mutant: the pointer is moved by a step even if the stack took nothing.
SendTurn_SkipsFull ==
  /\ pc = "send" /\ ~esc
  /\ Connected
  /\ handed' = IF room THEN handed \o [i \in 1..Piece |-> data + i] ELSE handed
  /\ data' = data + Piece
  /\ left' = left - Piece
  /\ IF left <= StepSize THEN Return("ok") ELSE UNCHANGED <<pc, result>>
  /\ UNCHANGED <<conn, esc, stack, timer, size>>

\* TCP_SEND takes a piece; while its buffer is full it is asked again.
SendTurn ==
  /\ pc = "send" /\ ~esc
  /\ Connected
  /\ room
  /\ handed' = handed \o [i \in 1..Piece |-> data + i]
  /\ data' = data + Piece
  /\ left' = left - Piece
  /\ IF left <= StepSize THEN Return("ok") ELSE UNCHANGED <<pc, result>>
  /\ UNCHANGED <<conn, esc, stack, timer, size>>

SendEsc ==
  /\ pc = "send" /\ esc
  /\ Die("esc")
  /\ Forget
  /\ UNCHANGED <<conn, esc, stack, timer>>

\* An error other than ERR_BUFFER is returned; http_send() dies of it or
\* connects again.
SendError ==
  /\ pc = "send" /\ ~esc
  /\ ~Connected
  /\ Return("error") \/ Die("error")
  /\ Forget
  /\ UNCHANGED <<conn, esc, stack, timer>>

-----------------------------------------------------------------------------
(* Commands, the stack, the clock and the user                             *)

\* The command ends, for whatever reason.
Exit ==
  /\ pc = "idle"
  /\ Die(result)
  /\ Forget
  /\ UNCHANGED <<conn, esc, stack, timer>>

\* hub is started again, after other programs that may have left connections.
Start ==
  /\ pc = "exit"
  /\ pc' = "start" /\ conn' = 0 /\ result' = "ok"
  /\ StopTimer
  /\ pool' \in {p \in [Conns -> {"free", "resident", "open"}] :
                  \A c \in Conns : p[c] = "resident" <=> pool[c] = "resident"}
  /\ UNCHANGED <<esc, dns, room, arrived, output>>

\* A connection is established or refused; the peer closes or resets it; a
\* closed one becomes free.
Moves(state) ==
  {"free"} \cup (IF state = "syn" THEN {"open"} ELSE {})
           \cup (IF state = "open" THEN {"half"} ELSE {})

StackMoves ==
  /\ pc # "exit"
  /\ \E c \in Conns :
       /\ pool[c] \in Active \cup {"closing"}
       /\ \E state \in Moves(pool[c]) : pool' = [pool EXCEPT ![c] = state]
  /\ UNCHANGED <<pc, conn, result, esc, dns, room, arrived, timer, output>>

StackAnswers ==
  /\ pc # "exit"
  /\ \/ dns /\ dns' = FALSE /\ UNCHANGED <<room, arrived>>
     \/ pc = "send" /\ room' = ~room /\ UNCHANGED <<dns, arrived>>
     \/ /\ State = "open" /\ ~arrived
        /\ arrived' = TRUE /\ UNCHANGED <<dns, room>>
  /\ UNCHANGED <<pc, conn, result, esc, pool, timer, output>>

Tick ==
  /\ pc \in {"state", "recv"}
  /\ ticks < MaxLag
  /\ ticks' = ticks + 1
  /\ waited' = Least(waited + 1, TicksToWait)
  /\ UNCHANGED <<pc, conn, result, esc, stack, n, output>>

Key ==
  /\ pc # "exit"
  /\ esc' = ~esc
  /\ UNCHANGED <<pc, conn, result, stack, timer, output>>

Loops == AwaitAnswer \/ Open \/ AwaitState \/ AwaitData \/ SendTurn \/ SendEsc \/ SendError

Next ==
  \/ InitUnapi \/ Close \/ Connect \/ Get \/ Send \/ Exit \/ Start
  \/ Loops
  \/ StackMoves \/ StackAnswers \/ Tick \/ Key

\* hub runs in its loops and the timer counts.  Nothing is assumed of the
\* stack, of the peer and of the user.
Spec == Init /\ [][Next]_vars /\ WF_vars(Loops) /\ WF_vars(Tick)

-----------------------------------------------------------------------------
(* Properties                                                              *)

\* A command has no connection but the one in *conn: those of earlier commands
\* and programs, and its own earlier ones, are closed before it opens another.
OneOpen ==
  pc \notin {"start", "exit"} => \A c \in Conns : pool[c] \in Active => c = conn

\* hub fails for want of a connection only if resident programs have them all:
\* neither connections it has just closed nor other programs' stand in its way.
ConnectionToHave ==
  result = "no free" => \A c \in Conns : pool[c] = "resident"

\* A line that tcp_send() has sent was taken by the stack whole, in order and
\* once, in steps and however often the stack's buffer was full.
SentInOrder ==
  /\ handed = [i \in 1..data |-> i]
  /\ pc = "idle" => data = size

\* A call times out only after TICKS_TO_WAIT ticks.
PatientEnough == result = "timeout" => waited >= TicksToWait

\* The waits for a connection and for data end, whatever stack and peer do.
WaitEnds == pc \in {"state", "recv"} ~> pc \notin {"state", "recv"}

\* While ESC is down no call goes on: not the wait for the name server nor the
\* one for room in the stack's buffer either, which have no timeout.
EscEnds ==
  pc \in {"answer", "open", "state", "recv", "send"} ~> ~esc \/ pc \in {"idle", "exit"}
=============================================================================
