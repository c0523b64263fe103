------------------------------ MODULE Download ------------------------------
(***************************************************************************)
(* The loop of http_get_content() in src/hub.c that moves a body of known  *)
(* length from a connection to a file: its waiting for data, counted in    *)
(* ticks of the system timer, the file made as long as the body before the *)
(* first byte is written, and the progress bar drawn on the way.  What     *)
(* write() returns is not looked at: on a full disk a write stores a part  *)
(* of its bytes, or none, and the loop goes on as if it had stored all.    *)
(*                                                                         *)
(* Bytes are counted here; that they are the right ones is the subject of  *)
(* HttpTransfer.  The clock, the server and the loop run side by side: any *)
(* number of ticks may pass and bytes arrive between two turns of the loop.*)
(***************************************************************************)
EXTENDS Naturals

CONSTANTS
  Lengths,      \* the values of Content-Length
  Widths,       \* columns of the screen
  Extra,        \* bytes the server may send beyond Content-Length
  BufferSize,   \* TCP_BUFFER_SIZE
  TicksToWait,  \* TICKS_TO_WAIT
  TimerRange,   \* SYSTIMER counts modulo this, 2^16
  MaxLag        \* bound of the model: ticks between two turns of the loop

ASSUME DownloadAssumption ==
  /\ Lengths \subseteq Nat /\ Widths \subseteq 1..255 /\ Extra \in Nat
  /\ BufferSize \in Nat \ {0} /\ TicksToWait \in Nat \ {0}
  /\ TimerRange \in Nat \ {0} /\ MaxLag \in 1..TimerRange - 1

VARIABLES
  pc,                \* "open", "rest", "copy", then "done", "timeout" or "dead"
  content_length,
  rest,              \* bytes of the body that came with the headers
  size,              \* progress_bar_size
  n,                 \* a number of bytes, then one of ticks
  bytes_written,     \* bytes given to write()
  stored,            \* the file pointer: those of them on the disk
  file_size,
  blockSize, currentBlock, current_bar_size,
  ticks,             \* of the timer since sys_timer_hold was read
  arrived,           \* bytes received by the TCP/IP stack and not by hub
  unsent,            \* bytes the server has still to send
  waited             \* history: ticks since hub last received something

bar == <<blockSize, currentBlock, current_bar_size>>
network == <<arrived, unsent>>
given == <<content_length, rest, size>>
file == <<bytes_written, stored, file_size>>
vars == <<pc, given, n, file, bar, ticks, network, waited>>

Least(a, b) == IF a <= b THEN a ELSE b

\* get_screen_size() - 24 - 12 in an unsigned char.
BarSize(width) == (width + 256 - 36) % 256

Init ==
  /\ pc = "open"
  /\ content_length \in Lengths
  /\ \E extra \in 0..Extra :
       /\ rest \in 0..Least(BufferSize, content_length + extra)
       /\ unsent = content_length + extra - rest
  /\ \E width \in Widths : size = BarSize(width)
  /\ n = 0 /\ bytes_written = 0 /\ stored = 0 /\ file_size = 0
  /\ blockSize = 0 /\ currentBlock = 0 /\ current_bar_size = 0
  /\ ticks = 0 /\ arrived = 0 /\ waited = 0

-----------------------------------------------------------------------------
\* Mutant: the last byte is sought one too far.
Preallocated_OneMore == IF content_length > 2 THEN content_length + 1 ELSE 0

\* The length of the file after preallocate(), which writes its last byte first,
\* if nothing fails.
Preallocated == IF content_length > 2 THEN content_length ELSE 0

\* The file has been created and made as long as the disk allows; the bar is
\* divided into blocks.  A bar of no columns divides by zero, with whatever
\* result.
OpenFile ==
  /\ pc = "open"
  /\ file_size' \in 0..Preallocated
  /\ IF size = 0 THEN blockSize' \in 0..content_length
                 ELSE blockSize' = content_length \div size
  /\ currentBlock' = 0 /\ current_bar_size' = 0
  /\ pc' = "rest"
  /\ UNCHANGED <<given, n, bytes_written, stored, ticks, network, waited>>

\* Turns of the loop that draws the bar, with total bytes not drawn.
Turns(total) ==
  IF blockSize = 0 THEN size - current_bar_size
  ELSE Least(size - current_bar_size, total \div blockSize)

\* Mutant: what is left of a block is forgotten.
Draw_NoRemainder(received) ==
  LET k == Turns(currentBlock + received)
  IN  /\ current_bar_size' = current_bar_size + k
      /\ currentBlock' = IF k > 0 THEN 0 ELSE currentBlock + received
      /\ UNCHANGED blockSize

\* progress_bar()
Draw(received) ==
  LET total == currentBlock + received
      k     == Turns(total)
  IN  /\ current_bar_size' = current_bar_size + k
      /\ currentBlock' = total - k * blockSize
      /\ UNCHANGED blockSize

\* write() from the file pointer on, which a failed write moves less far.
Write(received) ==
  /\ bytes_written' = bytes_written + received
  /\ stored' \in stored..stored + received
  /\ file_size' = IF stored' > file_size THEN stored' ELSE file_size

\* What came with the headers is written, and its length stays in n.
WriteRest ==
  /\ pc = "rest"
  /\ IF rest > 0
     THEN n' = rest /\ Write(rest) /\ Draw(rest)
     ELSE UNCHANGED <<n, file, bar>>
  /\ ticks' = 0 /\ waited' = 0
  /\ pc' = "copy"
  /\ UNCHANGED <<given, network>>

\* Mutant: the counter is not cleared when data arrive.
Cleared_Not(count) == count

\* n after a turn in which data were received.
Cleared(count) == 0

\* *SYSTIMER != sys_timer_hold
Ticked == ticks % TimerRange # 0

\* Mutant: the counter stands still.
Counted_Not == n

\* n after the timer has been looked at.
Counted == IF Ticked THEN n + 1 ELSE n

\* One turn of the loop: the timer, then what has arrived, if anything has.
Turn ==
  /\ pc = "copy"
  /\ bytes_written < content_length
  /\ ticks' = IF Ticked THEN 0 ELSE ticks
  /\ \/ /\ Counted >= TicksToWait
        /\ pc' = "timeout" /\ n' = Counted
        /\ UNCHANGED <<file, bar, network, waited>>
     \/ /\ Counted < TicksToWait /\ arrived > 0
        /\ LET k == Least(arrived, BufferSize)
           IN  Write(k) /\ Draw(k) /\ arrived' = arrived - k
        /\ n' = Cleared(Counted) /\ waited' = 0
        /\ UNCHANGED <<pc, unsent>>
     \/ /\ Counted < TicksToWait /\ arrived = 0
        /\ n' = Counted
        /\ UNCHANGED <<pc, file, bar, network, waited>>
  /\ UNCHANGED given

\* ESC, or TCP_RCV finds the connection lost.
Abort ==
  /\ pc = "copy"
  /\ bytes_written < content_length
  /\ pc' = "dead"
  /\ UNCHANGED <<given, n, file, bar, ticks, network, waited>>

CloseFile ==
  /\ pc = "copy"
  /\ bytes_written >= content_length
  /\ pc' = "done"
  /\ UNCHANGED <<given, n, file, bar, ticks, network, waited>>

-----------------------------------------------------------------------------
(* The clock and the server                                                *)

Tick ==
  /\ pc = "copy"
  /\ ticks < MaxLag
  /\ ticks' = ticks + 1
  /\ waited' = Least(waited + 1, TicksToWait)
  /\ UNCHANGED <<pc, given, n, file, bar, network>>

Arrive ==
  /\ pc = "copy"
  /\ \E k \in 1..unsent : arrived' = arrived + k /\ unsent' = unsent - k
  /\ UNCHANGED <<pc, given, n, file, bar, ticks, waited>>

Ended == pc \in {"done", "timeout", "dead"}
Terminated == Ended /\ UNCHANGED vars

Loop == OpenFile \/ WriteRest \/ Turn \/ CloseFile

Next == Loop \/ Abort \/ Tick \/ Arrive \/ Terminated

\* hub runs, and so does the clock; the server may stop sending.
Spec == Init /\ [][Next]_vars /\ WF_vars(Loop) /\ WF_vars(Tick)

-----------------------------------------------------------------------------
(* Properties                                                              *)

\* The bar shows how much has been received, in whole blocks, however the body
\* was divided into segments; if the body is shorter than the bar, all at once;
\* so it is full when a file has been received.
BarHonest ==
  pc \notin {"open", "rest"} =>
    current_bar_size = IF blockSize = 0 THEN IF bytes_written > 0 THEN size ELSE 0
                       ELSE Least(size, bytes_written \div blockSize)

\* When a file has been received it is as long as what was written to it: of
\* the length reserved before nothing is left over.  On a full disk, where hub
\* says nothing, it is at least as long as what could be stored and no longer
\* than what was received.
FileSize == pc = "done" => file_size \in stored..bytes_written

\* hub gives up only after TICKS_TO_WAIT ticks without data.  The wait for the
\* first segment is shorter by what came with the headers, since n still holds
\* that number of bytes when it begins to count ticks.
PatientEnough ==
  pc = "timeout" => waited + (IF bytes_written = rest THEN rest ELSE 0) >= TicksToWait

\* A download ends even if the server falls silent in the middle of it.
DownloadEnds == <>Ended
=============================================================================
