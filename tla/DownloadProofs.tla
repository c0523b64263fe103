--------------------------- MODULE DownloadProofs ---------------------------
(***************************************************************************)
(* What holds of Download for all lengths of bodies, widths of screens,    *)
(* segments and clocks.  The length of the file, the timer and the bar do  *)
(* not depend on each other, so there is an inductive invariant for each.  *)
(***************************************************************************)
EXTENDS Download, TLAPS

-----------------------------------------------------------------------------
(* Arithmetic                                                              *)

LEMMA SmallModulo ==
  ASSUME NEW m \in Nat, NEW r \in Nat, m < r
  PROVE  m % r = m
BY SMTT(30)

LEMMA DivBounds ==
  ASSUME NEW a \in Nat, NEW b \in Nat \ {0}
  PROVE  /\ a \div b \in Nat
         /\ (a \div b) * b <= a
         /\ a < (a \div b + 1) * b
BY SMTT(30)

LEMMA DivUnique ==
  ASSUME NEW a \in Nat, NEW b \in Nat \ {0}, NEW q \in Nat,
         q * b <= a, a < (q + 1) * b
  PROVE  a \div b = q
BY SMTT(30)

LEMMA NothingDrawn == \A b \in Nat : 0 * b = 0 /\ (b # 0 => 0 \div b = 0)
BY SMTT(30)

\* Blocks may be counted from the last block drawn instead of from the beginning.
LEMMA DivFromBlock ==
  ASSUME NEW w \in Nat, NEW r \in Nat, NEW b \in Nat \ {0}, NEW c \in Nat, NEW p \in Nat,
         w = c * b + p
  PROVE  (w + r) \div b = c + (p + r) \div b
<1>. DEFINE q == (p + r) \div b
<1>1. q \in Nat /\ q * b <= p + r /\ p + r < (q + 1) * b
  BY DivBounds
<1>. HIDE DEF q
<1>2. (c + q) * b = c * b + q * b /\ (c + q + 1) * b = c * b + (q + 1) * b
  BY <1>1
<1>3. (c + q) * b <= w + r /\ w + r < (c + q + 1) * b
  BY <1>1, <1>2
<1>4. (w + r) \div b = c + q
  BY <1>1, <1>3, DivUnique
<1>. QED
  BY <1>4 DEF q

-----------------------------------------------------------------------------
(* The length of the file                                                  *)

Numbers ==
  /\ content_length \in Nat /\ rest \in Nat /\ bytes_written \in Nat
  /\ size \in Nat /\ arrived \in Nat /\ unsent \in Nat
  /\ stored \in Nat /\ file_size \in Nat

\* No byte written makes the file longer than reserved, until there are more.
Length ==
  /\ Numbers
  /\ pc \in {"open", "rest"} => bytes_written = 0
  /\ stored <= bytes_written
  /\ pc # "open" => stored <= file_size
  /\ pc # "open" => file_size <= bytes_written \/ file_size <= Preallocated
  /\ pc = "done" => bytes_written >= content_length

LEMMA InitLength == Init => Length
BY DownloadAssumption DEF Init, Length, Numbers, Preallocated, Least, BarSize

LEMMA NextLength == Length /\ [Next]_vars => Length'
<1>. SUFFICES ASSUME Length, [Next]_vars PROVE Length'
  OBVIOUS
<1>. USE DownloadAssumption DEF Length, Numbers, Preallocated, given, network, bar, file
<1>1. CASE OpenFile
  BY <1>1 DEF OpenFile
<1>2. CASE WriteRest
  BY <1>2 DEF WriteRest, Write
<1>3. CASE Turn
  BY <1>3 DEF Turn, Write, Least
<1>4. CASE CloseFile
  BY <1>4 DEF CloseFile
<1>5. CASE Abort \/ Tick
  BY <1>5 DEF Abort, Tick
<1>6. CASE Arrive
  BY <1>6 DEF Arrive
<1>7. CASE UNCHANGED vars
  BY <1>7 DEF vars
<1>. QED
  BY <1>1, <1>2, <1>3, <1>4, <1>5, <1>6, <1>7 DEF Next, Loop, Terminated

\* A file that has been received is as long as what was written to it, whatever
\* was reserved and however it was cut; if writes failed, as long as what was
\* stored or longer, but no longer than what was received.
THEOREM AlwaysFileSize == Spec => []FileSize
<1>1. Length => FileSize
  BY DownloadAssumption DEF Length, Numbers, FileSize, Preallocated
<1>. QED BY <1>1, InitLength, NextLength, PTL DEF Spec

-----------------------------------------------------------------------------
(* The timer                                                               *)

Offset == IF bytes_written = rest THEN rest ELSE 0

\* The ticks counted, with the one that will be counted next, are no more than
\* those there were, but for what n held before.
Patience ==
  /\ Length
  /\ n \in Nat /\ ticks \in 0..MaxLag /\ waited \in 0..TicksToWait
  /\ pc = "open" => n = 0
  /\ pc = "rest" => n = 0
  /\ pc = "copy" => bytes_written >= rest
  /\ pc = "copy" =>
       n + (IF ticks > 0 THEN 1 ELSE 0) <= waited + Offset \/ waited = TicksToWait
  /\ PatientEnough

LEMMA TickedIsAny == ticks \in 0..MaxLag => (Ticked <=> ticks > 0)
<1>. SUFFICES ASSUME ticks \in 0..MaxLag PROVE Ticked <=> ticks > 0
  OBVIOUS
<1>1. ticks \in Nat /\ TimerRange \in Nat /\ ticks < TimerRange
  BY DownloadAssumption
<1>2. ticks % TimerRange = ticks
  BY <1>1, SmallModulo
<1>. QED
  BY <1>1, <1>2 DEF Ticked

LEMMA InitPatience == Init => Patience
BY InitLength, DownloadAssumption DEF Init, Patience, PatientEnough

LEMMA NextPatience == Patience /\ [Next]_vars => Patience'
<1>. SUFFICES ASSUME Patience, [Next]_vars PROVE Patience'
  OBVIOUS
<1>. Length /\ Length'
  BY NextLength DEF Patience
<1>. USE DownloadAssumption DEF Patience, PatientEnough, Offset, given, file
<1>1. CASE OpenFile
  BY <1>1 DEF OpenFile
<1>2. CASE WriteRest
  BY <1>2 DEF WriteRest, Write, Length, Numbers
<1>3. CASE Turn
  BY <1>3, TickedIsAny DEF Turn, Write, Least, Counted, Cleared, Length, Numbers
<1>4. CASE CloseFile
  BY <1>4 DEF CloseFile
<1>5. CASE Abort
  BY <1>5 DEF Abort
<1>6. CASE Tick
  BY <1>6 DEF Tick, Least, Length, Numbers
<1>7. CASE Arrive
  BY <1>7 DEF Arrive
<1>8. CASE UNCHANGED vars
  BY <1>8 DEF vars
<1>. QED
  BY <1>1, <1>2, <1>3, <1>4, <1>5, <1>6, <1>7, <1>8 DEF Next, Loop, Terminated

\* The loop does not give up early, but for what came with the headers before
\* its first segment.
THEOREM AlwaysPatientEnough == Spec => []PatientEnough
<1>1. Patience => PatientEnough
  BY DEF Patience
<1>. QED BY <1>1, InitPatience, NextPatience, PTL DEF Spec

-----------------------------------------------------------------------------
(* The bar                                                                 *)

\* How far the bar is, and what has been received beyond that.
Drawn ==
  /\ blockSize \in Nat /\ currentBlock \in Nat /\ current_bar_size \in 0..size
  /\ IF blockSize = 0
     THEN current_bar_size = IF bytes_written > 0 THEN size ELSE 0
     ELSE /\ current_bar_size = Least(size, bytes_written \div blockSize)
          /\ current_bar_size * blockSize <= bytes_written
          /\ currentBlock = bytes_written - current_bar_size * blockSize

Bar == Length /\ (pc # "open" => Drawn)

LEMMA LeastFrom ==
  ASSUME NEW s \in Nat, NEW c \in 0..s, NEW q \in Nat
  PROVE  c + Least(s - c, q) = Least(s, c + q)
BY DEF Least

LEMMA DrawDraws ==
  ASSUME Numbers, Drawn, NEW received \in Nat \ {0}, Draw(received),
         bytes_written' = bytes_written + received, UNCHANGED size
  PROVE  Drawn'
<1>. DEFINE total == currentBlock + received
            k     == Turns(total)
<1>1. /\ current_bar_size' = current_bar_size + k
      /\ currentBlock' = total - k * blockSize
      /\ blockSize' = blockSize
  BY DEF Draw
<1>2. bytes_written' \in Nat /\ bytes_written' > 0 /\ size \in Nat /\ total \in Nat
  BY DEF Numbers, Drawn
<1>3. CASE blockSize = 0
  <2>1. k = size - current_bar_size
    BY <1>3 DEF Turns
  <2>. QED
    BY <1>1, <1>2, <1>3, <2>1 DEF Drawn, Numbers
<1>4. CASE blockSize # 0
  <2>. DEFINE q == total \div blockSize
  <2>1. q \in Nat /\ q * blockSize <= total
    BY <1>2, <1>4, DivBounds DEF Drawn
  <2>2. bytes_written' \div blockSize = current_bar_size + q
    <3>1. /\ bytes_written \in Nat /\ current_bar_size \in Nat /\ currentBlock \in Nat
          /\ blockSize \in Nat \ {0} /\ received \in Nat
          /\ bytes_written = current_bar_size * blockSize + currentBlock
      BY <1>4 DEF Drawn, Numbers
    <3>2. (bytes_written + received) \div blockSize
            = current_bar_size + (currentBlock + received) \div blockSize
      BY ONLY <3>1, DivFromBlock
    <3>. QED
      BY <3>2
  <2>3. k = Least(size - current_bar_size, q)
    BY <1>4 DEF Turns
  <2>4. k \in Nat /\ k <= q /\ current_bar_size + k <= size
    BY <1>2, <2>1, <2>3 DEF Least, Drawn
  <2>. HIDE DEF k, q
  <2>5. current_bar_size' = Least(size, bytes_written' \div blockSize)
    BY <1>1, <1>2, <2>1, <2>2, <2>3, LeastFrom DEF Drawn
  <2>6. k * blockSize <= q * blockSize
    BY <1>4, <2>1, <2>4 DEF Drawn
  <2>7. (current_bar_size + k) * blockSize = current_bar_size * blockSize + k * blockSize
    BY <2>4 DEF Drawn
  <2>8. k * blockSize \in Nat /\ current_bar_size * blockSize \in Nat
    BY <2>4 DEF Drawn
  <2>9. /\ currentBlock' \in Nat
        /\ current_bar_size' * blockSize <= bytes_written'
        /\ currentBlock' = bytes_written' - current_bar_size' * blockSize
    BY <1>1, <1>2, <1>4, <2>1, <2>6, <2>7, <2>8 DEF Drawn, Numbers
  <2>. QED
    BY <1>1, <1>2, <1>4, <2>4, <2>5, <2>9 DEF Drawn
<1>. QED
  BY <1>3, <1>4

LEMMA NextBar == Bar /\ [Next]_vars => Bar'
<1>. SUFFICES ASSUME Bar, [Next]_vars PROVE Bar'
  OBVIOUS
<1>. Length /\ Length' /\ Numbers
  BY NextLength DEF Bar, Length
<1>1. CASE OpenFile
  <2>1. blockSize' \in Nat
    <3>1. CASE size = 0
      BY <1>1, <3>1 DEF OpenFile, Numbers
    <3>2. CASE size # 0
      BY <1>1, <3>2, DivBounds DEF OpenFile, Numbers
    <3>. QED
      BY <3>1, <3>2
  <2>2. /\ currentBlock' = 0 /\ current_bar_size' = 0 /\ bytes_written' = 0
        /\ size' = size /\ size \in Nat
    BY <1>1 DEF OpenFile, Length, Numbers, given
  <2>3. blockSize' # 0 => bytes_written' \div blockSize' = 0
    BY <2>1, <2>2, NothingDrawn
  <2>4. Least(size', 0) = 0
    BY <2>2 DEF Least
  <2>5. current_bar_size' * blockSize' = 0
    BY <2>1, <2>2, NothingDrawn
  <2>6. CASE blockSize' = 0
    BY <2>1, <2>2, <2>6 DEF Bar, Drawn
  <2>7. CASE blockSize' # 0
    <3>1. current_bar_size' = Least(size', bytes_written' \div blockSize')
      BY <2>2, <2>3, <2>4, <2>7
    <3>2. current_bar_size' \in 0..size' /\ currentBlock' \in Nat
      BY <2>2
    <3>3. currentBlock' = bytes_written' - current_bar_size' * blockSize'
      BY <2>2, <2>5
    <3>4. current_bar_size' * blockSize' <= bytes_written'
      BY <2>2, <2>5
    <3>5. Drawn'
      BY <2>1, <2>7, <3>1, <3>2, <3>3, <3>4 DEF Drawn
    <3>. QED
      BY <3>5 DEF Bar
  <2>. QED
    BY <2>6, <2>7
<1>2. CASE WriteRest
  <2>1. CASE rest > 0
    BY <1>2, <2>1, DrawDraws DEF WriteRest, Write, Bar, Numbers, given
  <2>2. CASE ~(rest > 0)
    BY <1>2, <2>2 DEF WriteRest, Bar, Drawn, bar, given, file
  <2>. QED
    BY <2>1, <2>2
<1>3. CASE Turn
  <2>1. CASE UNCHANGED <<bytes_written, bar>>
    BY <1>3, <2>1 DEF Turn, Bar, Drawn, bar, given, file
  <2>2. ASSUME arrived > 0, Write(Least(arrived, BufferSize)), Draw(Least(arrived, BufferSize))
        PROVE  Bar'
    <3>1. Least(arrived, BufferSize) \in Nat \ {0}
      BY <2>2, DownloadAssumption DEF Least, Numbers
    <3>2. /\ bytes_written' = bytes_written + Least(arrived, BufferSize)
          /\ pc = "copy" /\ size' = size
      BY <1>3, <2>2 DEF Turn, Write, given
    <3>3. Drawn'
      BY <2>2, <3>1, <3>2, DrawDraws DEF Bar
    <3>. QED
      BY <3>3 DEF Bar
  <2>. QED
    BY <1>3, <2>1, <2>2 DEF Turn, file
<1>4. CASE CloseFile \/ Abort \/ Tick \/ Arrive
  BY <1>4 DEF CloseFile, Abort, Tick, Arrive, Bar, Drawn, bar, given, file
<1>5. CASE UNCHANGED vars
  BY <1>5 DEF vars, Bar, Drawn, bar, given, file
<1>. QED
  BY <1>1, <1>2, <1>3, <1>4, <1>5 DEF Next, Loop, Terminated

\* The bar tells the truth for every length, screen and division in segments.
THEOREM AlwaysBarHonest == Spec => []BarHonest
<1>1. Init => Bar
  BY InitLength DEF Init, Bar
<1>2. Bar => BarHonest
  BY DEF Bar, Drawn, BarHonest
<1>. QED BY <1>1, <1>2, NextBar, PTL DEF Spec
=============================================================================
