---------------------------- MODULE ConfigProofs ----------------------------
(***************************************************************************)
(* What holds of Config for all variables and URLs, whatever fails and     *)
(* wherever the computer is switched off.                                  *)
(*                                                                         *)
(* A command is known by the steps it has left.  Schedule says what the    *)
(* order of configure()'s steps is good for: which of them come before     *)
(* one that is still to be made, and what has been done if they do not.    *)
(* Stored and Read say what can be in a file and what can have been read   *)
(* of it, by a command that follows one that did not end.                  *)
(***************************************************************************)
EXTENDS Config, SequenceTheorems, TLAPS

Steps ==
  {<<"make", "hub">>, <<"make", "config">>, <<"make", "idb">>, <<"say", "done">>,
   <<"create", "PROGSDIR">>, <<"write", "PROGSDIR">>, <<"close", "PROGSDIR">>,
   <<"create", "BASEURL">>, <<"write", "BASEURL">>, <<"close", "BASEURL">>,
   <<"entry", "absent">>, <<"entry", "present">>, <<"read", "config">>,
   <<"parse", "baseurl">>, <<"parse", "argument">>, <<"look", "database">>,
   <<"begin", "install">>}

TypeInv ==
  /\ todo \in Seq(Steps)
  /\ DOMAIN disk \subseteq Files
  /\ env \in Variables
  /\ lost \in BOOLEAN /\ said \in BOOLEAN

\* The step is made before the i-th that is left.
Before(step, i) == \E j \in 1..i - 1 : todo[j] = step

Whole(file) == file \in DOMAIN disk /\ disk[file] = Contents(file)

\* The database is made before the files, each file is created, written and
\* closed without anything in between, and all of this before the last step.
LastStep(i) ==
  todo[i] = <<"say", "done">> =>
    /\ i = Len(todo)
    /\ \A file \in Files : Before(<<"close", file>>, i) \/ Whole(file) \/ lost

FileSteps(i) ==
  \A file \in Files :
    /\ todo[i] = <<"create", file>> =>
         /\ i + 2 <= Len(todo) /\ todo[i + 2] = <<"close", file>>
         /\ Before(<<"make", "idb">>, i) \/ "idb" \in dirs
    /\ todo[i] = <<"write", file>> =>
         IF i = 1 THEN buffer = <<>> /\ "idb" \in dirs
                  ELSE todo[i - 1] = <<"create", file>>
    /\ todo[i] = <<"close", file>> =>
         IF i = 1 THEN (buffer = Contents(file) \/ (buffer = <<>> /\ lost)) /\ "idb" \in dirs
                  ELSE todo[i - 1] = <<"write", file>>

Schedule == \A i \in 1..Len(todo) : LastStep(i) /\ FileSteps(i)

\* A file is empty or has all that configure() saves, and the database is older
\* than any of them.
Stored ==
  /\ \A file \in DOMAIN disk : disk[file] \in {<<>>, Contents(file)}
  /\ DOMAIN disk # {} => "idb" \in dirs
  /\ said => todo = <<>> /\ \A file \in Files : Whole(file) \/ lost

\* What was read is what was meant, or the path of a file.
Read ==
  /\ progsdir \in {<<>>, Meant("PROGSDIR")} \/
       (progsdir = Path("PROGSDIR") /\ "PROGSDIR" \in DOMAIN disk)
  /\ baseurl \in {<<>>, Meant("BASEURL"), Path("BASEURL")}
  /\ progsdir # <<>> => \A file \in Files : Found(file)
  /\ UsesConfigured

-----------------------------------------------------------------------------

\* The commands are sequences of steps.
LEMMA TuplesTyped ==
  ASSUME NEW S, NEW a \in S, NEW b \in S, NEW c \in S, NEW d \in S, NEW e \in S,
         NEW f \in S, NEW g \in S, NEW h \in S, NEW i \in S, NEW j \in S
  PROVE  /\ <<a>> \in Seq(S) /\ <<a, b>> \in Seq(S) /\ <<a, b, c, d>> \in Seq(S)
         /\ <<a, b, c, d, e, f, g, h, i, j>> \in Seq(S)
OBVIOUS

LEMMA CommandsTyped == Commands \subseteq Seq(Steps)
<1>2. Configure \in Seq(Steps)
  <2>1. /\ <<"make", "hub">> \in Steps /\ <<"make", "config">> \in Steps
        /\ <<"make", "idb">> \in Steps /\ <<"say", "done">> \in Steps
        /\ <<"create", "PROGSDIR">> \in Steps /\ <<"write", "PROGSDIR">> \in Steps
        /\ <<"close", "PROGSDIR">> \in Steps /\ <<"create", "BASEURL">> \in Steps
        /\ <<"write", "BASEURL">> \in Steps /\ <<"close", "BASEURL">> \in Steps
    BY DEF Steps
  <2>. QED BY <2>1, TuplesTyped DEF Configure
<1>3. Install \in Seq(Steps) /\ Uninstall \in Seq(Steps)
  <2>1. /\ <<"entry", "absent">> \in Steps /\ <<"entry", "present">> \in Steps
        /\ <<"read", "config">> \in Steps /\ <<"parse", "baseurl">> \in Steps
        /\ <<"begin", "install">> \in Steps
    BY DEF Steps
  <2>. QED BY <2>1, TuplesTyped DEF Install, Uninstall
<1>4. Uninstall \o Install \in Seq(Steps)
  BY <1>3, ConcatProperties
<1>5. /\ << <<"read", "config">>, <<"parse", "baseurl">> >> \in Seq(Steps)
      /\ << <<"read", "config">>, <<"parse", "argument">> >> \in Seq(Steps)
      /\ << <<"read", "config">>, <<"look", "database">> >> \in Seq(Steps)
  <2>1. /\ <<"read", "config">> \in Steps /\ <<"parse", "baseurl">> \in Steps
        /\ <<"parse", "argument">> \in Steps /\ <<"look", "database">> \in Steps
    BY DEF Steps
  <2>. QED BY <2>1, TuplesTyped
<1>. QED BY <1>2, <1>3, <1>4, <1>5 DEF Commands

\* The steps left after one is made.
LEMMA StepsLeft ==
  ASSUME NEW seq \in Seq(Steps), seq # <<>>
  PROVE  /\ Len(seq) \in Nat \ {0}
         /\ Head(seq) = seq[1]
         /\ Tail(seq) \in Seq(Steps)
         /\ Len(Tail(seq)) = Len(seq) - 1
         /\ \A i \in 1..Len(seq) - 1 : Tail(seq)[i] = seq[i + 1]
BY HeadTailProperties, LenProperties, EmptySeq

LEMMA NextTyped == TypeInv /\ [Next]_vars => TypeInv'
<1>. SUFFICES ASSUME TypeInv, [Next]_vars PROVE TypeInv'
  OBVIOUS
<1>. USE DEF TypeInv, saved, writing, memory
<1>1. Continue /\ todo # <<>> => todo' \in Seq(Steps)
  BY StepsLeft DEF Continue
<1>2. Die => todo' \in Seq(Steps)
  BY EmptySeq DEF Die
<1>3. CASE Run
  BY <1>3, CommandsTyped DEF Run
<1>4. CASE MakeDirectory
  BY <1>1, <1>2, <1>4 DEF MakeDirectory, At
<1>5. CASE CreateFile
  BY <1>1, <1>2, <1>5 DEF CreateFile, At, With
<1>6. CASE WriteFile
  BY <1>1, <1>6 DEF WriteFile, At
<1>7. CASE CloseFile
  BY <1>1, <1>7 DEF CloseFile, At, With
<1>8. CASE SayDone
  BY <1>1, <1>8 DEF SayDone, At
<1>9. CASE ReadConfig
  BY <1>1, <1>2, <1>9 DEF ReadConfig, At
<1>10. CASE Ask
  BY <1>1, <1>2, <1>10 DEF Ask, Parse, At
<1>11. CASE CheckEntry
  BY <1>1, <1>2, <1>11 DEF CheckEntry, At
<1>12. CASE LookIntoDatabase
  BY <1>1, <1>12 DEF LookIntoDatabase, At
<1>13. CASE BeginInstall
  BY <1>1, <1>2, <1>13 DEF BeginInstall, At
<1>14. CASE Reset
  BY <1>2, <1>14 DEF Reset
<1>15. CASE UNCHANGED vars
  BY <1>15 DEF vars
<1>. QED
  BY <1>3, <1>4, <1>5, <1>6, <1>7, <1>8, <1>9, <1>10, <1>11, <1>12, <1>13, <1>14, <1>15
     DEF Next

-----------------------------------------------------------------------------
(* The order of the steps                                                  *)

\* Nothing is left to do.
LEMMA NoSteps == todo = <<>> => Schedule
BY DEF Schedule, LastStep, FileSteps

\* A command begins.
LEMMA CommandScheduled == todo \in Commands /\ buffer = <<>> => Schedule
<1>. SUFFICES ASSUME todo \in Commands, buffer = <<>> PROVE Schedule
  OBVIOUS
<1>1. CASE todo = Configure
  <2>1. Len(todo) = 10
    BY <1>1 DEF Configure
  <2>2. todo[3] = <<"make", "idb">> /\ todo[6] = <<"close", "PROGSDIR">> /\ todo[9] = <<"close", "BASEURL">>
    BY <1>1 DEF Configure
  <2>3. /\ Before(<<"make", "idb">>, 4) /\ Before(<<"make", "idb">>, 7)
        /\ Before(<<"close", "PROGSDIR">>, 10) /\ Before(<<"close", "BASEURL">>, 10)
    BY <2>2 DEF Before
  <2>4. ASSUME NEW i \in 1..10
        PROVE  /\ todo[i] = <<"say", "done">> => i = 10
               /\ \A file \in Files :
                    /\ todo[i] = <<"create", file>> =>
                         (i = 4 \/ i = 7) /\ todo[i + 2] = <<"close", file>>
                    /\ todo[i] = <<"write", file>> => i # 1 /\ todo[i - 1] = <<"create", file>>
                    /\ todo[i] = <<"close", file>> => i # 1 /\ todo[i - 1] = <<"write", file>>
    BY <1>1 DEF Configure, Files
  <2>. QED BY <2>1, <2>3, <2>4, SMTT(20) DEF Schedule, LastStep, FileSteps, Files
<1>2. CASE todo # Configure
  <2>1. \A i \in 1..Len(todo) : todo[i][1] \notin {"say", "create", "write", "close"}
    <3>1. CASE todo = Install
      BY <3>1 DEF Install
    <3>2. CASE todo = Uninstall
      BY <3>2 DEF Uninstall
    <3>3. CASE todo = Uninstall \o Install
      <4>1. Len(todo) = 5 /\ todo[1] = Uninstall[1] /\ \A i \in 2..5 : todo[i] = Install[i - 1]
        <5>1. Uninstall \in Seq(Steps) /\ Install \in Seq(Steps)
          BY CommandsTyped DEF Commands
        <5>2. Len(Uninstall) = 1 /\ Len(Install) = 4
          BY DEF Uninstall, Install
        <5>3. /\ Len(Uninstall \o Install) = 5
              /\ (Uninstall \o Install)[1] = Uninstall[1]
              /\ \A i \in 2..5 : (Uninstall \o Install)[i] = Install[i - 1]
          <6>1. /\ Len(Uninstall \o Install) = Len(Uninstall) + Len(Install)
                /\ \A i \in 1..Len(Uninstall) + Len(Install) :
                     (Uninstall \o Install)[i] = IF i <= Len(Uninstall) THEN Uninstall[i]
                                                 ELSE Install[i - Len(Uninstall)]
            BY <5>1, ConcatProperties
          <6>. QED BY <5>2, <6>1
        <5>. QED BY <3>3, <5>3
      <4>2. ASSUME NEW i \in 1..5
            PROVE  todo[i][1] \notin {"say", "create", "write", "close"}
        <5>1. CASE i = 1
          BY <4>1, <5>1 DEF Uninstall
        <5>2. CASE i # 1
          <6>1. i - 1 \in 1..4 /\ todo[i] = Install[i - 1]
            BY <4>1, <5>2
          <6>. QED BY <6>1 DEF Install
        <5>. QED BY <5>1, <5>2
      <4>. QED BY <4>1, <4>2
    <3>4. CASE todo = << <<"read", "config">>, <<"parse", "baseurl">> >>
      BY <3>4
    <3>5. CASE todo = << <<"read", "config">>, <<"parse", "argument">> >>
      BY <3>5
    <3>6. CASE todo = << <<"read", "config">>, <<"look", "database">> >>
      BY <3>6
    <3>. QED BY <1>2, <3>1, <3>2, <3>3, <3>4, <3>5, <3>6 DEF Commands
  <2>. QED BY <2>1 DEF Schedule, LastStep, FileSteps
<1>. QED BY <1>1, <1>2

\* A step is made that does what the steps after it count on.
LEMMA StepScheduled ==
  ASSUME TypeInv, Schedule, todo # <<>>, Continue,
         "idb" \in dirs \/ Head(todo) = <<"make", "idb">> => "idb" \in dirs',
         \A file \in Files :
           /\ Head(todo) = <<"create", file>> => buffer' = <<>>
           /\ Head(todo) = <<"write", file>> =>
                buffer' = Contents(file) \/ (buffer' = <<>> /\ lost')
           /\ Head(todo) = <<"close", file>> => Whole(file)' \/ lost'
           /\ Whole(file) \/ lost => Whole(file)' \/ lost' \/ Head(todo) = <<"create", file>>
  PROVE  Schedule'
<1>1. /\ Len(todo) \in Nat \ {0} /\ Head(todo) = todo[1]
      /\ Len(todo') = Len(todo) - 1
      /\ \A i \in 1..Len(todo) - 1 : todo'[i] = todo[i + 1]
  BY StepsLeft DEF TypeInv, Continue
<1>. SUFFICES ASSUME NEW i \in 1..Len(todo')
              PROVE  LastStep(i)' /\ FileSteps(i)'
  BY DEF Schedule
<1>0. i \in 1..Len(todo) - 1 /\ todo'[i] = todo[i + 1]
  BY <1>1
<1>2. i + 1 \in 1..Len(todo) /\ 1 \in 1..Len(todo)
  BY <1>0, <1>1
<1>3. ASSUME NEW step, Before(step, i + 1)
      PROVE  Before(step, i)' \/ Head(todo) = step
  <2>1. PICK j \in 1..i : todo[j] = step
    BY <1>3 DEF Before
  <2>2. CASE j # 1
    <3>1. j - 1 \in 1..Len(todo) - 1 /\ j - 1 \in 1..i - 1
      BY <1>0, <1>1, <2>2
    <3>2. todo'[j - 1] = todo[j]
      BY <1>0, <1>1, <3>1
    <3>. QED BY <2>1, <3>1, <3>2 DEF Before
  <2>. QED BY <1>0, <1>1, <2>1, <2>2
<1>4. i # 1 => todo'[i - 1] = todo[i] /\ i \in 1..Len(todo)
  <2>. SUFFICES ASSUME i # 1 PROVE todo'[i - 1] = todo[i] /\ i \in 1..Len(todo)
    OBVIOUS
  <2>1. i - 1 \in 1..Len(todo) - 1
    BY <1>0, <1>1
  <2>. QED BY <1>0, <1>1, <2>1
<1>5. ASSUME todo[i + 1] = <<"say", "done">>, NEW file \in Files
      PROVE  i = Len(todo) - 1 /\ (Before(<<"close", file>>, i)' \/ Whole(file)' \/ lost')
  <2>1. /\ i + 1 = Len(todo)
        /\ Before(<<"close", file>>, i + 1) \/ Whole(file) \/ lost
    BY <1>0, <1>2, <1>5 DEF Schedule, LastStep, FileSteps
  <2>2. CASE Head(todo) # <<"create", file>>
    BY <1>0, <1>1, <1>3, <2>1, <2>2
  <2>3. CASE Head(todo) = <<"create", file>>
    <3>1. 3 <= Len(todo) /\ todo[3] = <<"close", file>>
      BY <1>0, <1>1, <1>2, <2>3 DEF Schedule, LastStep, FileSteps
    <3>2. <<"close", file>> # <<"say", "done">>
      OBVIOUS
    <3>3. 2 \in 1..i - 1 /\ 2 \in 1..Len(todo) - 1
      BY <1>0, <1>1, <1>5, <2>1, <3>1, <3>2
    <3>4. todo'[2] = <<"close", file>>
      BY <1>0, <1>1, <3>1, <3>3
    <3>. QED BY <1>0, <1>1, <2>1, <3>3, <3>4 DEF Before
  <2>. QED BY <2>2, <2>3
<1>6. ASSUME NEW file \in Files, todo[i + 1] = <<"create", file>>
      PROVE  /\ i + 2 <= Len(todo) - 1 /\ todo'[i + 2] = <<"close", file>>
             /\ Before(<<"make", "idb">>, i)' \/ "idb" \in dirs'
  <2>1. /\ i + 3 <= Len(todo) /\ todo[i + 3] = <<"close", file>>
        /\ Before(<<"make", "idb">>, i + 1) \/ "idb" \in dirs
    BY <1>0, <1>1, <1>2, <1>6 DEF Schedule, LastStep, FileSteps
  <2>2. i + 2 \in 1..Len(todo) - 1
    BY <1>0, <1>1, <2>1
  <2>3. todo'[i + 2] = todo[i + 3]
    BY <1>0, <1>1, <2>2
  <2>. QED BY <1>0, <1>1, <1>3, <2>1, <2>2, <2>3
<1>7. "idb" \in dirs => "idb" \in dirs'
  OBVIOUS
<1>8. ASSUME NEW file \in Files, todo[i + 1] = <<"write", file>>
      PROVE  IF i = 1 THEN buffer' = <<>> /\ "idb" \in dirs'
                      ELSE todo'[i - 1] = <<"create", file>>
  <2>1. todo[i] = <<"create", file>>
    BY <1>0, <1>1, <1>2, <1>8 DEF Schedule, LastStep, FileSteps
  <2>2. CASE i = 1
    <3>1. ~Before(<<"make", "idb">>, 1)
      BY DEF Before
    <3>2. "idb" \in dirs
      BY <1>0, <1>2, <2>1, <2>2, <3>1 DEF Schedule, LastStep, FileSteps
    <3>. QED BY <1>0, <1>1, <1>7, <2>1, <2>2, <3>2
  <2>. QED BY <1>0, <1>4, <2>1, <2>2
<1>9. ASSUME NEW file \in Files, todo[i + 1] = <<"close", file>>
      PROVE  IF i = 1 THEN /\ buffer' = Contents(file) \/ (buffer' = <<>> /\ lost')
                           /\ "idb" \in dirs'
                      ELSE todo'[i - 1] = <<"write", file>>
  <2>1. todo[i] = <<"write", file>>
    BY <1>0, <1>1, <1>2, <1>9 DEF Schedule, LastStep, FileSteps
  <2>2. CASE i = 1
    <3>1. "idb" \in dirs
      BY <1>0, <1>2, <2>1, <2>2 DEF Schedule, LastStep, FileSteps
    <3>. QED BY <1>0, <1>1, <1>7, <2>1, <2>2, <3>1
  <2>. QED BY <1>0, <1>4, <2>1, <2>2
<1>10. LastStep(i)'
  <2>1. i = Len(todo) - 1 => i = Len(todo')
    BY <1>1
  <2>2. todo'[i] = <<"say", "done">> =>
          \A file \in Files : Before(<<"close", file>>, i)' \/ Whole(file)' \/ lost'
    BY <1>0, <1>5
  <2>3. todo'[i] = <<"say", "done">> => i = Len(todo')
    BY <1>0, <1>5, <2>1 DEF Files
  <2>. QED BY <2>2, <2>3 DEF LastStep
<1>11. FileSteps(i)'
  BY <1>0, <1>1, <1>6, <1>8, <1>9 DEF FileSteps, Contents
<1>. QED BY <1>10, <1>11

LEMMA NextScheduled ==
  ASSUME TypeInv, Schedule, [Next]_vars
  PROVE  Schedule'
<1>. USE DEF saved, writing, memory
<1>0. (todo \in Commands /\ buffer = <<>> => Schedule)'
  BY CommandScheduled, PTL
<1>1. Die => Schedule'
  BY DEF Die, Schedule
<1>2. ASSUME NEW step, At(step)
      PROVE  Head(todo) = step /\ Head(todo) = todo[1] /\ 1 \in 1..Len(todo) /\ todo # <<>>
  BY <1>2, StepsLeft DEF At, TypeInv
<1>3. ASSUME NEW step, At(step), Continue,
             step[1] \notin {"create", "write", "close"}, step # <<"make", "idb">>,
             UNCHANGED <<dirs, disk, lost>>
      PROVE  Schedule'
  <2>1. Head(todo) = step /\ todo # <<>>
    BY <1>2, <1>3
  <2>2. \A file \in Files : Whole(file) => Whole(file)'
    BY <1>3 DEF Whole
  <2>3. \A file : step \notin {<<"create", file>>, <<"write", file>>, <<"close", file>>}
    BY <1>3
  <2>. QED BY <1>3, <2>1, <2>2, <2>3, StepScheduled
<1>4. CASE Run
  BY <1>0, <1>4 DEF Run
<1>5. CASE MakeDirectory
  <2>1. PICK dir \in {"hub", "config", "idb"} :
          At(<<"make", dir>>) /\ (Die \/ (Continue /\ dirs' = dirs \cup {dir}))
    BY <1>5 DEF MakeDirectory
  <2>2. Head(todo) = <<"make", dir>> /\ todo # <<>>
    BY <1>2, <2>1
  <2>3. UNCHANGED <<disk, lost>>
    BY <1>5 DEF MakeDirectory
  <2>4. \A file \in Files : Whole(file) => Whole(file)'
    BY <2>3 DEF Whole
  <2>. QED BY <1>1, <2>1, <2>2, <2>3, <2>4, StepScheduled
<1>6. CASE CreateFile
  <2>1. PICK file \in Files :
          At(<<"create", file>>) /\ (Die \/ (Continue /\ disk' = With(file, <<>>)))
    BY <1>6 DEF CreateFile
  <2>2. Head(todo) = <<"create", file>> /\ todo # <<>>
    BY <1>2, <2>1
  <2>3. buffer' = <<>> /\ UNCHANGED <<dirs, lost>>
    BY <1>6 DEF CreateFile
  <2>4. CASE Continue /\ disk' = With(file, <<>>)
    <3>1. \A other \in Files \ {file} : Whole(other) => Whole(other)'
      BY <2>4 DEF Whole, With
    <3>. QED BY <2>2, <2>3, <2>4, <3>1, StepScheduled
  <2>. QED BY <1>1, <2>1, <2>4
<1>7. CASE WriteFile
  <2>1. PICK file \in Files :
          /\ At(<<"write", file>>) /\ Continue
          /\ (buffer' = Contents(file) /\ lost' = lost) \/ (lost' = TRUE /\ buffer' = buffer)
    BY <1>7 DEF WriteFile
  <2>2. Head(todo) = <<"write", file>> /\ Head(todo) = todo[1] /\ todo # <<>> /\ 1 \in 1..Len(todo)
    BY <1>2, <2>1
  <2>3. UNCHANGED <<dirs, disk>>
    BY <1>7 DEF WriteFile
  <2>4. buffer = <<>>
    BY <2>2 DEF Schedule, FileSteps
  <2>5. \A other \in Files : Whole(other) => Whole(other)'
    BY <2>3 DEF Whole
  <2>. QED BY <2>1, <2>2, <2>3, <2>4, <2>5, StepScheduled
<1>8. CASE CloseFile
  <2>1. PICK file \in Files :
          At(<<"close", file>>) /\ Continue /\ disk' = With(file, buffer)
    BY <1>8 DEF CloseFile
  <2>2. Head(todo) = <<"close", file>> /\ Head(todo) = todo[1] /\ todo # <<>> /\ 1 \in 1..Len(todo)
    BY <1>2, <2>1
  <2>3. UNCHANGED <<dirs, lost, buffer>>
    BY <1>8 DEF CloseFile
  <2>4. buffer = Contents(file) \/ lost
    BY <2>2 DEF Schedule, FileSteps
  <2>5. buffer = Contents(file) => Whole(file)'
    BY <2>1 DEF Whole, With, Contents
  <2>6. \A other \in Files \ {file} : Whole(other) => Whole(other)'
    BY <2>1 DEF Whole, With
  <2>. QED BY <2>1, <2>2, <2>3, <2>4, <2>5, <2>6, StepScheduled
<1>9. CASE SayDone
  BY <1>3, <1>9 DEF SayDone
<1>10. CASE ReadConfig
  BY <1>1, <1>3, <1>10 DEF ReadConfig
<1>11. CASE Ask
  BY <1>1, <1>3, <1>11 DEF Ask, Parse
<1>12. CASE CheckEntry
  BY <1>1, <1>3, <1>12 DEF CheckEntry
<1>13. CASE LookIntoDatabase
  BY <1>3, <1>13 DEF LookIntoDatabase
<1>14. CASE BeginInstall
  BY <1>1, <1>3, <1>14 DEF BeginInstall
<1>15. CASE Reset
  BY <1>1, <1>15 DEF Reset
<1>16. CASE UNCHANGED vars
  <2>1. UNCHANGED <<todo, dirs, disk, buffer, lost>>
    BY <1>16 DEF vars
  <2>2. ASSUME NEW i, LastStep(i) /\ FileSteps(i)
        PROVE  LastStep(i)' /\ FileSteps(i)'
    <3>1. LastStep(i)'
      BY <2>1, <2>2 DEF LastStep, Before, Whole
    <3>2. FileSteps(i)'
      BY <2>1, <2>2 DEF FileSteps, Before
    <3>. QED BY <3>1, <3>2
  <2>. QED BY <2>1, <2>2 DEF Schedule
<1>. QED
  BY <1>4, <1>5, <1>6, <1>7, <1>8, <1>9, <1>10, <1>11, <1>12, <1>13, <1>14, <1>15, <1>16
     DEF Next

-----------------------------------------------------------------------------
(* What is in the files                                                    *)

LEMMA NextStored ==
  ASSUME TypeInv, Schedule, Stored, [Next]_vars
  PROVE  Stored'
<1>. USE DEF Stored, saved, writing, memory
<1>1. ASSUME NEW step, At(step)
      PROVE  Head(todo) = todo[1] /\ todo[1] = step /\ 1 \in 1..Len(todo) /\ todo # <<>>
  BY <1>1, StepsLeft DEF At, TypeInv
<1>2. \A step : ~Before(step, 1)
  BY DEF Before
<1>3. ASSUME todo # <<>>, UNCHANGED <<disk, said>>, "idb" \in dirs => "idb" \in dirs'
      PROVE  Stored'
  BY <1>3
<1>4. CASE Run
  BY <1>4 DEF Run
<1>5. CASE MakeDirectory
  BY <1>1, <1>3, <1>5 DEF MakeDirectory
<1>6. CASE CreateFile
  <2>1. PICK file \in Files : At(<<"create", file>>) /\ (disk' = disk \/ disk' = With(file, <<>>))
    BY <1>6 DEF CreateFile
  <2>2. "idb" \in dirs /\ todo # <<>>
    BY <1>1, <1>2, <2>1 DEF Schedule, FileSteps
  <2>3. ~said' /\ UNCHANGED dirs
    BY <1>6, <2>2 DEF CreateFile
  <2>. QED BY <2>1, <2>2, <2>3 DEF With
<1>7. CASE WriteFile
  BY <1>1, <1>3, <1>7 DEF WriteFile
<1>8. CASE CloseFile
  <2>1. PICK file \in Files : At(<<"close", file>>) /\ disk' = With(file, buffer)
    BY <1>8 DEF CloseFile
  <2>2. "idb" \in dirs /\ buffer \in {<<>>, Contents(file)} /\ todo # <<>>
    BY <1>1, <2>1, ZenonT(40) DEF Schedule, FileSteps
  <2>3. ~said' /\ UNCHANGED dirs
    BY <1>8, <2>2 DEF CloseFile
  <2>. QED BY <2>1, <2>2, <2>3 DEF With, Contents
<1>9. CASE SayDone
  <2>1. At(<<"say", "done">>) /\ Continue /\ UNCHANGED <<dirs, disk, lost>>
    BY <1>9 DEF SayDone
  <2>2. Len(todo) = 1 /\ \A file \in Files : Whole(file) \/ lost
    BY <1>1, <1>2, <2>1 DEF Schedule, LastStep
  <2>3. todo' = <<>>
    BY <2>1, <2>2, <1>1, StepsLeft, EmptySeq DEF TypeInv, Continue
  <2>4. \A file \in Files : Whole(file)' \/ lost'
    BY <2>1, <2>2 DEF Whole
  <2>. QED BY <2>1, <2>3, <2>4
<1>10. CASE ReadConfig
  BY <1>1, <1>3, <1>10 DEF ReadConfig
<1>11. CASE Ask
  BY <1>1, <1>3, <1>11 DEF Ask, Parse
<1>12. CASE CheckEntry
  BY <1>1, <1>3, <1>12 DEF CheckEntry
<1>13. CASE LookIntoDatabase
  BY <1>1, <1>3, <1>13 DEF LookIntoDatabase
<1>14. CASE BeginInstall
  BY <1>1, <1>3, <1>14 DEF BeginInstall
<1>15. CASE Reset
  BY <1>3, <1>15 DEF Reset
<1>16. CASE UNCHANGED vars
  BY <1>16 DEF vars, Whole
<1>. QED
  BY <1>4, <1>5, <1>6, <1>7, <1>8, <1>9, <1>10, <1>11, <1>12, <1>13, <1>14, <1>15, <1>16
     DEF Next

-----------------------------------------------------------------------------
(* What is read from them                                                  *)

LEMMA FrontOfAppend ==
  ASSUME NEW S, NEW s \in Seq(S), NEW e \in S
  PROVE  Front(Append(s, e)) = s
BY AppendProperties, LenProperties DEF Front

\* Without its last character, a file that was written holds what was saved.
LEMMA SavedComesBack ==
  ASSUME NEW file \in Files
  PROVE  Front(Contents(file)) = Default[file] /\ Contents(file) # <<>>
<1>. DEFINE s == Default[file]
            S == {"A", ":", "http://", "api.msxhub.com", "/", EndOfFile}
<1>1. s \in Seq(S)
  <2>1. "A" \in S /\ ":" \in S /\ "http://" \in S /\ "api.msxhub.com" \in S /\ "/" \in S
    OBVIOUS
  <2>2. <<"A", ":">> \in Seq(S) /\ <<"http://", "api.msxhub.com", "/">> \in Seq(S)
    <3>. HIDE DEF S
    <3>. QED BY <2>1
  <2>3. Default["PROGSDIR"] \in Seq(S) /\ Default["BASEURL"] \in Seq(S)
    <3>. HIDE DEF S
    <3>. QED BY <2>2 DEF Default
  <2>. QED BY <2>3 DEF Files
<1>2. EndOfFile \in S
  OBVIOUS
<1>. HIDE DEF s, S
<1>3. Append(s, EndOfFile) \in Seq(S) /\ Append(s, EndOfFile) # <<>>
  BY <1>1, <1>2, AppendProperties
<1>4. Front(Append(s, EndOfFile)) = s
  BY <1>1, <1>2, FrontOfAppend
<1>. QED BY <1>3, <1>4 DEF Contents, s

\* read_config() finds what was meant, or leaves the path of an empty file.
LEMMA ReadMeant ==
  ASSUME Stored, NEW file \in Files, Found(file)
  PROVE  \/ get_config(file) = Meant(file)
         \/ get_config(file) = Path(file) /\ file \in DOMAIN disk
BY SavedComesBack DEF Stored, Found, get_config, Meant, FromFile

\* No path of a file is the URL of a server.
LEMMA PathUnsupported == \A file \in Files : ~Supported(Path(file))
BY DEF Supported, Path

LEMMA NextRead ==
  ASSUME TypeInv, Stored, Read, [Next]_vars
  PROVE  Read'
<1>. USE DEF saved, writing, memory
<1>1. ASSUME UNCHANGED <<env, memory>>, DOMAIN disk \subseteq DOMAIN disk'
      PROVE  Read'
  BY <1>1 DEF Read, UsesConfigured, Meant, Found
<1>2. CASE Run
  BY <1>2 DEF Run, Read, UsesConfigured
<1>3. CASE MakeDirectory \/ WriteFile \/ SayDone \/ LookIntoDatabase \/ CheckEntry \/ Reset
  BY <1>1, <1>3 DEF MakeDirectory, WriteFile, SayDone, LookIntoDatabase, CheckEntry, Reset
<1>4. CASE CreateFile \/ CloseFile
  BY <1>1, <1>4 DEF CreateFile, CloseFile, With
<1>5. CASE ReadConfig
  <2>1. CASE \A file \in Files : Found(file)
    <3>1. /\ progsdir' = get_config("PROGSDIR") /\ baseurl' = get_config("BASEURL")
          /\ UNCHANGED <<env, disk, installdir, asked>>
      BY <1>5, <2>1 DEF ReadConfig
    <3>2. "PROGSDIR" \in Files /\ "BASEURL" \in Files
      BY DEF Files
    <3>3. /\ progsdir' = Meant("PROGSDIR") \/
               (progsdir' = Path("PROGSDIR") /\ "PROGSDIR" \in DOMAIN disk)
          /\ baseurl' \in {Meant("BASEURL"), Path("BASEURL")}
      BY <2>1, <3>1, <3>2, ReadMeant
    <3>4. \A file \in Files : Meant(file)' = Meant(file) /\ (Found(file) => Found(file)')
      BY <3>1 DEF Meant, Found
    <3>. QED BY <2>1, <3>1, <3>2, <3>3, <3>4 DEF Read, UsesConfigured, Meant
  <2>2. CASE ~ \A file \in Files : Found(file)
    BY <1>1, <1>5, <2>2 DEF ReadConfig
  <2>. QED BY <2>1, <2>2
<1>6. CASE Ask
  <2>1. /\ UNCHANGED <<env, disk, progsdir, baseurl, installdir>>
        /\ asked' = asked \/ asked' \in Urls \/ (asked' = baseurl /\ Supported(baseurl))
    BY <1>6 DEF Ask, Parse
  <2>2. Supported(baseurl) => baseurl = Meant("BASEURL")
    <3>1. ~Supported(<<>>) /\ ~Supported(Path("BASEURL"))
      BY PathUnsupported DEF Files, Supported
    <3>. QED BY <3>1 DEF Read
  <2>. QED BY <2>1, <2>2 DEF Read, UsesConfigured, Meant, Found
<1>7. CASE BeginInstall
  <2>1. /\ UNCHANGED <<env, disk, progsdir, baseurl, asked>>
        /\ installdir' = installdir \/ installdir' = <<"C", ":">> \/
             (installdir' = progsdir /\ ~BelowFile(progsdir))
    BY <1>7 DEF BeginInstall
  <2>2. ~BelowFile(progsdir) => progsdir \in {<<>>, Meant("PROGSDIR")}
    BY DEF Read, BelowFile
  <2>. QED BY <2>1, <2>2 DEF Read, UsesConfigured, Meant, Found, Nowhere
<1>8. CASE UNCHANGED vars
  BY <1>1, <1>8 DEF vars
<1>. QED BY <1>2, <1>3, <1>4, <1>5, <1>6, <1>7, <1>8 DEF Next

-----------------------------------------------------------------------------
(* The theorems                                                            *)

Inv == TypeInv /\ Schedule /\ Stored /\ Read

LEMMA AlwaysInv == Spec => []Inv
<1>1. Init => Inv
  <2>. SUFFICES ASSUME Init PROVE Inv
    OBVIOUS
  <2>1. TypeInv
    BY EmptySeq DEF Init, TypeInv
  <2>2. Schedule
    BY NoSteps DEF Init
  <2>3. Stored
    BY DEF Init, Stored
  <2>4. Read
    BY DEF Init, Read, UsesConfigured
  <2>. QED BY <2>1, <2>2, <2>3, <2>4 DEF Inv
<1>2. Inv /\ [Next]_vars => Inv'
  BY NextTyped, NextScheduled, NextStored, NextRead DEF Inv
<1>. QED BY <1>1, <1>2, PTL DEF Spec

\* No command installs where an interrupted configure made it, nor asks a server
\* of its making: whatever the variables, wherever it was interrupted.
THEOREM AlwaysUsesConfigured == Spec => []UsesConfigured
<1>1. Inv => UsesConfigured
  BY DEF Inv, Read
<1>. QED BY <1>1, AlwaysInv, PTL

\* Who gets past read_config() finds the database.
THEOREM AlwaysDatabaseReady == Spec => []DatabaseReady
<1>1. Inv => DatabaseReady
  BY DEF Inv, Read, Stored, Found, DatabaseReady
<1>. QED BY <1>1, AlwaysInv, PTL

\* What configure() says it has done is done, unless the disk was full.
THEOREM AlwaysDoneIsConfigured == Spec => []DoneIsConfigured
<1>1. Inv => DoneIsConfigured
  BY SavedComesBack DEF Inv, Stored, Whole, FromFile, DoneIsConfigured
<1>. QED BY <1>1, AlwaysInv, PTL
=============================================================================
