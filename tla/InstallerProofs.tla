-------------------------- MODULE InstallerProofs --------------------------
(***************************************************************************)
(* What holds of Installer for all packages, lists, drives and users.      *)
(*                                                                         *)
(*   - every variable has its type (TypeCorrect), and no file that is      *)
(*     whole is lost from the entries (NoFileLost);                        *)
(*   - each step is one of PackageRegistry (RegistryImplemented);          *)
(*   - an install which gets to its end has put every file and every       *)
(*     directory of its package where the entry says                       *)
(*     (AlwaysInstallComplete, AlwaysCreatedDirsStored);                   *)
(*   - uninstall() deletes nothing else (AlwaysOwnNodesOnly), leaves no    *)
(*     file of an entry whatever fails (AlwaysFilesCleared), and nothing   *)
(*     that could be deleted if no retry fails (AlwaysUninstallClears).    *)
(*                                                                         *)
(* TypeOK is not inductive: that the paths install() writes down are paths *)
(* of the drive follows from the place it has reached in the lists.        *)
(* Position says which place each value of pc stands for.                  *)
(*                                                                         *)
(* FilesAccounted is not inductive either: uninstall() drops an entry, and *)
(* no file may be left unlisted by this.  Custody adds that a whole file   *)
(* of the package being uninstalled is on a line still to be read, and     *)
(* that install() works on a package with an entry once it has made one.   *)
(*                                                                         *)
(* For the others the inductive invariants are Open for the registry,      *)
(* Progress for the files, Own for what may be deleted, Tree and Kept for  *)
(* the directories, Listing, Clearing and FilesAhead for what is left.     *)
(* What is assumed of the lists is stated where it is needed: Apart, Separate,     *)
(* Harmless, Distinct, Shallow and Roomy.                                  *)
(***************************************************************************)
EXTENDS Installer, FiniteSets, SequenceTheorems, FiniteSetTheorems, TLAPS

Position ==
  /\ pc \in {"mkdir", "entry", "pages", "list", "line", "body", "record", "store"}
       => installdir \in InstallDirs
  /\ pc = "list" => page >= 1
  /\ pc \in {"line", "body", "record"} => page \in 1..Len(Pages[pkg]) /\ line >= 1
  /\ pc \in {"body", "record"} => line \in 1..Len(Pages[pkg][page])

TypeInv == TypeOK /\ Position

\* The target of a download is a path of the drive.
LEMMA TargetIsPath ==
  ASSUME TypeInv,
         pc \in {"line", "body", "record"},
         line \in 1..Len(Pages[pkg][page])
  PROVE  Target \in Paths
<1>1. /\ pkg \in Packages
      /\ page \in 1..Len(Pages[pkg])
      /\ installdir \in InstallDirs
  BY DEF TypeInv, TypeOK, Position
<1>2. /\ Len(Line) \in Nat \ {0}
      /\ \A i \in 1..Len(Line) : installdir \o SubSeq(Line, 1, i) \in Paths
  BY <1>1, ListingAssumption DEF Line
<1>3. Len(Line) \in 1..Len(Line)
  BY <1>2
<1>. QED BY <1>2, <1>3 DEF Target, At

\* So is each directory on the way to it.
LEMMA SubdirIsPath ==
  ASSUME TypeInv,
         pc = "line",
         line <= Len(Pages[pkg][page]),
         sub + 1 < Len(Line)
  PROVE  At(sub + 1) \in Paths
<1>1. /\ pkg \in Packages
      /\ page \in 1..Len(Pages[pkg])
      /\ installdir \in InstallDirs
      /\ line \in Nat /\ line >= 1
      /\ sub \in Nat
  BY DEF TypeInv, TypeOK, Position
<1>2. line \in 1..Len(Pages[pkg][page])
  BY <1>1, ListingAssumption
<1>3. /\ Len(Line) \in Nat \ {0}
      /\ \A i \in 1..Len(Line) : installdir \o SubSeq(Line, 1, i) \in Paths
  BY <1>1, <1>2, ListingAssumption DEF Line
<1>4. sub + 1 \in 1..Len(Line)
  BY <1>1, <1>3
<1>. QED BY <1>3, <1>4 DEF At

\* The end of a command is well typed.
LEMMA EndCommandTyped ==
  ASSUME TypeInv, EndCommand
  PROVE  /\ pc' = "prompt"
         /\ pkg' \in Packages
         /\ installdir' \in InstallDirs \cup {NoArg}
         /\ page' \in Nat /\ line' \in Nat /\ sub' \in Nat
         /\ created' \in Seq(Paths) /\ made' \subseteq Paths
         /\ todo' \in Seq(Paths) /\ undeleted' \in Seq(Paths)
         /\ upgrading' \in BOOLEAN
BY EmptySeq DEF EndCommand, TypeInv, TypeOK

\* What install(), uninstall() and the user put at a path is a node.
LEMMA NodesTyped ==
  /\ Nothing \in Node
  /\ \A who \in Packages \cup {User} :
       /\ Directory(who) \in Node
       /\ \A whole \in BOOLEAN : File(who, whole) \in Node
BY DEF Nothing, Directory, File, Node

\* A line written to the entry keeps the database well typed.
LEMMA WriteLineTyped ==
  ASSUME TypeInv, NEW x \in Paths, WriteLine(x)
  PROVE  record' \in [Packages -> Seq(Paths)]
<1>1. \A seq \in Seq(Paths) : Append(seq, x) \in Seq(Paths)
  BY AppendProperties
<1>. QED BY <1>1 DEF WriteLine, TypeInv, TypeOK

LEMMA InitTyped == Init => TypeInv
<1>. SUFFICES ASSUME Init PROVE TypeInv
  OBVIOUS
<1>1. disk \in [Paths -> Node]
  BY NodesTyped DEF Init
<1>2. record \in [Packages -> Seq(Paths)]
  BY EmptySeq DEF Init
<1>. QED BY <1>1, <1>2, EmptySeq DEF Init, TypeInv, TypeOK, Position

\* Every step keeps the types and the position in the lists.
LEMMA NextTyped == TypeInv /\ [Next]_vars => TypeInv'
<1>. SUFFICES ASSUME TypeInv, [Next]_vars PROVE TypeInv'
  OBVIOUS
<1>. USE DEF TypeInv, TypeOK, Position, Goto
<1>1. ASSUME NEW p \in Packages, NEW dir \in GivenDirs \cup {NoArg}, StartInstall(p, dir)
      PROVE  TypeInv'
  BY <1>1 DEF StartInstall, IsInstalled, database, uninstallVars, InstallDirs
<1>2. CASE GetInstallDir
  BY <1>2 DEF GetInstallDir, database, uninstallVars, InstallDirs
<1>3. CASE MakeInstallDir
  <2>1. CASE MayMakeDir(installdir)
    BY <1>3, <2>1, NodesTyped, EndCommandTyped, SMTT(20)
       DEF MakeInstallDir, database, installVars, uninstallVars
  <2>2. CASE ~MayMakeDir(installdir)
    BY <1>3, <2>2, EndCommandTyped DEF MakeInstallDir, database, installVars, uninstallVars
  <2>. QED BY <2>1, <2>2
<1>4. CASE OpenEntry
  BY <1>4, EmptySeq, ZenonT(40) DEF OpenEntry, database, installVars, uninstallVars
<1>5. CASE GetPages
  BY <1>5, EmptySeq DEF GetPages, database, uninstallVars
<1>6. CASE GetList
  BY <1>6, ListingAssumption DEF GetList, database, uninstallVars
<1>7. CASE EndOfPages
  BY <1>7 DEF EndOfPages, database, installVars, uninstallVars
<1>8. CASE EndOfList
  BY <1>8, ListingAssumption DEF EndOfList, database, uninstallVars
<1>9. CASE MakeSubdir
  <2>1. At(sub + 1) \in Paths
    BY <1>9, SubdirIsPath DEF MakeSubdir
  <2>2. Append(created, At(sub + 1)) \in Seq(Paths)
    BY <2>1, AppendProperties
  <2>3. Directory(pkg) \in Node
    BY NodesTyped
  <2>4. CASE MayMakeDir(At(sub + 1)) /\ ~IsDir(At(sub + 1))
    <3>1. created' \in Seq(Paths)
      BY <1>9, <2>2, <2>4 DEF MakeSubdir
    <3>2. disk' \in [Paths -> Node] /\ made' \subseteq Paths
      BY <1>9, <2>1, <2>3, <2>4 DEF MakeSubdir
    <3>. QED BY <1>9, <2>4, <3>1, <3>2, SMTT(20) DEF MakeSubdir, database, uninstallVars
  <2>5. CASE IsDir(At(sub + 1))
    BY <1>9, <2>5 DEF MakeSubdir, MayMakeDir, Exists, IsDir, database, uninstallVars
  <2>6. CASE ~MayMakeDir(At(sub + 1)) /\ ~IsDir(At(sub + 1))
    BY <1>9, <2>6, EndCommandTyped DEF MakeSubdir, database
  <2>. QED BY <2>4, <2>5, <2>6
<1>10. CASE BeginFile
  <2>1. line \in 1..Len(Pages[pkg][page])
    BY <1>10, ListingAssumption DEF BeginFile, AtFile
  <2>2. Target \in Paths
    BY <1>10, <2>1, TargetIsPath DEF BeginFile, AtFile
  <2>3. CASE MayCreate(Target)
    BY <1>10, <2>1, <2>2, <2>3, NodesTyped, EndCommandTyped, ZenonT(40)
       DEF BeginFile, AtFile, database, installVars, uninstallVars
  <2>4. CASE ~MayCreate(Target)
    BY <1>10, <2>4, EndCommandTyped DEF BeginFile, database
  <2>. QED BY <2>3, <2>4
<1>11. CASE EndFile
  BY <1>11, NodesTyped, ZenonT(40) DEF EndFile, database, installVars, uninstallVars
<1>12. CASE RecordFile
  <2>1. record' \in [Packages -> Seq(Paths)]
    BY <1>12, TargetIsPath, WriteLineTyped DEF RecordFile
  <2>. QED BY <1>12, <2>1 DEF RecordFile, uninstallVars
<1>13. CASE StoreDir
  <2>1. Head(created) \in Paths /\ Tail(created) \in Seq(Paths)
    BY <1>13, HeadTailProperties DEF StoreDir
  <2>2. record' \in [Packages -> Seq(Paths)]
    BY <1>13, <2>1, WriteLineTyped DEF StoreDir
  <2>. QED BY <1>13, <2>1, <2>2 DEF StoreDir, uninstallVars
<1>14. CASE StoreInstallDir
  <2>1. installdir \in Paths
    BY <1>14, ConstantsAssumption DEF StoreInstallDir
  <2>2. record' \in [Packages -> Seq(Paths)]
    BY <1>14, <2>1, WriteLineTyped DEF StoreInstallDir
  <2>. QED BY <1>14, <2>2, EndCommandTyped DEF StoreInstallDir
<1>15. ASSUME NEW p \in Packages, NEW isUpgrade \in BOOLEAN, StartUninstall(p, isUpgrade)
       PROVE  TypeInv'
  BY <1>15 DEF StartUninstall, database, installVars, uninstallVars
<1>16. CASE Unlink
  <2>1. Head(todo) \in Paths /\ Tail(todo) \in Seq(Paths)
    BY <1>16, HeadTailProperties DEF Unlink, Room
  <2>2. Append(undeleted, Head(todo)) \in Seq(Paths)
    BY <2>1, AppendProperties
  <2>3. Deleted(Head(todo)) \in [Paths -> Node]
    BY NodesTyped DEF Deleted
  <2>4. CASE InDirectory(Head(todo)) /\ ~NotEmpty(Head(todo))
    BY <1>16, <2>1, <2>3, <2>4 DEF Unlink, Room, database, installVars
  <2>5. CASE NotEmpty(Head(todo)) /\ UNCHANGED disk /\ todo' = Tail(todo) /\ Goto("unlink")
    <3>1. undeleted' \in Seq(Paths)
      BY <1>16, <2>2, <2>5 DEF Unlink, Room, EndCommand
    <3>2. UNCHANGED <<installVars, upgrading>>
      BY <1>16, <2>5 DEF Unlink, Room, EndCommand
    <3>. QED BY <1>16, <2>1, <2>5, <3>1, <3>2 DEF Unlink, Room, database, installVars
  <2>6. CASE EndCommand /\ UNCHANGED disk
    BY <1>16, <2>6, EndCommandTyped DEF Unlink, Room, database
  <2>. QED BY <1>16, <2>4, <2>5, <2>6 DEF Unlink, Room
<1>17. CASE EndOfEntry
  BY <1>17 DEF EndOfEntry, database, installVars, uninstallVars
<1>18. CASE RetryDir
  <2>1. Tail(undeleted) \in Seq(Paths)
    BY <1>18, HeadTailProperties DEF RetryDir
  <2>. QED BY <1>18, <2>1, NodesTyped DEF RetryDir, Deleted, database, installVars
<1>19. CASE DropEntry
  <2>1. record' \in [Packages -> Seq(Paths)] /\ entries' \subseteq Packages
    BY <1>19, EmptySeq DEF DropEntry
  <2>2. CASE upgrading
    BY <1>19, <2>1, <2>2 DEF DropEntry, installVars
  <2>3. CASE ~upgrading
    BY <1>19, <2>1, <2>3, EndCommandTyped DEF DropEntry
  <2>. QED BY <2>2, <2>3
<1>20. CASE Die
  BY <1>20, EndCommandTyped DEF Die, database
<1>21. CASE PowerOff
  <2>1. ASSUME NEW k \in 0..Len(record[pkg])
        PROVE  SubSeq(record[pkg], 1, k) \in Seq(Paths)
    <3>1. record[pkg] \in Seq(Paths)
      OBVIOUS
    <3>2. \A i \in 1..k : record[pkg][i] \in Paths
      BY <2>1, <3>1, ElementOfSeq, LenProperties
    <3>. QED BY <2>1, <3>1, <3>2, SubSeqProperties, LenProperties
  <2>2. record' \in [Packages -> Seq(Paths)]
    BY <1>21, <2>1 DEF PowerOff
  <2>. QED BY <1>21, <2>2, EndCommandTyped DEF PowerOff
<1>22. ASSUME NEW x, UserSave(x) \/ UserDelete(x)
       PROVE  TypeInv'
  BY <1>22, NodesTyped, ZenonT(40)
     DEF UserSave, UserDelete, Deleted, database, installVars, uninstallVars
<1>23. CASE UNCHANGED vars
  BY <1>23 DEF vars, database, installVars, uninstallVars
<1>. QED
  BY <1>1, <1>2, <1>3, <1>4, <1>5, <1>6, <1>7, <1>8, <1>9, <1>10, <1>11, <1>12,
     <1>13, <1>14, <1>15, <1>16, <1>17, <1>18, <1>19, <1>20, <1>21, <1>22, <1>23
     DEF Next, Command, Install, Uninstall, UserStep

\* Type correctness, for every value of the constants.
THEOREM TypeCorrect == Spec => []TypeOK
<1>1. Init => TypeInv
  BY InitTyped
<1>2. TypeInv /\ [Next]_vars => TypeInv'
  BY NextTyped
<1>3. TypeInv => TypeOK
  BY DEF TypeInv
<1>. QED BY <1>1, <1>2, <1>3, PTL DEF Spec

-----------------------------------------------------------------------------
(* No file is lost.                                                        *)

\* FilesAccounted without its exception.
Listed ==
  \A x \in Paths : \A p \in Packages :
    disk[x] = File(p, TRUE) => p \in entries /\ x \in ToSet(record[p])

Custody ==
  /\ FilesAccounted
  /\ pc \in {"getdir", "mkdir", "entry"} => pkg \notin entries
  /\ pc \in {"pages", "list", "line", "body", "record", "store", "unlink", "retry"}
       => pkg \in entries
  /\ pc = "unlink" => \A x \in Paths : disk[x] = File(pkg, TRUE) => x \in ToSet(todo)
  /\ pc = "retry" => \A x \in Paths : disk[x] # File(pkg, TRUE)

\* A step that puts no whole file of a package on the disk.
NoNewFile ==
  \A x \in Paths : \A p \in Packages :
    disk'[x] = File(p, TRUE) => disk[x] = File(p, TRUE)

LEMMA ListedNow == FilesAccounted /\ pc # "record" => Listed
BY DEF FilesAccounted, Listed

\* Where the database does not change, no file gets lost.
LEMMA FilesKept ==
  ASSUME FilesAccounted, pc # "record", NoNewFile,
         entries' = entries, record' = record
  PROVE  FilesAccounted'
BY DEF FilesAccounted, NoNewFile

LEMMA SameDisk == UNCHANGED disk => NoNewFile
BY DEF NoNewFile

\* Writing anything else than a whole file of a package makes no new file.
LEMMA NotWhole ==
  ASSUME NEW p \in Packages
  PROVE  /\ Nothing # File(p, TRUE)
         /\ File(User, TRUE) # File(p, TRUE)
         /\ \A q : Directory(q) # File(p, TRUE) /\ File(q, FALSE) # File(p, TRUE)
BY ConstantsAssumption DEF Nothing, File, Directory

LEMMA WriteOther ==
  ASSUME TypeInv, NEW d, NEW node,
         \A p \in Packages : node # File(p, TRUE),
         disk' = [disk EXCEPT ![d] = node]
  PROVE  NoNewFile
BY DEF NoNewFile, TypeInv, TypeOK

\* The lines of an entry, and of what is left to read of it.
LEMMA LinesAppended ==
  ASSUME NEW seq \in Seq(Paths), NEW x \in Paths
  PROVE  /\ x \in ToSet(Append(seq, x))
         /\ ToSet(seq) \subseteq ToSet(Append(seq, x))
BY AppendProperties, LenProperties DEF ToSet

LEMMA LinesLeft ==
  ASSUME NEW seq \in Seq(Paths), seq # <<>>, NEW x \in ToSet(seq)
  PROVE  x = Head(seq) \/ x \in ToSet(Tail(seq))
<1>1. PICK i \in 1..Len(seq) : x = seq[i]
  BY LenProperties DEF ToSet
<1>2. CASE i = 1
  BY <1>1, <1>2, HeadTailProperties
<1>3. CASE i # 1
  <2>1. /\ Tail(seq) \in Seq(Paths)
        /\ Len(Tail(seq)) = Len(seq) - 1
        /\ \A j \in 1..Len(Tail(seq)) : Tail(seq)[j] = seq[j + 1]
    BY HeadTailProperties
  <2>2. i - 1 \in 1..Len(Tail(seq)) /\ Tail(seq)[i - 1] = x
    BY <1>1, <1>3, <2>1, LenProperties
  <2>. QED BY <2>1, <2>2, LenProperties DEF ToSet
<1>. QED BY <1>2, <1>3

LEMMA NothingLeft == ToSet(<<>>) = {}
BY DEF ToSet

\* Steps that end a command, and steps of install() before and after it has
\* made its entry, as long as they make no file and leave the database alone.
LEMMA CustodyAtPrompt ==
  ASSUME Custody, pc # "record", NoNewFile, UNCHANGED <<entries, record>>, EndCommand
  PROVE  Custody'
<1>1. FilesAccounted'
  BY FilesKept DEF Custody
<1>. QED BY <1>1 DEF Custody, EndCommand

LEMMA CustodyBeforeEntry ==
  ASSUME Custody, NoNewFile, UNCHANGED <<entries, record, pkg>>,
         pc \in {"getdir", "mkdir", "entry"}, pc' \in {"getdir", "mkdir", "entry"}
  PROVE  Custody'
<1>1. FilesAccounted'
  BY FilesKept DEF Custody
<1>. QED BY <1>1 DEF Custody

LEMMA CustodyAfterEntry ==
  ASSUME Custody, NoNewFile, UNCHANGED <<entries, record, pkg>>,
         pc \in {"pages", "list", "line", "body", "store"},
         pc' \in {"pages", "list", "line", "body", "store"}
  PROVE  Custody'
<1>1. FilesAccounted'
  BY FilesKept DEF Custody
<1>. QED BY <1>1 DEF Custody

\* A line added to the entry lists no file less.
LEMMA ListedMore ==
  ASSUME TypeInv, Listed, NEW x \in Paths, pkg \in entries,
         WriteLine(x), UNCHANGED <<disk, entries>>, Faults \subseteq {"die", "unlink", "retry"}
  PROVE  Listed' /\ x \in ToSet(record'[pkg])
<1>1. record \in [Packages -> Seq(Paths)] /\ pkg \in Packages
  BY DEF TypeInv, TypeOK
<1>2. record' = [record EXCEPT ![pkg] = Append(@, x)]
  BY DEF WriteLine
<1>3. /\ x \in ToSet(record'[pkg])
      /\ \A p \in Packages : ToSet(record[p]) \subseteq ToSet(record'[p])
  BY <1>1, <1>2, LinesAppended
<1>. QED BY <1>3 DEF Listed

LEMMA InitCustody == Init => Custody
BY NotWhole DEF Init, Custody, FilesAccounted, Nothing, Directory, File

\* Every step keeps custody of the files.
LEMMA NextCustody ==
  ASSUME Faults \subseteq {"die", "unlink", "retry"}, TypeInv, Custody, [Next]_vars
  PROVE  Custody'
<1>1. ASSUME NEW p \in Packages, NEW dir, StartInstall(p, dir)
      PROVE  Custody'
  <2>1. FilesAccounted'
    BY <1>1, FilesKept, SameDisk DEF StartInstall, IsInstalled, Custody, database
  <2>. QED BY <1>1, <2>1 DEF StartInstall, IsInstalled, Custody, database
<1>2. CASE GetInstallDir
  BY <1>2, CustodyBeforeEntry, SameDisk DEF GetInstallDir, Goto, database
<1>3. CASE MakeInstallDir
  <2>1. NoNewFile
    <3>1. CASE disk' = [disk EXCEPT ![installdir] = Directory(pkg)]
      <4>1. \A p \in Packages : Directory(pkg) # File(p, TRUE)
        BY NotWhole
      <4>. QED BY <3>1, <4>1, WriteOther
    <3>. QED BY <1>3, <3>1, SameDisk DEF MakeInstallDir
  <2>. QED BY <1>3, <2>1, CustodyBeforeEntry, CustodyAtPrompt
           DEF MakeInstallDir, Goto, database
<1>4. CASE OpenEntry
  <2>1. /\ pkg \in Packages
        /\ entries' = entries \cup {pkg}
        /\ record' = [record EXCEPT ![pkg] = <<>>]
        /\ UNCHANGED <<disk, pkg>>
        /\ pc = "entry" /\ pc' = "pages"
    BY <1>4 DEF OpenEntry, Goto, TypeInv, TypeOK
  <2>2. Listed /\ pkg \notin entries
    BY <2>1, ListedNow DEF Custody
  <2>3. ASSUME NEW x \in Paths, NEW p \in Packages, disk'[x] = File(p, TRUE)
        PROVE  p \in entries' /\ x \in ToSet(record'[p])
    BY <2>1, <2>2, <2>3 DEF Listed, TypeInv, TypeOK
  <2>. QED BY <2>1, <2>3 DEF Custody, FilesAccounted
<1>5. CASE GetPages
  BY <1>5, CustodyAfterEntry, SameDisk DEF GetPages, Goto, database
<1>6. CASE GetList
  BY <1>6, CustodyAfterEntry, SameDisk DEF GetList, Goto, database
<1>7. CASE EndOfPages
  BY <1>7, CustodyAfterEntry, SameDisk DEF EndOfPages, Goto, database
<1>8. CASE EndOfList
  BY <1>8, CustodyAfterEntry, SameDisk DEF EndOfList, Goto, database
<1>9. CASE MakeSubdir
  <2>1. NoNewFile
    <3>1. CASE disk' = [disk EXCEPT ![At(sub + 1)] = Directory(pkg)]
      <4>1. \A p \in Packages : Directory(pkg) # File(p, TRUE)
        BY NotWhole
      <4>. QED BY <3>1, <4>1, WriteOther
    <3>. QED BY <1>9, <3>1, SameDisk DEF MakeSubdir
  <2>. QED BY <1>9, <2>1, CustodyAfterEntry, CustodyAtPrompt DEF MakeSubdir, Goto, database
<1>10. CASE BeginFile
  <2>1. NoNewFile
    BY <1>10, SameDisk, WriteOther, NotWhole DEF BeginFile
  <2>. QED BY <1>10, <2>1, CustodyAfterEntry, CustodyAtPrompt
           DEF BeginFile, AtFile, Goto, database
<1>11. CASE EndFile
  <2>1. /\ disk' = [disk EXCEPT ![Target] = File(pkg, TRUE)]
        /\ UNCHANGED <<entries, record, pkg, installdir, page, line>>
        /\ pc = "body" /\ pc' = "record"
    BY <1>11 DEF EndFile, Goto, database, installVars
  <2>2. Listed /\ Target' = Target
    BY <2>1, ListedNow DEF Custody, Target, At, Line
  <2>3. ASSUME NEW x \in Paths, NEW p \in Packages, disk'[x] = File(p, TRUE),
               ~(p = pkg /\ x = Target)
        PROVE  disk[x] = File(p, TRUE)
    BY <2>1, <2>3 DEF File, TypeInv, TypeOK
  <2>. QED BY <2>1, <2>2, <2>3 DEF Custody, FilesAccounted, Listed
<1>12. CASE RecordFile
  <2>1. /\ UNCHANGED <<disk, entries, pkg>>
        /\ pc = "record" /\ pc' = "line"
        /\ WriteLine(Target)
    BY <1>12 DEF RecordFile, Goto
  <2>2. Target \in Paths /\ pkg \in entries /\ record \in [Packages -> Seq(Paths)]
    BY <2>1, TargetIsPath DEF TypeInv, TypeOK, Position, Custody
  <2>3. record' = [record EXCEPT ![pkg] = Append(@, Target)]
    BY <2>1, <2>2 DEF WriteLine
  <2>4. /\ pkg \in Packages
        /\ Target \in ToSet(record'[pkg])
        /\ \A p \in Packages : ToSet(record[p]) \subseteq ToSet(record'[p])
    BY <2>2, <2>3, LinesAppended DEF TypeInv, TypeOK
  <2>5. Listed'
    BY <2>1, <2>2, <2>4 DEF Listed, FilesAccounted, Custody
  <2>. QED BY <2>1, <2>2, <2>5 DEF Custody, FilesAccounted, Listed
<1>13. CASE StoreDir
  <2>1. Head(created) \in Paths
    BY <1>13, HeadTailProperties DEF StoreDir, TypeInv, TypeOK
  <2>2. Listed /\ pkg \in entries
    BY <1>13, ListedNow DEF StoreDir, Custody
  <2>3. Listed'
    BY <1>13, <2>1, <2>2, ListedMore DEF StoreDir
  <2>. QED BY <1>13, <2>2, <2>3 DEF StoreDir, Goto, Custody, FilesAccounted, Listed
<1>14. CASE StoreInstallDir
  <2>1. installdir \in Paths
    BY <1>14, ConstantsAssumption DEF StoreInstallDir, TypeInv, Position
  <2>2. Listed /\ pkg \in entries
    BY <1>14, ListedNow DEF StoreInstallDir, Custody
  <2>3. Listed'
    BY <1>14, <2>1, <2>2, ListedMore DEF StoreInstallDir
  <2>. QED BY <1>14, <2>3 DEF StoreInstallDir, EndCommand, Custody, FilesAccounted, Listed
<1>15. ASSUME NEW p \in Packages, NEW isUpgrade, StartUninstall(p, isUpgrade)
       PROVE  Custody'
  <2>1. FilesAccounted'
    BY <1>15, FilesKept, SameDisk DEF StartUninstall, Custody, database
  <2>2. Listed
    BY <1>15, ListedNow DEF StartUninstall, Custody
  <2>. QED BY <1>15, <2>1, <2>2 DEF StartUninstall, Custody, database, Listed
<1>16. CASE Unlink
  <2>1. NoNewFile /\ UNCHANGED <<entries, record, pkg>> /\ pc = "unlink"
    BY <1>16, SameDisk, WriteOther, NotWhole DEF Unlink, Room, Deleted, Goto, EndCommand, database
  <2>2. FilesAccounted'
    BY <2>1, FilesKept DEF Custody
  <2>3. CASE EndCommand
    BY <2>1, <2>3, CustodyAtPrompt
  <2>4. CASE ~EndCommand
    <3>1. todo' = Tail(todo) /\ pc' = "unlink"
      BY <1>16, <2>4 DEF Unlink, Room, Goto
    <3>2. todo \in Seq(Paths) /\ todo # <<>> /\ Head(todo) \in Paths /\ pkg \in Packages
      BY <1>16, HeadTailProperties DEF Unlink, Room, TypeInv, TypeOK
    <3>3. disk'[Head(todo)] # File(pkg, TRUE)
      BY <1>16, <2>4, <3>2, NotWhole
         DEF Unlink, Room, Deleted, NotEmpty, IsDir, File, TypeInv, TypeOK
    <3>4. ASSUME NEW x \in Paths, disk'[x] = File(pkg, TRUE)
          PROVE  x \in ToSet(todo')
      <4>1. x \in ToSet(todo)
        BY <2>1, <3>2, <3>4 DEF NoNewFile, Custody
      <4>. QED BY <3>1, <3>2, <3>3, <3>4, <4>1, LinesLeft
    <3>. QED BY <2>1, <2>2, <3>1, <3>4 DEF Custody
  <2>. QED BY <2>3, <2>4
<1>17. CASE EndOfEntry
  <2>1. UNCHANGED <<disk, entries, record, pkg>> /\ pc = "unlink" /\ pc' = "retry" /\ todo = <<>>
    BY <1>17 DEF EndOfEntry, Goto, database
  <2>2. FilesAccounted'
    BY <2>1, FilesKept, SameDisk DEF Custody
  <2>. QED BY <2>1, <2>2, NothingLeft DEF Custody
<1>18. CASE RetryDir
  <2>1. NoNewFile /\ UNCHANGED <<entries, record, pkg>> /\ pc = "retry" /\ pc' = "retry"
    BY <1>18, SameDisk, WriteOther, NotWhole DEF RetryDir, Deleted, Goto, database
  <2>2. FilesAccounted'
    BY <2>1, FilesKept DEF Custody
  <2>3. pkg \in Packages
    BY DEF TypeInv, TypeOK
  <2>. QED BY <2>1, <2>2, <2>3 DEF Custody, NoNewFile
<1>19. CASE DropEntry
  <2>1. /\ entries' = entries \ {pkg}
        /\ record' = [record EXCEPT ![pkg] = <<>>]
        /\ UNCHANGED <<disk, pkg>>
        /\ pc = "retry" /\ pc' \in {"getdir", "prompt"}
    BY <1>19 DEF DropEntry, EndCommand, Goto
  <2>2. Listed /\ \A x \in Paths : disk[x] # File(pkg, TRUE)
    BY <2>1, ListedNow DEF Custody
  <2>3. ASSUME NEW x \in Paths, NEW p \in Packages, disk'[x] = File(p, TRUE)
        PROVE  p \in entries' /\ x \in ToSet(record'[p])
    BY <2>1, <2>2, <2>3 DEF Listed, TypeInv, TypeOK
  <2>. QED BY <2>1, <2>3 DEF Custody, FilesAccounted
<1>20. CASE Die
  BY <1>20, CustodyAtPrompt, SameDisk DEF Die, Waiting, AtFile, Deleting, database
<1>21. CASE PowerOff
  BY <1>21 DEF PowerOff
<1>22. ASSUME NEW x, UserSave(x) \/ UserDelete(x)
       PROVE  Custody'
  <2>1. /\ NoNewFile
        /\ UNCHANGED <<entries, record, pkg, pc>>
        /\ pc = "prompt"
    BY <1>22, WriteOther, NotWhole DEF UserSave, UserDelete, Deleted, database
  <2>2. FilesAccounted'
    BY <2>1, FilesKept DEF Custody
  <2>. QED BY <2>1, <2>2 DEF Custody
<1>23. CASE UNCHANGED vars
  BY <1>23 DEF vars, database, installVars, uninstallVars, Custody, FilesAccounted,
               Target, At, Line
<1>. QED
  BY <1>1, <1>2, <1>3, <1>4, <1>5, <1>6, <1>7, <1>8, <1>9, <1>10, <1>11, <1>12,
     <1>13, <1>14, <1>15, <1>16, <1>17, <1>18, <1>19, <1>20, <1>21, <1>22, <1>23
     DEF Next, Command, Install, Uninstall, UserStep

\* No file is lost, as long as the writes to the entry succeed and the computer
\* is not reset: for all packages, file lists and installation directories, even
\* overlapping ones, and whenever commands die.
THEOREM NoFileLost ==
  ASSUME Faults \subseteq {"die", "unlink", "retry"}
  PROVE  Spec => []FilesAccounted
<1>1. Init => TypeInv /\ Custody
  BY InitTyped, InitCustody
<1>2. TypeInv /\ Custody /\ [Next]_vars => TypeInv' /\ Custody'
  BY NextTyped, NextCustody
<1>3. Custody => FilesAccounted
  BY DEF Custody
<1>. QED BY <1>1, <1>2, <1>3, PTL DEF Spec

-----------------------------------------------------------------------------
(* The registry, and what each command does                                *)

Installing ==
  {"getdir", "mkdir", "entry", "pages", "list", "line", "body", "record", "store"}
Entering == {"pages", "list", "line", "body", "record", "store"}

\* The elements of a part of a sequence are elements of it.
LEMMA PartOf ==
  ASSUME NEW seq \in Seq(Paths), NEW k \in 0..Len(seq)
  PROVE  ToSet(SubSeq(seq, 1, k)) \subseteq ToSet(seq)
<1>1. /\ Len(SubSeq(seq, 1, k)) = k
      /\ \A i \in 1..k : SubSeq(seq, 1, k)[i] = seq[i]
  BY SubSeqProperties, LenProperties
<1>. QED BY <1>1, LenProperties DEF ToSet

LEMMA TailOf ==
  ASSUME NEW seq \in Seq(Paths), seq # <<>>
  PROVE  Head(seq) \in ToSet(seq) /\ ToSet(Tail(seq)) \subseteq ToSet(seq)
<1>1. /\ Tail(seq) \in Seq(Paths)
      /\ Len(Tail(seq)) = Len(seq) - 1
      /\ \A i \in 1..Len(Tail(seq)) : Tail(seq)[i] = seq[i + 1]
      /\ Head(seq) = seq[1] /\ 1 \in 1..Len(seq)
  BY HeadTailProperties, LenProperties
<1>. QED BY <1>1, LenProperties DEF ToSet

LEMMA AppendOf ==
  ASSUME NEW seq \in Seq(Paths), NEW x \in Paths
  PROVE  ToSet(Append(seq, x)) = ToSet(seq) \cup {x}
BY AppendProperties, LenProperties DEF ToSet

-----------------------------------------------------------------------------
(* Installer implements PackageRegistry.                                   *)

\* Nothing of a package is put exactly where packages are installed, so that
\* the last line of an entry tells a complete install from one that died.
Apart ==
  \A p \in Packages : \A d \in InstallDirs :
    \A n \in 1..Len(Pages[p]) : \A k \in 1..Len(Pages[p][n]) :
      \A i \in 1..Len(Pages[p][n][k]) : d \o SubSeq(Pages[p][n][k], 1, i) \notin InstallDirs

\* No line is an installation directory.
Plain(seq) == \A x \in ToSet(seq) : x \notin InstallDirs

\* An install works on a package without an entry until it makes one, and from
\* then on with one that is not complete.
Open ==
  /\ pc \in Installing \ Entering => pkg \notin entries
  /\ pc \in Entering /\ pkg \in entries => Plain(record[pkg])
  /\ pc \in Entering \ {"pages"} => Plain(created)
  /\ pc \in {"unlink", "retry"} => pkg \in entries

LEMMA PlainAppend ==
  ASSUME NEW seq \in Seq(Paths), NEW x \in Paths, x \notin InstallDirs, Plain(seq)
  PROVE  Plain(Append(seq, x))
BY AppendProperties, LenProperties DEF Plain, ToSet

LEMMA PlainTail ==
  ASSUME NEW seq \in Seq(Paths), seq # <<>>, Plain(seq)
  PROVE  Plain(Tail(seq)) /\ Head(seq) \notin InstallDirs
<1>1. /\ Tail(seq) \in Seq(Paths)
      /\ Len(Tail(seq)) = Len(seq) - 1
      /\ \A i \in 1..Len(Tail(seq)) : Tail(seq)[i] = seq[i + 1]
      /\ Head(seq) = seq[1] /\ 1 \in 1..Len(seq)
  BY HeadTailProperties, LenProperties
<1>. QED BY <1>1, LenProperties DEF Plain, ToSet

LEMMA PlainEmpty == Plain(<<>>)
BY NothingLeft DEF Plain

\* A line written while the entry is open.
LEMMA PlainWritten ==
  ASSUME TypeInv, NEW x \in Paths, x \notin InstallDirs, WriteLine(x), UNCHANGED <<pkg, entries>>,
         pkg \in entries => Plain(record[pkg])
  PROVE  pkg \in entries => Plain(record'[pkg])
<1>. SUFFICES ASSUME pkg \in entries PROVE Plain(record'[pkg])
  BY DEF TypeInv
<1>1. record[pkg] \in Seq(Paths) /\ pkg \in Packages /\ record \in [Packages -> Seq(Paths)]
  BY DEF TypeInv, TypeOK
<1>2. Plain(Append(record[pkg], x))
  BY <1>1, PlainAppend
<1>. QED BY <1>1, <1>2 DEF WriteLine

\* The file and the directories of a line are not installation directories.
LEMMA TargetApart ==
  ASSUME Apart, TypeInv, pc \in {"line", "body", "record"}, line \in 1..Len(Pages[pkg][page])
  PROVE  Target \notin InstallDirs
<1>1. /\ pkg \in Packages
      /\ page \in 1..Len(Pages[pkg])
      /\ installdir \in InstallDirs
  BY DEF TypeInv, TypeOK, Position
<1>2. Len(Line) \in Nat \ {0}
  BY <1>1, ListingAssumption DEF Line
<1>3. \A i \in 1..Len(Line) : installdir \o SubSeq(Line, 1, i) \notin InstallDirs
  BY <1>1, ListingAssumption DEF Apart, Line
<1>4. Len(Line) \in 1..Len(Line)
  BY <1>2
<1>. QED BY <1>3, <1>4 DEF Target, At

LEMMA SubdirApart ==
  ASSUME Apart, TypeInv, pc = "line", line <= Len(Pages[pkg][page]), sub + 1 < Len(Line)
  PROVE  At(sub + 1) \notin InstallDirs
<1>1. /\ pkg \in Packages
      /\ page \in 1..Len(Pages[pkg])
      /\ installdir \in InstallDirs
      /\ line \in Nat /\ line >= 1
      /\ sub \in Nat
  BY DEF TypeInv, TypeOK, Position
<1>2. line \in 1..Len(Pages[pkg][page])
  BY <1>1, ListingAssumption
<1>3. sub + 1 \in 1..Len(Line)
  BY <1>1, <1>2, ListingAssumption DEF Line
<1>4. \A i \in 1..Len(Line) : installdir \o SubSeq(Line, 1, i) \notin InstallDirs
  BY <1>1, <1>2 DEF Apart, Line
<1>. QED BY <1>3, <1>4 DEF At

LEMMA InitOpen == Init => Open
BY DEF Init, Open, Installing, Entering

LEMMA WrittenNow ==
  ASSUME TypeInv, NEW x \in Paths, WriteLine(x), UNCHANGED <<pkg, entries>>
  PROVE  \A p \in Packages :
           p # pkg => record'[p] = record[p] /\ (p \in entries' <=> p \in entries)
BY DEF WriteLine, TypeInv, TypeOK

\* Every step keeps the entry of a running install apart.
LEMMA NextOpen ==
  ASSUME Apart, TypeInv, Open, [Next]_vars
  PROVE  Open'
<1>. USE DEF Open, Installing, Entering, Goto
<1>1. ASSUME NEW p \in Packages, NEW dir, StartInstall(p, dir)
      PROVE  Open'
  BY <1>1 DEF StartInstall, IsInstalled, database
<1>2. CASE GetInstallDir
  BY <1>2 DEF GetInstallDir, database
<1>3. CASE MakeInstallDir
  BY <1>3 DEF MakeInstallDir, EndCommand, database, installVars
<1>4. CASE OpenEntry
  BY <1>4, PlainEmpty DEF OpenEntry, database, installVars, TypeInv, TypeOK
<1>5. CASE GetPages
  BY <1>5, PlainEmpty DEF GetPages, database
<1>6. CASE GetList
  BY <1>6 DEF GetList, database
<1>7. CASE EndOfPages
  BY <1>7 DEF EndOfPages, database, installVars
<1>8. CASE EndOfList
  BY <1>8 DEF EndOfList, database
<1>9. CASE MakeSubdir
  <2>1. Plain(created') \/ pc' = "prompt"
    <3>1. At(sub + 1) \notin InstallDirs /\ At(sub + 1) \in Paths /\ created \in Seq(Paths)
      BY <1>9, SubdirApart, SubdirIsPath DEF MakeSubdir, TypeInv, TypeOK
    <3>2. Plain(Append(created, At(sub + 1))) /\ Plain(created)
      BY <1>9, <3>1, PlainAppend DEF MakeSubdir
    <3>. QED BY <1>9, <3>2 DEF MakeSubdir, EndCommand
  <2>2. pc = "line" /\ UNCHANGED <<entries, record, pkg>> /\ pc' \in {"line", "prompt"}
    BY <1>9 DEF MakeSubdir, EndCommand, database
  <2>. QED BY <2>1, <2>2
<1>10. CASE BeginFile
  BY <1>10 DEF BeginFile, AtFile, EndCommand, database, installVars
<1>11. CASE EndFile
  BY <1>11 DEF EndFile, database, installVars
<1>12. CASE RecordFile
  <2>1. Target \in Paths /\ Target \notin InstallDirs
    BY <1>12, TargetIsPath, TargetApart DEF RecordFile, TypeInv, Position
  <2>. QED BY <1>12, <2>1, PlainWritten DEF RecordFile
<1>13. CASE StoreDir
  <2>1. created \in Seq(Paths) /\ created # <<>> /\ Plain(created) /\ Head(created) \in Paths
    BY <1>13, HeadTailProperties DEF StoreDir, TypeInv, TypeOK
  <2>2. Plain(Tail(created)) /\ Head(created) \notin InstallDirs
    BY <2>1, PlainTail
  <2>. QED BY <1>13, <2>1, <2>2, PlainWritten DEF StoreDir
<1>14. CASE StoreInstallDir
  BY <1>14 DEF StoreInstallDir, EndCommand
<1>15. ASSUME NEW p \in Packages, NEW isUpgrade, StartUninstall(p, isUpgrade)
       PROVE  Open'
  BY <1>15 DEF StartUninstall, database, installVars
<1>16. CASE Unlink
  BY <1>16 DEF Unlink, Room, EndCommand, database
<1>17. CASE EndOfEntry
  BY <1>17 DEF EndOfEntry, database
<1>18. CASE RetryDir
  BY <1>18 DEF RetryDir, database
<1>19. CASE DropEntry
  BY <1>19 DEF DropEntry, EndCommand
<1>20. CASE Die \/ PowerOff
  BY <1>20 DEF Die, PowerOff, EndCommand
<1>21. ASSUME NEW x, UserSave(x) \/ UserDelete(x)
       PROVE  Open'
  BY <1>21 DEF UserSave, UserDelete, database
<1>22. CASE UNCHANGED vars
  BY <1>22 DEF vars, database, installVars
<1>. QED
  BY <1>1, <1>2, <1>3, <1>4, <1>5, <1>6, <1>7, <1>8, <1>9, <1>10, <1>11, <1>12,
     <1>13, <1>14, <1>15, <1>16, <1>17, <1>18, <1>19, <1>20, <1>21, <1>22
     DEF Next, Command, Install, Uninstall, UserStep

\* A step of the registry, or none that it sees.
RegistryStep == Registry!Next \/ UNCHANGED <<Registered, Running>>

LEMMA SameDatabase == UNCHANGED database => Registered' = Registered
BY DEF database, Registered, Complete

\* A step that leaves the other packages alone changes the state of this one.
LEMMA OnePackage ==
  ASSUME TypeInv,
         \A p \in Packages :
           p # pkg => record'[p] = record[p] /\ (p \in entries' <=> p \in entries)
  PROVE  Registered' = [Registered EXCEPT ![pkg] = Registered'[pkg]]
BY DEF Registered, Complete, TypeInv, TypeOK

\* While install() works on the entry, it is not complete.
LEMMA PlainIncomplete ==
  ASSUME NEW seq \in Seq(Paths), Plain(seq)
  PROVE  ~(seq # <<>> /\ Last(seq) \in InstallDirs)
<1>. SUFFICES ASSUME seq # <<>> PROVE Last(seq) \notin InstallDirs
  OBVIOUS
<1>1. Len(seq) \in 1..Len(seq)
  BY EmptySeq, LenProperties
<1>. QED BY <1>1 DEF Plain, Last, ToSet

\* A step inside a command that the registry does not see.
LEMMA Unseen ==
  ASSUME Registered' = Registered, UNCHANGED pkg,
         \/ pc \in Installing /\ pc' \in Installing
         \/ pc \in {"unlink", "retry"} /\ pc' \in {"unlink", "retry"} /\ UNCHANGED upgrading
  PROVE  RegistryStep
BY DEF RegistryStep, Running, Installing

\* A command that ends without having done what it was to do.
LEMMA Failed ==
  ASSUME Registered' = Registered, pc # "prompt", pc' = "prompt"
  PROVE  RegistryStep
<1>1. Running' = [op |-> "none"] /\ Running # [op |-> "none"]
  BY DEF Running
<1>. QED BY <1>1 DEF RegistryStep, Registry!Next, Registry!Work, Registry!Fail, Registry!NoJob

\* A line that is not the last leaves a package partial.
LEMMA LineUnseen ==
  ASSUME TypeInv, TypeInv', Open, Open', pc \in Entering, pc' \in Entering,
         NEW x \in Paths, WriteLine(x), UNCHANGED <<pkg, entries>>
  PROVE  Registered' = Registered
<1>1. pkg \in Packages
  BY DEF TypeInv, TypeOK
<1>2. Registered' = [Registered EXCEPT ![pkg] = Registered'[pkg]]
  BY WrittenNow, OnePackage
<1>3. CASE pkg \in entries
  <2>1. Registered[pkg] = "partial"
    BY <1>1, <1>3, PlainIncomplete DEF Open, Registered, Complete, TypeInv, TypeOK
  <2>2. Registered'[pkg] = "partial"
    BY <1>1, <1>3, PlainIncomplete DEF Open, Registered, Complete, TypeInv, TypeOK
  <2>. QED BY <1>2, <2>1, <2>2 DEF Registered
<1>4. CASE pkg \notin entries
  BY <1>1, <1>2, <1>4 DEF Registered
<1>. QED BY <1>3, <1>4

LEMMA InitRegistry == Init => Registry!Init
BY DEF Init, Registry!Init, Registry!NoJob, Registered, Running

\* The record of a computer switched off while the entry was open is the
\* beginning of one that was not complete.
LEMMA PowerOffUnseen ==
  ASSUME TypeInv, Open, PowerOff
  PROVE  Registered' = Registered
<1>1. pkg \in Packages /\ record \in [Packages -> Seq(Paths)] /\ entries' = entries
  BY DEF TypeInv, TypeOK, PowerOff
<1>2. CASE EntryOpen
  <2>1. PICK k \in 0..Len(record[pkg]) :
          record' = [record EXCEPT ![pkg] = SubSeq(@, 1, k)]
    BY <1>2 DEF PowerOff
  <2>2. Plain(record[pkg]) /\ pkg \in entries /\ record[pkg] \in Seq(Paths)
    BY <1>1, <1>2 DEF Open, EntryOpen, Entering
  <2>. DEFINE cut == SubSeq(record[pkg], 1, k)
  <2>3. /\ Len(cut) = k
        /\ \A i \in 1..Len(cut) : i \in 1..Len(record[pkg]) /\ cut[i] = record[pkg][i]
    BY <2>1, <2>2, SubSeqProperties, LenProperties
  <2>4. \A i \in 1..Len(cut) : cut[i] \in Paths
    BY <2>2, <2>3, ElementOfSeq, LenProperties
  <2>5. cut \in Seq(Paths) /\ Plain(cut)
    BY <2>1, <2>2, <2>3, <2>4, SubSeqProperties, LenProperties DEF Plain, ToSet
  <2>6. Registered[pkg] = "partial"
    BY <1>1, <2>2, PlainIncomplete DEF Registered, Complete
  <2>7. record'[pkg] = cut
    BY <1>1, <2>1
  <2>8. Registered'[pkg] = "partial"
    BY <1>1, <2>2, <2>5, <2>7, PlainIncomplete DEF Registered, Complete
  <2>9. Registered' = [Registered EXCEPT ![pkg] = Registered'[pkg]]
    BY <1>1, <2>1, OnePackage
  <2>. QED BY <2>6, <2>8, <2>9 DEF Registered
<1>3. CASE ~EntryOpen
  BY <1>3, SameDatabase DEF PowerOff, database
<1>. QED BY <1>2, <1>3

\* Every step is a step of the registry or is not seen by it.
LEMMA NextRegistry ==
  ASSUME Apart, TypeInv, TypeInv', Open, Open', [Next]_vars
  PROVE  RegistryStep
<1>. USE DEF Goto
<1>0. pkg \in Packages /\ record \in [Packages -> Seq(Paths)]
  BY DEF TypeInv, TypeOK
<1>1. ASSUME NEW p \in Packages, NEW dir \in GivenDirs \cup {NoArg}, StartInstall(p, dir)
      PROVE  RegistryStep
  <2>1. Registered' = Registered /\ pc = "prompt"
    BY <1>1, SameDatabase DEF StartInstall
  <2>2. CASE UNCHANGED pc
    BY <2>1, <2>2 DEF RegistryStep, Running
  <2>3. CASE ~IsInstalled(p) /\ pc' = IF dir = NoArg THEN "getdir" ELSE "mkdir"
    <3>1. Registered[p] = "absent"
      BY <2>3 DEF Registered, IsInstalled
    <3>2. Running = [op |-> "none"] /\ Running' = [op |-> "install", pkg |-> p]
      BY <1>1, <2>1, <2>3 DEF StartInstall, Running
    <3>3. Registry!Begin(p)
      BY <2>1, <3>1, <3>2 DEF Registry!Begin, Registry!NoJob
    <3>. QED BY <3>3 DEF RegistryStep, Registry!Next
  <2>. QED BY <1>1, <2>2, <2>3 DEF StartInstall
<1>2. CASE GetInstallDir
  BY <1>2, SameDatabase, Unseen DEF GetInstallDir, Installing
<1>3. CASE MakeInstallDir
  BY <1>3, SameDatabase, Unseen, Failed DEF MakeInstallDir, EndCommand, Installing
<1>4. CASE OpenEntry
  <2>1. pc = "entry" /\ pc' = "pages" /\ pkg' = pkg /\ pkg \notin entries
    BY <1>4 DEF OpenEntry, Open, Installing, Entering
  <2>2. CASE UNCHANGED database
    BY <2>1, <2>2, SameDatabase, Unseen DEF Installing
  <2>3. CASE entries' = entries \cup {pkg} /\ record' = [record EXCEPT ![pkg] = <<>>]
    <3>1. Registered[pkg] = "absent" /\ Registered'[pkg] = "partial"
      BY <1>0, <2>1, <2>3 DEF Registered, Complete
    <3>2. Registered' = [Registered EXCEPT ![pkg] = "partial"]
      BY <1>0, <2>3, <3>1, OnePackage
    <3>3. Running = [op |-> "install", pkg |-> pkg] /\ Running' = Running
      BY <2>1 DEF Running
    <3>4. Registry!Enter
      BY <3>1, <3>2, <3>3 DEF Registry!Enter
    <3>. QED BY <3>4 DEF RegistryStep, Registry!Next, Registry!Work
  <2>. QED BY <1>4, <2>2, <2>3 DEF OpenEntry
<1>5. CASE GetPages
  BY <1>5, SameDatabase, Unseen DEF GetPages, Installing
<1>6. CASE GetList
  BY <1>6, SameDatabase, Unseen DEF GetList, Installing
<1>7. CASE EndOfPages
  BY <1>7, SameDatabase, Unseen DEF EndOfPages, Installing
<1>8. CASE EndOfList
  BY <1>8, SameDatabase, Unseen DEF EndOfList, Installing
<1>9. CASE MakeSubdir
  BY <1>9, SameDatabase, Unseen, Failed DEF MakeSubdir, EndCommand, Installing
<1>10. CASE BeginFile
  BY <1>10, SameDatabase, Unseen, Failed DEF BeginFile, AtFile, EndCommand, Installing
<1>11. CASE EndFile
  BY <1>11, SameDatabase, Unseen DEF EndFile, Installing
<1>12. CASE RecordFile
  <2>1. Target \in Paths
    BY <1>12, TargetIsPath DEF RecordFile, TypeInv, Position
  <2>2. Registered' = Registered
    BY <1>12, <2>1, LineUnseen DEF RecordFile, Entering
  <2>. QED BY <1>12, <2>2, Unseen DEF RecordFile, Installing
<1>13. CASE StoreDir
  <2>1. Head(created) \in Paths
    BY <1>13, HeadTailProperties DEF StoreDir, TypeInv, TypeOK
  <2>2. Registered' = Registered
    BY <1>13, <2>1, LineUnseen DEF StoreDir, Entering
  <2>. QED BY <1>13, <2>2, Unseen DEF StoreDir, Installing
<1>14. CASE StoreInstallDir
  <2>1. /\ pc = "store" /\ pc' = "prompt" /\ pkg' = pkg /\ entries' = entries
        /\ WriteLine(installdir)
    BY <1>14 DEF StoreInstallDir, EndCommand
  <2>2. installdir \in InstallDirs /\ installdir \in Paths
    BY <2>1, ConstantsAssumption DEF TypeInv, Position
  <2>3. CASE UNCHANGED record
    BY <2>1, <2>3, SameDatabase, Failed DEF database
  <2>4. CASE pkg \in entries /\ record' = [record EXCEPT ![pkg] = Append(@, installdir)]
    <3>1. Registered[pkg] = "partial"
      BY <1>0, <2>1, <2>4, PlainIncomplete DEF Open, Entering, Registered, Complete
    <3>2. record'[pkg] # <<>> /\ Last(record'[pkg]) = installdir
      BY <1>0, <2>2, <2>4, AppendProperties, LenProperties DEF Last
    <3>3. Registered'[pkg] = "installed"
      BY <1>0, <2>1, <2>2, <2>4, <3>2 DEF Registered, Complete
    <3>4. Registered' = [Registered EXCEPT ![pkg] = "installed"]
      BY <1>0, <2>1, <2>4, <3>3, OnePackage
    <3>5. Running = [op |-> "install", pkg |-> pkg] /\ Running' = [op |-> "none"]
      BY <2>1 DEF Running
    <3>6. Registry!Finish
      BY <3>1, <3>4, <3>5 DEF Registry!Finish, Registry!NoJob
    <3>. QED BY <3>6 DEF RegistryStep, Registry!Next, Registry!Work
  <2>. QED BY <2>1, <2>3, <2>4 DEF WriteLine
<1>15. ASSUME NEW p \in Packages, NEW isUpgrade \in BOOLEAN, StartUninstall(p, isUpgrade)
       PROVE  RegistryStep
  <2>1. Registered' = Registered /\ pc = "prompt" /\ Running = [op |-> "none"]
    BY <1>15, SameDatabase DEF StartUninstall, Running
  <2>2. CASE p \notin entries
    BY <1>15, <2>1, <2>2 DEF StartUninstall, RegistryStep, Running
  <2>3. CASE p \in entries
    <3>1. Running' = [op |-> IF isUpgrade THEN "upgrade" ELSE "remove", pkg |-> p]
      BY <1>15, <2>3 DEF StartUninstall, Running
    <3>2. Registered[p] # "absent"
      BY <2>3 DEF Registered
    <3>3. Registry!Begin(p)
      BY <2>1, <3>1, <3>2 DEF Registry!Begin, Registry!NoJob
    <3>. QED BY <3>3 DEF RegistryStep, Registry!Next
  <2>. QED BY <2>2, <2>3
<1>16. CASE Unlink
  BY <1>16, SameDatabase, Unseen, Failed DEF Unlink, Room, EndCommand
<1>17. CASE EndOfEntry
  BY <1>17, SameDatabase, Unseen DEF EndOfEntry, uninstallVars
<1>18. CASE RetryDir
  BY <1>18, SameDatabase, Unseen DEF RetryDir
<1>19. CASE DropEntry
  <2>1. /\ entries' = entries \ {pkg} /\ record' = [record EXCEPT ![pkg] = <<>>]
        /\ pc = "retry" /\ pkg' = pkg
    BY <1>19 DEF DropEntry, EndCommand
  <2>2. Registered'[pkg] = "absent"
    BY <1>0, <2>1 DEF Registered
  <2>3. Registered' = [Registered EXCEPT ![pkg] = "absent"]
    BY <1>0, <2>1, <2>2, OnePackage
  <2>4. CASE upgrading
    <3>1. /\ Running = [op |-> "upgrade", pkg |-> pkg]
          /\ Running' = [op |-> "install", pkg |-> pkg]
      BY <1>19, <2>1, <2>4 DEF DropEntry, Running
    <3>2. Registry!Remove
      BY <2>3, <3>1 DEF Registry!Remove
    <3>. QED BY <3>2 DEF RegistryStep, Registry!Next, Registry!Work
  <2>5. CASE ~upgrading
    <3>1. Running = [op |-> "remove", pkg |-> pkg] /\ Running' = [op |-> "none"]
      BY <1>19, <2>1, <2>5 DEF DropEntry, EndCommand, Running
    <3>2. Registry!Remove
      BY <2>3, <3>1 DEF Registry!Remove, Registry!NoJob
    <3>. QED BY <3>2 DEF RegistryStep, Registry!Next, Registry!Work
  <2>. QED BY <2>4, <2>5
<1>20. CASE Die
  BY <1>20, SameDatabase, Failed DEF Die, Waiting, AtFile, Deleting, EndCommand, database
<1>21. CASE PowerOff
  BY <1>21, PowerOffUnseen, Failed DEF PowerOff, EndCommand
<1>22. ASSUME NEW x, UserSave(x) \/ UserDelete(x)
       PROVE  RegistryStep
  BY <1>22, SameDatabase DEF UserSave, UserDelete, RegistryStep, Running
<1>23. CASE UNCHANGED vars
  BY <1>23, SameDatabase DEF vars, uninstallVars, RegistryStep, Running
<1>. QED
  BY <1>1, <1>2, <1>3, <1>4, <1>5, <1>6, <1>7, <1>8, <1>9, <1>10, <1>11, <1>12,
     <1>13, <1>14, <1>15, <1>16, <1>17, <1>18, <1>19, <1>20, <1>21, <1>22, <1>23
     DEF Next, Command, Install, Uninstall, UserStep

\* The package manager implements its registry, whatever fails or dies: a
\* package becomes installed only by an install that began with it absent, and
\* leaves that state only by being removed.  (That each command ends is left
\* to TLC.)
THEOREM RegistryImplemented ==
  ASSUME Apart
  PROVE  Spec => Registry!Init /\ [][Registry!Next]_(Registry!vars)
<1>1. Init => TypeInv /\ Open /\ Registry!Init
  BY InitTyped, InitOpen, InitRegistry
<1>2. TypeInv /\ Open /\ [Next]_vars => TypeInv' /\ Open'
  BY NextTyped, NextOpen
<1>3. TypeInv /\ Open /\ TypeInv' /\ Open' /\ [Next]_vars => [Registry!Next]_(Registry!vars)
  BY NextRegistry DEF RegistryStep, Registry!vars
<1>. QED BY <1>1, <1>2, <1>3, PTL DEF Spec

-----------------------------------------------------------------------------
(* A complete install has all files.                                       *)

\* Where install() puts the k-th file of page n.
Place(n, k) == installdir \o Pages[pkg][n][k]

\* The files install() has dealt with.
Passed(n, k) ==
  \/ pc = "store"
  \/ pc \in {"list", "line", "body", "record"} /\ n < page
  \/ pc \in {"line", "body", "record"} /\ n = page /\ k < line

\* They are on the disk, whole, and listed; only the file just being
\* downloaded may be one of them, on a line that the lists have twice.
Placed ==
  \A n \in 1..Len(Pages[pkg]) : \A k \in 1..Len(Pages[pkg][n]) :
    Passed(n, k) =>
      /\ Place(n, k) \in ToSet(record[pkg])
      /\ disk[Place(n, k)] = File(pkg, TRUE) \/ (pc = "body" /\ Place(n, k) = Target)

Progress ==
  /\ pc \in Entering => pkg \in entries
  /\ Placed
  /\ pc = "record" => disk[Target] = File(pkg, TRUE)

LEMMA PlaceIsPath ==
  ASSUME TypeInv, installdir \in InstallDirs,
         NEW n \in 1..Len(Pages[pkg]), NEW k \in 1..Len(Pages[pkg][n])
  PROVE  Place(n, k) \in Paths
<1>. DEFINE names == Pages[pkg][n][k]
<1>1. pkg \in Packages
  BY DEF TypeInv, TypeOK
<1>2. /\ names \in Seq(ToSet(names)) /\ Len(names) \in Nat \ {0}
      /\ \A i \in 1..Len(names) : installdir \o SubSeq(names, 1, i) \in Paths
  BY <1>1, ListingAssumption
<1>3. Len(names) \in 1..Len(names)
  BY <1>2
<1>4. SubSeq(names, 1, Len(names)) = names
  <2>. HIDE DEF names
  <2>. QED BY <1>2
<1>. QED BY <1>2, <1>3, <1>4 DEF Place

LEMMA TargetIsPlace ==
  ASSUME TypeInv, pc \in {"line", "body", "record"}, line \in 1..Len(Pages[pkg][page])
  PROVE  Target = Place(page, line)
<1>1. pkg \in Packages /\ page \in 1..Len(Pages[pkg])
  BY DEF TypeInv, TypeOK, Position
<1>2. Line \in Seq(ToSet(Line))
  BY <1>1, ListingAssumption DEF Line
<1>3. SubSeq(Line, 1, Len(Line)) = Line
  <2>. HIDE DEF Line
  <2>. QED BY <1>2
<1>. QED BY <1>3 DEF Target, At, Place, Line

\* Outside of the loops over the lists nothing is claimed.
LEMMA NothingPassed ==
  ASSUME pc \notin {"list", "line", "body", "record", "store"}
  PROVE  Placed
BY DEF Placed, Passed

\* A step that deals with no further file, and neither writes to the entry nor
\* replaces a file, leaves everything in place.
LEMMA PlacedKept ==
  ASSUME Placed, pc # "body", pc' # "body", UNCHANGED <<record, pkg, installdir>>,
         \A x \in Paths : disk[x] = File(pkg, TRUE) => disk'[x] = disk[x],
         \A n \in 1..Len(Pages[pkg]) : \A k \in 1..Len(Pages[pkg][n]) :
           Passed(n, k)' => Passed(n, k) /\ Place(n, k) \in Paths
  PROVE  Placed'
<1>. SUFFICES ASSUME NEW n \in 1..Len(Pages[pkg]), NEW k \in 1..Len(Pages[pkg][n]), Passed(n, k)'
              PROVE  Place(n, k)' \in ToSet(record[pkg]) /\ disk'[Place(n, k)'] = File(pkg, TRUE)
  BY DEF Placed
<1>1. Place(n, k)' = Place(n, k)
  BY DEF Place
<1>. QED BY <1>1 DEF Placed

LEMMA InitProgress == Init => Progress
BY NothingPassed DEF Init, Progress, Entering

\* Every step keeps the files of a running install in place.
LEMMA NextProgress ==
  ASSUME Faults \subseteq {"die", "unlink", "retry", "power"}, TypeInv, TypeInv', Progress, [Next]_vars
  PROVE  Progress'
<1>. USE DEF Progress, Entering, Goto
<1>0. pkg \in Packages /\ record \in [Packages -> Seq(Paths)] /\ disk \in [Paths -> Node]
  BY DEF TypeInv, TypeOK
<1>a. ASSUME pc' \notin {"list", "line", "body", "record", "store"}, pc' = "pages" => pkg' \in entries'
      PROVE  Progress'
  BY <1>a, NothingPassed DEF Placed, Passed
<1>b. ASSUME NEW n \in 1..Len(Pages[pkg]), NEW k \in 1..Len(Pages[pkg][n]),
             pc \in {"list", "line", "body", "record", "store"}
      PROVE  Place(n, k) \in Paths
  BY <1>b, PlaceIsPath DEF TypeInv, Position
<1>1. ASSUME NEW p \in Packages, NEW dir, StartInstall(p, dir)
      PROVE  Progress'
  BY <1>1, <1>a DEF StartInstall
<1>2. CASE GetInstallDir
  BY <1>2, <1>a DEF GetInstallDir
<1>3. CASE MakeInstallDir
  BY <1>3, <1>a DEF MakeInstallDir, EndCommand
<1>4. CASE OpenEntry
  BY <1>4, <1>a DEF OpenEntry
<1>5. CASE GetPages
  <2>1. ASSUME NEW n \in 1..Len(Pages[pkg]), NEW k \in 1..Len(Pages[pkg][n])
        PROVE  ~Passed(n, k)'
    BY <1>5 DEF GetPages, Passed
  <2>. QED BY <1>5, <2>1 DEF GetPages, Placed, database
<1>6. CASE GetList
  <2>1. ASSUME NEW n \in 1..Len(Pages[pkg]), NEW k \in 1..Len(Pages[pkg][n]), Passed(n, k)'
        PROVE  Passed(n, k) /\ Place(n, k) \in Paths
    BY <1>6, <2>1, <1>b DEF GetList, Passed
  <2>. QED BY <1>6, <2>1, PlacedKept DEF GetList, database
<1>7. CASE EndOfPages
  <2>1. ASSUME NEW n \in 1..Len(Pages[pkg]), NEW k \in 1..Len(Pages[pkg][n]), Passed(n, k)'
        PROVE  Passed(n, k) /\ Place(n, k) \in Paths
    BY <1>7, <1>b DEF EndOfPages, Passed, TypeInv, TypeOK
  <2>. QED BY <1>7, <2>1, PlacedKept DEF EndOfPages, database, installVars
<1>8. CASE EndOfList
  <2>1. ASSUME NEW n \in 1..Len(Pages[pkg]), NEW k \in 1..Len(Pages[pkg][n]), Passed(n, k)'
        PROVE  Passed(n, k) /\ Place(n, k) \in Paths
    BY <1>8, <2>1, <1>b, ListingAssumption, SMTT(20) DEF EndOfList, Passed, TypeInv, TypeOK
  <2>. QED BY <1>8, <2>1, PlacedKept DEF EndOfList, database
<1>9. CASE MakeSubdir
  <2>1. CASE pc' = "prompt"
    BY <2>1, <1>a
  <2>2. CASE pc' = "line"
    <3>1. \A x \in Paths : disk[x] = File(pkg, TRUE) => disk'[x] = disk[x]
      <4>1. CASE UNCHANGED disk
        BY <4>1
      <4>2. CASE MayMakeDir(At(sub + 1)) /\ disk' = [disk EXCEPT ![At(sub + 1)] = Directory(pkg)]
        <5>1. disk[At(sub + 1)].kind = "none" /\ File(pkg, TRUE).kind = "file"
          BY <4>2 DEF MayMakeDir, Exists, File
        <5>. QED BY <1>0, <4>2, <5>1
      <4>. QED BY <1>9, <4>1, <4>2 DEF MakeSubdir
    <3>2. UNCHANGED <<entries, record, pkg, installdir, page, line>> /\ pc = "line"
      BY <1>9, <2>2 DEF MakeSubdir, EndCommand, database
    <3>3. ASSUME NEW n \in 1..Len(Pages[pkg]), NEW k \in 1..Len(Pages[pkg][n]), Passed(n, k)'
          PROVE  Passed(n, k) /\ Place(n, k) \in Paths
      BY <2>2, <3>2, <3>3, <1>b DEF Passed
    <3>. QED BY <2>2, <3>1, <3>2, <3>3, PlacedKept
  <2>. QED BY <1>9, <2>1, <2>2 DEF MakeSubdir, EndCommand
<1>10. CASE BeginFile
  <2>1. CASE pc' = "prompt"
    BY <2>1, <1>a
  <2>2. CASE pc' = "body"
    <3>1. disk' = [disk EXCEPT ![Target] = File(pkg, FALSE)] /\ pc = "line"
      BY <1>10, <2>2 DEF BeginFile, AtFile, EndCommand
    <3>2. UNCHANGED <<entries, record, pkg, installdir, page, line>> /\ Target' = Target
      BY <1>10, <2>2 DEF BeginFile, EndCommand, database, installVars, Target, At, Line
    <3>3. ASSUME NEW n \in 1..Len(Pages[pkg]), NEW k \in 1..Len(Pages[pkg][n]), Passed(n, k)'
          PROVE  /\ Place(n, k)' \in ToSet(record'[pkg'])
                 /\ disk'[Place(n, k)'] = File(pkg', TRUE) \/ Place(n, k)' = Target'
      <4>1. Passed(n, k) /\ Place(n, k)' = Place(n, k) /\ Place(n, k) \in Paths
        BY <2>2, <3>1, <3>2, <3>3, <1>b DEF Passed, Place
      <4>. QED BY <1>0, <3>1, <3>2, <4>1 DEF Placed
    <3>. QED BY <2>2, <3>1, <3>2, <3>3 DEF Placed
  <2>. QED BY <1>10, <2>1, <2>2 DEF BeginFile, EndCommand
<1>11. CASE EndFile
  <2>1. /\ disk' = [disk EXCEPT ![Target] = File(pkg, TRUE)]
        /\ UNCHANGED <<entries, record, pkg, installdir, page, line>>
        /\ Target' = Target /\ Target \in Paths
        /\ pc = "body" /\ pc' = "record"
    BY <1>11, TargetIsPath DEF EndFile, database, installVars, Target, At, Line, TypeInv, Position
  <2>2. ASSUME NEW n \in 1..Len(Pages[pkg]), NEW k \in 1..Len(Pages[pkg][n]), Passed(n, k)'
        PROVE  /\ Place(n, k)' \in ToSet(record'[pkg'])
               /\ disk'[Place(n, k)'] = File(pkg', TRUE)
    <3>1. Passed(n, k) /\ Place(n, k)' = Place(n, k) /\ Place(n, k) \in Paths
      BY <2>1, <2>2, <1>b DEF Passed, Place
    <3>. QED BY <1>0, <2>1, <3>1 DEF Placed
  <2>. QED BY <1>0, <2>1, <2>2 DEF Placed
<1>12. CASE RecordFile
  <2>1. /\ UNCHANGED <<disk, entries, pkg, installdir, page>>
        /\ line' = line + 1
        /\ pc = "record" /\ pc' = "line"
        /\ pkg \in entries
        /\ WriteLine(Target)
    BY <1>12 DEF RecordFile
  <2>2. Target \in Paths /\ line \in 1..Len(Pages[pkg][page])
    BY <2>1, TargetIsPath DEF TypeInv, Position
  <2>3. Target = Place(page, line)
    BY <2>1, <2>2, TargetIsPlace
  <2>4. record' = [record EXCEPT ![pkg] = Append(@, Target)]
    BY <2>1 DEF WriteLine
  <2>5. Target \in ToSet(record'[pkg]) /\ ToSet(record[pkg]) \subseteq ToSet(record'[pkg])
    BY <1>0, <2>2, <2>4, LinesAppended
  <2>6. ASSUME NEW n \in 1..Len(Pages[pkg]), NEW k \in 1..Len(Pages[pkg][n]), Passed(n, k)'
        PROVE  /\ Place(n, k)' \in ToSet(record'[pkg'])
               /\ disk'[Place(n, k)'] = File(pkg', TRUE)
    <3>1. Place(n, k)' = Place(n, k)
      BY <2>1 DEF Place
    <3>2. CASE Passed(n, k)
      BY <2>1, <2>5, <3>1, <3>2 DEF Placed
    <3>3. CASE ~Passed(n, k)
      <4>1. n = page /\ k = line
        BY <1>0, <2>1, <2>2, <2>6, <3>3, ListingAssumption DEF Passed
      <4>. QED BY <2>1, <2>3, <2>5, <3>1, <4>1
    <3>. QED BY <3>2, <3>3
  <2>. QED BY <2>1, <2>6 DEF Placed
<1>13. CASE StoreDir
  <2>1. /\ UNCHANGED <<disk, entries, pkg, installdir>>
        /\ pc = "store" /\ pc' = "store" /\ pkg \in entries
        /\ record' = [record EXCEPT ![pkg] = Append(@, Head(created))]
    BY <1>13 DEF StoreDir, WriteLine
  <2>2. Head(created) \in Paths
    BY <1>13, HeadTailProperties DEF StoreDir, TypeInv, TypeOK
  <2>3. ToSet(record[pkg]) \subseteq ToSet(record'[pkg])
    BY <1>0, <2>1, <2>2, LinesAppended
  <2>4. ASSUME NEW n \in 1..Len(Pages[pkg]), NEW k \in 1..Len(Pages[pkg][n])
        PROVE  Place(n, k)' \in ToSet(record'[pkg']) /\ disk'[Place(n, k)'] = File(pkg', TRUE)
    BY <2>1, <2>3 DEF Placed, Passed, Place
  <2>. QED BY <2>1, <2>4 DEF Placed
<1>14. CASE StoreInstallDir \/ Die \/ PowerOff
  BY <1>14, <1>a DEF StoreInstallDir, Die, PowerOff, EndCommand
<1>15. ASSUME NEW p \in Packages, NEW isUpgrade, StartUninstall(p, isUpgrade)
       PROVE  Progress'
  BY <1>15, <1>a DEF StartUninstall
<1>16. CASE Unlink \/ EndOfEntry \/ RetryDir \/ DropEntry
  BY <1>16, <1>a DEF Unlink, EndOfEntry, RetryDir, DropEntry, EndCommand
<1>17. ASSUME NEW x, UserSave(x) \/ UserDelete(x)
       PROVE  Progress'
  BY <1>17, <1>a DEF UserSave, UserDelete
<1>18. CASE UNCHANGED vars
  BY <1>18 DEF vars, database, installVars, Placed, Passed, Place, Target, At, Line
<1>. QED
  BY <1>1, <1>2, <1>3, <1>4, <1>5, <1>6, <1>7, <1>8, <1>9, <1>10, <1>11, <1>12,
     <1>13, <1>14, <1>15, <1>16, <1>17, <1>18
     DEF Next, Command, Install, Uninstall, UserStep

\* An install that gets to its end has all files of all pages on the disk,
\* whole and in the entry, unless writing failed: for all lists, even with a
\* file twice in them.
THEOREM AlwaysInstallComplete ==
  ASSUME Faults \subseteq {"die", "unlink", "retry", "power"}
  PROVE  Spec => InstallComplete
<1>. DEFINE Whole ==
       StoreInstallDir =>
         \A n \in 1..Len(Pages[pkg]) : \A k \in 1..Len(Pages[pkg][n]) :
           LET x == installdir \o Pages[pkg][n][k] IN
             disk[x] = File(pkg, TRUE) /\ x \in ToSet(record'[pkg])
<1>1. Init => TypeInv /\ Progress
  BY InitTyped, InitProgress
<1>2. TypeInv /\ Progress /\ [Next]_vars => TypeInv' /\ Progress'
  BY NextTyped, NextProgress
<1>3. TypeInv /\ Progress /\ [Next]_vars => [Whole]_vars
  <2>. SUFFICES ASSUME TypeInv, Progress, StoreInstallDir,
                       NEW n \in 1..Len(Pages[pkg]), NEW k \in 1..Len(Pages[pkg][n])
                PROVE  /\ disk[Place(n, k)] = File(pkg, TRUE)
                       /\ Place(n, k) \in ToSet(record'[pkg])
    BY DEF Place
  <2>1. /\ pkg \in Packages /\ record \in [Packages -> Seq(Paths)]
        /\ installdir \in Paths /\ pc = "store" /\ pkg \in entries
    BY ConstantsAssumption DEF TypeInv, TypeOK, Position, Progress, Entering, StoreInstallDir
  <2>2. ToSet(record[pkg]) \subseteq ToSet(record'[pkg])
    BY <2>1, LinesAppended DEF StoreInstallDir, WriteLine
  <2>. QED BY <2>1, <2>2 DEF Progress, Placed, Passed
<1>. QED BY <1>1, <1>2, <1>3, PTL DEF Spec, InstallComplete

-----------------------------------------------------------------------------
(* uninstall() deletes what is the package's own.                          *)

\* x is where a file of p may be put, or a directory on the way to one.
FileOf(p, x) ==
  \E d \in InstallDirs : \E n \in 1..Len(Pages[p]) : \E k \in 1..Len(Pages[p][n]) :
    x = d \o Pages[p][n][k]

SubdirIn(p, d, x) ==
  \E n \in 1..Len(Pages[p]) : \E k \in 1..Len(Pages[p][n]) :
    \E i \in 1..Len(Pages[p][n][k]) :
      i < Len(Pages[p][n][k]) /\ x = d \o SubSeq(Pages[p][n][k], 1, i)

SubdirOf(p, x) == \E d \in InstallDirs : SubdirIn(p, d, x)

LineOf(p, x) == FileOf(p, x) \/ SubdirOf(p, x) \/ x \in InstallDirs

\* Nobody puts a file where another one may put something.
Separate ==
  \A x \in Paths :
    /\ \A p \in Packages : FileOf(p, x) => \A q \in Packages \ {p} : ~LineOf(q, x)
    /\ x \in UserPaths => \A q \in Packages : ~LineOf(q, x)

\* The user makes no directories once hub is there.
UsersDir(x) == IsDir(x) /\ disk[x].by = User

\* What uninstall() may be told to delete.
Mine(p, x) == x \in Paths /\ LineOf(p, x) /\ (UsersDir(x) => x \in InstallDirs)

OwnFiles ==
  \A x \in Paths : IsFile(x) =>
    IF disk[x].by = User THEN x \in UserPaths ELSE FileOf(disk[x].by, x)

Own ==
  /\ OwnFiles
  /\ \A p \in Packages : \A x \in ToSet(record[p]) : Mine(p, x)
  /\ pc \in Entering \ {"pages"} => \A x \in ToSet(created) : Mine(pkg, x)
  /\ pc \in {"unlink", "retry"} => \A x \in ToSet(todo) \cup ToSet(undeleted) : Mine(pkg, x)
  /\ pc \notin {"unlink", "retry"} => undeleted = <<>>
  /\ pc \in {"body", "record"} => IsFile(Target)

LEMMA TargetIsFileOf ==
  ASSUME TypeInv, pc \in {"line", "body", "record"}, line \in 1..Len(Pages[pkg][page])
  PROVE  FileOf(pkg, Target) /\ Target \in Paths
BY TargetIsPlace, TargetIsPath DEF FileOf, Place, TypeInv, TypeOK, Position

LEMMA SubdirIsSubdirOf ==
  ASSUME TypeInv, pc = "line", line <= Len(Pages[pkg][page]), sub + 1 < Len(Line)
  PROVE  SubdirOf(pkg, At(sub + 1)) /\ At(sub + 1) \in Paths
<1>1. /\ pkg \in Packages
      /\ page \in 1..Len(Pages[pkg])
      /\ installdir \in InstallDirs
      /\ line \in Nat /\ line >= 1
      /\ sub \in Nat
  BY DEF TypeInv, TypeOK, Position
<1>2. line \in 1..Len(Pages[pkg][page])
  BY <1>1, ListingAssumption
<1>3. sub + 1 \in 1..Len(Line) /\ Line = Pages[pkg][page][line]
  BY <1>1, <1>2, ListingAssumption DEF Line
<1>. QED BY <1>1, <1>2, <1>3, SubdirIsPath DEF SubdirOf, SubdirIn, At

\* A step that makes no directory of the user's lets what is Mine stay so.
LEMMA MineKept ==
  ASSUME \A x \in Paths : UsersDir(x)' => UsersDir(x), NEW p, NEW x, Mine(p, x)
  PROVE  Mine(p, x)'
BY DEF Mine

\* A step that writes nothing to an entry.
LEMMA RecordsKept ==
  ASSUME Own, \A x \in Paths : UsersDir(x)' => UsersDir(x), UNCHANGED record
  PROVE  \A p \in Packages : \A x \in ToSet(record'[p]) : Mine(p, x)'
BY MineKept DEF Own

\* A step that writes a line to one.
LEMMA LineWritten ==
  ASSUME TypeInv, Own, UNCHANGED disk, NEW y, Mine(pkg, y), WriteLine(y)
  PROVE  \A p \in Packages : \A x \in ToSet(record'[p]) : Mine(p, x)'
<1>1. pkg \in Packages /\ record \in [Packages -> Seq(Paths)] /\ y \in Paths
  BY DEF TypeInv, TypeOK, Mine
<1>2. ToSet(Append(record[pkg], y)) = ToSet(record[pkg]) \cup {y}
  BY <1>1, AppendOf
<1>3. \A p \in Packages : \A x \in ToSet(record'[p]) : Mine(p, x)
  BY <1>1, <1>2 DEF WriteLine, Own
<1>4. \A x \in Paths : UsersDir(x)' => UsersDir(x)
  BY DEF UsersDir, IsDir
<1>. QED BY <1>3, <1>4, MineKept

LEMMA NoUsersDir ==
  ASSUME TypeInv, NEW d, NEW node, node.kind # "dir" \/ node.by # User,
         disk' = [disk EXCEPT ![d] = node]
  PROVE  \A x \in Paths : UsersDir(x)' => UsersDir(x)
BY DEF UsersDir, IsDir, TypeInv, TypeOK

\* What may be put on the disk by a step.
LEMMA OwnFilesKept ==
  ASSUME TypeInv, OwnFiles, NEW d, NEW node,
         node.kind = "file" => IF node.by = User THEN d \in UserPaths ELSE FileOf(node.by, d),
         disk' = [disk EXCEPT ![d] = node]
  PROVE  OwnFiles'
<1>. SUFFICES ASSUME NEW x \in Paths, disk'[x].kind = "file"
              PROVE  IF disk'[x].by = User THEN x \in UserPaths ELSE FileOf(disk'[x].by, x)
  BY DEF OwnFiles, IsFile, FileOf
<1>1. CASE x = d
  BY <1>1 DEF TypeInv, TypeOK
<1>2. CASE x # d
  BY <1>2 DEF OwnFiles, IsFile, TypeInv, TypeOK
<1>. QED BY <1>1, <1>2

LEMMA InitOwn == Init => Own
BY NothingLeft DEF Init, Own, OwnFiles, IsFile, Nothing, Directory, Entering

\* Every step leaves to each what is its own.
LEMMA NextOwn ==
  ASSUME TypeInv, TypeInv', Own, [Next]_vars
  PROVE  Own'
<1>. USE DEF Own, Entering, Goto
<1>0. /\ pkg \in Packages /\ record \in [Packages -> Seq(Paths)] /\ disk \in [Paths -> Node]
      /\ pkg # User
  BY ConstantsAssumption DEF TypeInv, TypeOK
<1>a. ASSUME UNCHANGED disk
      PROVE  OwnFiles' /\ \A x \in Paths : UsersDir(x)' => UsersDir(x)
  <2>1. OwnFiles'
    <3>1. ASSUME NEW x \in Paths, disk'[x].kind = "file"
          PROVE  IF disk'[x].by = User THEN x \in UserPaths ELSE FileOf(disk'[x].by, x)
      BY <1>a, <3>1 DEF OwnFiles, IsFile
    <3>. QED BY <3>1 DEF OwnFiles, IsFile, FileOf
  <2>. QED BY <1>a, <2>1 DEF UsersDir, IsDir
<1>b. ASSUME UNCHANGED <<disk, record>>
      PROVE  OwnFiles' /\ \A p \in Packages : \A x \in ToSet(record'[p]) : Mine(p, x)'
  BY <1>b, <1>a, RecordsKept
<1>c. ASSUME NEW x, Mine(pkg, x), UNCHANGED <<disk, pkg>>
      PROVE  Mine(pkg, x)'
  BY <1>a, <1>c, MineKept
<1>1. ASSUME NEW p \in Packages, NEW dir, StartInstall(p, dir)
      PROVE  Own'
  BY <1>1, <1>b DEF StartInstall, database, uninstallVars
<1>2. CASE GetInstallDir
  BY <1>2, <1>b DEF GetInstallDir, database, uninstallVars
<1>3. CASE MakeInstallDir
  <2>1. OwnFiles' /\ \A x \in Paths : UsersDir(x)' => UsersDir(x)
    <3>1. Directory(pkg).kind = "dir" /\ Directory(pkg).by # User
      BY <1>0 DEF Directory
    <3>2. CASE disk' = [disk EXCEPT ![installdir] = Directory(pkg)]
      BY <3>1, <3>2, OwnFilesKept, NoUsersDir
    <3>. QED BY <1>3, <3>2, <1>a DEF MakeInstallDir
  <2>2. UNCHANGED record
    BY <1>3 DEF MakeInstallDir, database
  <2>. QED BY <1>3, <2>1, <2>2, RecordsKept DEF MakeInstallDir, EndCommand, installVars,
                                                uninstallVars
<1>4. CASE OpenEntry
  <2>1. \A p \in Packages : \A x \in ToSet(record'[p]) : Mine(p, x)'
    <3>1. \A p \in Packages : \A x \in ToSet(record'[p]) : Mine(p, x)
      BY <1>0, <1>4, NothingLeft DEF OpenEntry, database
    <3>. QED BY <1>4, <1>a, <3>1, MineKept DEF OpenEntry
  <2>. QED BY <1>4, <1>a, <2>1 DEF OpenEntry, uninstallVars
<1>5. CASE GetPages
  BY <1>5, <1>b, NothingLeft DEF GetPages, database, uninstallVars
<1>6. CASE GetList
  BY <1>6, <1>b, <1>c DEF GetList, database, uninstallVars
<1>7. CASE EndOfPages
  BY <1>7, <1>b, <1>c DEF EndOfPages, database, installVars, uninstallVars
<1>8. CASE EndOfList
  BY <1>8, <1>b, <1>c DEF EndOfList, database, uninstallVars
<1>9. CASE MakeSubdir
  <2>. DEFINE dir == At(sub + 1)
  <2>1. SubdirOf(pkg, dir) /\ dir \in Paths /\ created \in Seq(Paths)
    BY <1>9, SubdirIsSubdirOf DEF MakeSubdir, TypeInv, TypeOK
  <2>2. CASE UNCHANGED <<disk, record>> /\ EndCommand
    BY <1>9, <2>2, <1>b DEF EndCommand
  <2>4. CASE UNCHANGED <<disk, record, created, undeleted, pkg>> /\ pc = "line" /\ pc' = "line"
    BY <2>4, <1>b, <1>c
  <2>3. CASE /\ disk' = [disk EXCEPT ![dir] = Directory(pkg)]
             /\ created' = IF InCreated(dir) THEN created ELSE Append(created, dir)
             /\ UNCHANGED <<pkg, record, undeleted>>
             /\ pc = "line" /\ pc' = "line"
    <3>1. Directory(pkg).kind = "dir" /\ Directory(pkg).by # User
      BY <1>0 DEF Directory
    <3>2. OwnFiles' /\ \A x \in Paths : UsersDir(x)' => UsersDir(x)
      BY <2>3, <3>1, OwnFilesKept, NoUsersDir
    <3>3. ASSUME NEW y, y = dir
          PROVE  Mine(pkg, y)'
      <4>1. ~UsersDir(y)'
        BY <1>0, <2>1, <2>3, <3>1, <3>3 DEF UsersDir
      <4>2. LineOf(pkg, y)'
        BY <2>1, <2>3, <3>3 DEF LineOf, SubdirOf, SubdirIn, FileOf
      <4>. QED BY <2>1, <3>3, <4>1, <4>2 DEF Mine
    <3>4. \A x \in ToSet(created') : Mine(pkg, x)'
      BY <2>1, <2>3, <3>2, <3>3, AppendOf, MineKept
    <3>5. \A p \in Packages : \A x \in ToSet(record'[p]) : Mine(p, x)'
      BY <2>3, <3>2, RecordsKept
    <3>. QED BY <2>3, <3>2, <3>4, <3>5
  <2>. QED BY <1>9, <2>2, <2>3, <2>4 DEF MakeSubdir, database, uninstallVars
<1>10. CASE BeginFile
  <2>1. line \in 1..Len(Pages[pkg][page])
    BY <1>10, ListingAssumption DEF BeginFile, AtFile, TypeInv, TypeOK, Position
  <2>2. FileOf(pkg, Target) /\ Target \in Paths
    BY <1>10, <2>1, TargetIsFileOf DEF BeginFile, AtFile
  <2>3. CASE disk' = [disk EXCEPT ![Target] = File(pkg, FALSE)]
             /\ pc' = "body" /\ UNCHANGED <<pkg, record, installVars, undeleted>> /\ pc = "line"
    <3>1. File(pkg, FALSE).kind = "file" /\ File(pkg, FALSE).by = pkg
      BY DEF File
    <3>2. OwnFiles' /\ \A x \in Paths : UsersDir(x)' => UsersDir(x)
      BY <1>0, <2>2, <2>3, <3>1, OwnFilesKept, NoUsersDir
    <3>3. IsFile(Target)'
      BY <1>0, <2>2, <2>3, <3>1 DEF IsFile, Target, At, Line, installVars
    <3>4. \A p \in Packages : \A x \in ToSet(record'[p]) : Mine(p, x)'
      BY <2>3, <3>2, RecordsKept
    <3>5. \A x \in ToSet(created') : Mine(pkg, x)'
      BY <2>3, <3>2, MineKept DEF installVars
    <3>. QED BY <2>3, <3>2, <3>3, <3>4, <3>5
  <2>4. CASE UNCHANGED disk /\ EndCommand
    BY <1>10, <2>4, <1>b DEF BeginFile, EndCommand, database
  <2>. QED BY <1>10, <2>3, <2>4 DEF BeginFile, AtFile, database, uninstallVars
<1>11. CASE EndFile
  <2>1. /\ pc = "body" /\ pc' = "record" /\ Target' = Target /\ IsFile(Target)
        /\ UNCHANGED <<pkg, record, created, undeleted>>
        /\ FileOf(pkg, Target) /\ Target \in Paths
    BY <1>11, TargetIsFileOf
       DEF EndFile, database, installVars, uninstallVars, Target, At, Line, TypeInv, Position
  <2>2. CASE UNCHANGED disk
    BY <2>1, <2>2, <1>b, <1>c DEF IsFile
  <2>3. CASE disk' = [disk EXCEPT ![Target] = File(pkg, TRUE)]
    <3>1. File(pkg, TRUE).kind = "file" /\ File(pkg, TRUE).by = pkg
      BY DEF File
    <3>2. OwnFiles' /\ \A x \in Paths : UsersDir(x)' => UsersDir(x)
      BY <1>0, <2>1, <2>3, <3>1, OwnFilesKept, NoUsersDir
    <3>3. IsFile(Target)'
      BY <1>0, <2>1, <2>3, <3>1 DEF IsFile
    <3>4. \A p \in Packages : \A x \in ToSet(record'[p]) : Mine(p, x)'
      BY <2>1, <3>2, RecordsKept
    <3>5. \A x \in ToSet(created') : Mine(pkg, x)'
      BY <2>1, <3>2, MineKept
    <3>. QED BY <2>1, <3>2, <3>3, <3>4, <3>5
  <2>. QED BY <1>11, <2>2, <2>3 DEF EndFile
<1>12. CASE RecordFile
  <2>1. FileOf(pkg, Target) /\ Target \in Paths /\ IsFile(Target)
    BY <1>12, TargetIsFileOf DEF RecordFile, TypeInv, Position
  <2>2. Mine(pkg, Target)
    BY <2>1 DEF Mine, LineOf, UsersDir, IsDir, IsFile
  <2>3. \A p \in Packages : \A x \in ToSet(record'[p]) : Mine(p, x)'
    BY <1>12, <2>2, LineWritten DEF RecordFile
  <2>. QED BY <1>12, <1>a, <1>c, <2>3 DEF RecordFile, uninstallVars
<1>13. CASE StoreDir
  <2>1. /\ Head(created) \in ToSet(created)
        /\ ToSet(Tail(created)) \subseteq ToSet(created)
        /\ \A x \in ToSet(created) : Mine(pkg, x)
    BY <1>13, TailOf DEF StoreDir, TypeInv, TypeOK
  <2>2. \A p \in Packages : \A x \in ToSet(record'[p]) : Mine(p, x)'
    BY <1>13, <2>1, LineWritten DEF StoreDir
  <2>. QED BY <1>13, <1>a, <1>c, <2>1, <2>2 DEF StoreDir, uninstallVars
<1>14. CASE StoreInstallDir
  <2>1. Mine(pkg, installdir)
    BY <1>14, ConstantsAssumption DEF StoreInstallDir, Mine, LineOf, TypeInv, Position
  <2>2. \A p \in Packages : \A x \in ToSet(record'[p]) : Mine(p, x)'
    BY <1>14, <2>1, LineWritten DEF StoreInstallDir
  <2>. QED BY <1>14, <1>a, <2>2 DEF StoreInstallDir, EndCommand
<1>15. ASSUME NEW p \in Packages, NEW isUpgrade \in BOOLEAN, StartUninstall(p, isUpgrade)
       PROVE  Own'
  <2>1. OwnFiles' /\ \A q \in Packages : \A x \in ToSet(record'[q]) : Mine(q, x)'
    BY <1>15, <1>b DEF StartUninstall, database
  <2>. QED BY <1>15, <2>1, NothingLeft DEF StartUninstall, database, installVars
<1>16. CASE Unlink
  <2>1. /\ todo \in Seq(Paths) /\ todo # <<>> /\ undeleted \in Seq(Paths)
        /\ Head(todo) \in Paths
    BY <1>16, HeadTailProperties DEF Unlink, Room, TypeInv, TypeOK
  <2>2. Head(todo) \in ToSet(todo) /\ ToSet(Tail(todo)) \subseteq ToSet(todo)
    BY <2>1, TailOf
  <2>3. OwnFiles' /\ \A x \in Paths : UsersDir(x)' => UsersDir(x)
    <3>1. Nothing.kind = "none"
      BY DEF Nothing
    <3>2. CASE disk' = Deleted(Head(todo))
      BY <3>1, <3>2, OwnFilesKept, NoUsersDir DEF Deleted
    <3>. QED BY <1>16, <1>a, <3>2 DEF Unlink, Room
  <2>4. UNCHANGED <<record, pkg>> /\ pc = "unlink"
    BY <1>16 DEF Unlink, Room, EndCommand, database
  <2>5. \A p \in Packages : \A x \in ToSet(record'[p]) : Mine(p, x)'
    BY <2>3, <2>4, RecordsKept
  <2>6. CASE EndCommand
    BY <2>3, <2>5, <2>6 DEF EndCommand
  <2>7. CASE /\ todo' = Tail(todo) /\ pc' = "unlink"
             /\ undeleted' \in {undeleted, Append(undeleted, Head(todo))}
    <3>1. ToSet(undeleted') \subseteq ToSet(undeleted) \cup {Head(todo)}
      BY <2>1, <2>7, AppendOf
    <3>2. \A x \in ToSet(todo') \cup ToSet(undeleted') : Mine(pkg, x)'
      BY <2>2, <2>3, <2>4, <2>7, <3>1, MineKept
    <3>. QED BY <2>3, <2>5, <2>7, <3>2
  <2>. QED BY <1>16, <2>6, <2>7 DEF Unlink, Room
<1>17. CASE EndOfEntry
  BY <1>17, <1>b, <1>c DEF EndOfEntry, database, installVars, uninstallVars
<1>18. CASE RetryDir
  <2>1. undeleted \in Seq(Paths) /\ undeleted # <<>>
    BY <1>18 DEF RetryDir, TypeInv, TypeOK
  <2>2. ToSet(Tail(undeleted)) \subseteq ToSet(undeleted)
    BY <2>1, TailOf
  <2>3. OwnFiles' /\ \A x \in Paths : UsersDir(x)' => UsersDir(x)
    <3>1. Nothing.kind = "none"
      BY DEF Nothing
    <3>2. CASE disk' = Deleted(Head(undeleted))
      BY <3>1, <3>2, OwnFilesKept, NoUsersDir DEF Deleted
    <3>. QED BY <1>18, <1>a, <3>2 DEF RetryDir
  <2>4. /\ UNCHANGED <<record, pkg, todo>> /\ undeleted' = Tail(undeleted)
        /\ pc = "retry" /\ pc' = "retry"
    BY <1>18 DEF RetryDir, database
  <2>5. \A p \in Packages : \A x \in ToSet(record'[p]) : Mine(p, x)'
    BY <2>3, <2>4, RecordsKept
  <2>6. \A x \in ToSet(todo') \cup ToSet(undeleted') : Mine(pkg, x)'
    BY <2>2, <2>3, <2>4, MineKept
  <2>. QED BY <2>3, <2>4, <2>5, <2>6
<1>19. CASE DropEntry
  <2>1. \A p \in Packages : \A x \in ToSet(record'[p]) : Mine(p, x)'
    <3>1. \A p \in Packages : \A x \in ToSet(record'[p]) : Mine(p, x)
      BY <1>0, <1>19, NothingLeft DEF DropEntry
    <3>. QED BY <1>19, <1>a, <3>1, MineKept DEF DropEntry
  <2>. QED BY <1>19, <1>a, <2>1 DEF DropEntry, EndCommand
<1>20. CASE Die
  BY <1>20, <1>b DEF Die, EndCommand, database
<1>21. CASE PowerOff
  <2>1. \A p \in Packages : ToSet(record'[p]) \subseteq ToSet(record[p])
    <3>1. CASE EntryOpen
      <4>1. PICK k \in 0..Len(record[pkg]) :
              record' = [record EXCEPT ![pkg] = SubSeq(@, 1, k)]
        BY <1>21, <3>1 DEF PowerOff
      <4>2. ToSet(SubSeq(record[pkg], 1, k)) \subseteq ToSet(record[pkg])
        BY <1>0, PartOf
      <4>. QED BY <1>0, <4>1, <4>2
    <3>. QED BY <1>21, <3>1 DEF PowerOff
  <2>2. \A p \in Packages : \A x \in ToSet(record'[p]) : Mine(p, x)'
    BY <1>21, <1>a, <2>1, MineKept DEF PowerOff
  <2>. QED BY <1>21, <1>a, <2>2 DEF PowerOff, EndCommand
<1>22. ASSUME NEW x \in UserPaths, UserSave(x)
       PROVE  Own'
  <2>1. File(User, TRUE).kind = "file" /\ File(User, TRUE).by = User
    BY DEF File
  <2>2. OwnFiles' /\ \A y \in Paths : UsersDir(y)' => UsersDir(y)
    BY <1>22, <2>1, OwnFilesKept, NoUsersDir DEF UserSave
  <2>. QED BY <1>22, <2>2, RecordsKept DEF UserSave, database, uninstallVars
<1>23. ASSUME NEW x, UserDelete(x)
       PROVE  Own'
  <2>1. Nothing.kind = "none"
    BY DEF Nothing
  <2>2. OwnFiles' /\ \A y \in Paths : UsersDir(y)' => UsersDir(y)
    BY <1>23, <2>1, OwnFilesKept, NoUsersDir DEF UserDelete, Deleted
  <2>. QED BY <1>23, <2>2, RecordsKept DEF UserDelete, database, uninstallVars
<1>24. CASE UNCHANGED vars
  BY <1>24, <1>b, <1>c DEF vars, database, installVars, uninstallVars, IsFile, Target, At, Line
<1>. QED
  BY <1>1, <1>2, <1>3, <1>4, <1>5, <1>6, <1>7, <1>8, <1>9, <1>10, <1>11, <1>12,
     <1>13, <1>14, <1>15, <1>16, <1>17, <1>18, <1>19, <1>20, <1>21, <1>22, <1>23, <1>24
     DEF Next, Command, Install, Uninstall, UserStep

\* Whatever fails or dies, a command deletes no file but those of its package
\* and no directory of the user's but an installation directory, as long as
\* nobody puts a file where another one may put something.
THEOREM AlwaysOwnNodesOnly ==
  ASSUME Separate
  PROVE  Spec => OwnNodesOnly
<1>. DEFINE OwnOnly ==
       \A x \in Paths :
         pc # "prompt" /\ Exists(x) /\ disk'[x].kind = "none" =>
           \/ IsFile(x) /\ disk[x].by = pkg
           \/ IsDir(x) /\ (disk[x].by # User \/ x \in InstallDirs)
<1>1. Init => TypeInv /\ Own
  BY InitTyped, InitOwn
<1>2. TypeInv /\ Own /\ [Next]_vars => TypeInv' /\ Own'
  BY NextTyped, NextOwn
<1>3. TypeInv /\ Own /\ [Next]_vars => [OwnOnly]_vars
  <2>. SUFFICES ASSUME TypeInv, Own, Next, pc # "prompt",
                       NEW x \in Paths, Exists(x), disk'[x].kind = "none"
                PROVE  \/ IsFile(x) /\ disk[x].by = pkg
                       \/ IsDir(x) /\ (disk[x].by # User \/ x \in InstallDirs)
    OBVIOUS
  <2>1. disk[x] \in Node /\ pkg \in Packages /\ disk \in [Paths -> Node]
    BY DEF TypeInv, TypeOK
  <2>2. Mine(pkg, x)
    <3>1. ASSUME NEW d, NEW node, node.kind # "none", disk' = [disk EXCEPT ![d] = node]
          PROVE  FALSE
      BY <2>1, <3>1 DEF Exists
    <3>2. disk' # disk
      BY DEF Exists
    <3>3. CASE Unlink
      <4>1. x = Head(todo) /\ pc = "unlink" /\ todo # <<>>
        BY <2>1, <3>2, <3>3 DEF Unlink, Room, Deleted, Exists
      <4>. QED BY <4>1, TailOf DEF Own, TypeInv, TypeOK
    <3>4. CASE RetryDir
      <4>1. x = Head(undeleted) /\ pc = "retry" /\ undeleted # <<>>
        BY <2>1, <3>2, <3>4 DEF RetryDir, Deleted, Exists
      <4>. QED BY <4>1, TailOf DEF Own, TypeInv, TypeOK
    <3>5. CASE Install
      <4>1. \A who \in Packages : Directory(who).kind # "none" /\ \A w : File(who, w).kind # "none"
        BY DEF Directory, File
      <4>. QED BY <2>1, <3>1, <3>2, <3>5, <4>1
           DEF Install, GetInstallDir, MakeInstallDir, OpenEntry, GetPages, GetList, EndOfPages,
               EndOfList, MakeSubdir, BeginFile, EndFile, RecordFile, StoreDir, StoreInstallDir
    <3>. QED
      BY <3>2, <3>3, <3>4, <3>5 DEF Next, Command, StartInstall, StartUninstall, Uninstall,
         EndOfEntry, DropEntry, Die, PowerOff, UserStep, UserSave, UserDelete
  <2>3. CASE IsFile(x)
    <3>1. disk[x].by \in Packages \cup {User}
      BY <2>1 DEF Node
    <3>. QED BY <2>1, <2>2, <2>3, <3>1 DEF Own, OwnFiles, Mine, Separate
  <2>4. CASE IsDir(x)
    BY <2>2, <2>4 DEF Mine, UsersDir
  <2>. QED BY <2>1, <2>3, <2>4 DEF Node, Exists, IsFile, IsDir
<1>. QED BY <1>1, <1>2, <1>3, PTL DEF Spec, OwnNodesOnly

-----------------------------------------------------------------------------
(* The directories an install makes are written down.                      *)

\* The disk is a tree: whatever is on it is in a directory.
Tree ==
  \A x \in Paths : Exists(x) =>
    \A i \in 1..Len(x) - 1 : SubSeq(x, 1, i) \in Paths /\ IsDir(SubSeq(x, 1, i))

LEMMA BeginningOf ==
  ASSUME NEW S, NEW x \in Seq(S), NEW i \in 1..Len(x), NEW j \in 1..i
  PROVE  Len(SubSeq(x, 1, i)) = i /\ SubSeq(SubSeq(x, 1, i), 1, j) = SubSeq(x, 1, j)
OBVIOUS

LEMMA WholeOf ==
  ASSUME NEW S, NEW x \in Seq(S)
  PROVE  SubSeq(x, 1, Len(x)) = x
OBVIOUS

\* What is put in a directory is in the tree.
LEMMA TreeGrows ==
  ASSUME TypeInv, Tree, NEW d \in Paths, InDirectory(d), ~IsDir(d), NEW node \in Node,
         node.kind # "none", disk' = [disk EXCEPT ![d] = node]
  PROVE  Tree'
<1>0. disk \in [Paths -> Node]
  BY DEF TypeInv, TypeOK
<1>1. ASSUME NEW y \in Paths, IsDir(y)
      PROVE  disk'[y] = disk[y]
  BY <1>0, <1>1
<1>2. ASSUME NEW x \in Paths, disk'[x].kind # "none", NEW i \in 1..Len(x) - 1
      PROVE  SubSeq(x, 1, i) \in Paths /\ disk'[SubSeq(x, 1, i)].kind = "dir"
  <2>1. x \in Seq(ToSet(x)) /\ Len(x) \in Nat \ {0}
    BY PathsAssumption
  <2>2. CASE x # d
    <3>1. SubSeq(x, 1, i) \in Paths /\ IsDir(SubSeq(x, 1, i))
      BY <1>0, <1>2, <2>2 DEF Tree, Exists
    <3>. QED BY <1>1, <3>1 DEF IsDir
  <2>3. CASE x = d
    <3>0. Len(x) # 1
      <4>. DEFINE n == Len(x)
      <4>1. n \in Nat /\ i \in 1..n - 1
        BY <1>2, <2>1
      <4>2. n # 1
        <5>. HIDE DEF n
        <5>. QED BY <4>1
      <4>. QED BY <4>2
    <3>1. Front(x) = SubSeq(x, 1, Len(x) - 1) /\ Front(x) \in Paths /\ IsDir(Front(x))
      <4>1. Front(x) = SubSeq(x, 1, Len(x) - 1)
        BY DEF Front
      <4>. QED BY <2>3, <3>0, <4>1 DEF InDirectory
    <3>2. CASE i = Len(x) - 1
      BY <1>1, <3>1, <3>2 DEF IsDir
    <3>3. CASE i < Len(x) - 1
      <4>1. Len(Front(x)) = Len(x) - 1 /\ SubSeq(Front(x), 1, i) = SubSeq(x, 1, i)
        BY <2>1, <3>1, <3>3, BeginningOf
      <4>2. i \in 1..Len(Front(x)) - 1 /\ Exists(Front(x))
        BY <2>1, <3>1, <3>3, <4>1 DEF Exists, IsDir
      <4>3. SubSeq(x, 1, i) \in Paths /\ IsDir(SubSeq(x, 1, i))
        BY <3>1, <4>1, <4>2 DEF Tree
      <4>. QED BY <1>1, <4>3 DEF IsDir
    <3>. QED BY <2>1, <3>2, <3>3
  <2>. QED BY <2>2, <2>3
<1>. QED BY <1>2 DEF Tree, Exists, IsDir

\* What has nothing in it may go.
LEMMA TreeShrinks ==
  ASSUME TypeInv, Tree, NEW d, ~NotEmpty(d), disk' = Deleted(d)
  PROVE  Tree'
<1>0. disk \in [Paths -> Node] /\ Nothing.kind = "none"
  BY DEF TypeInv, TypeOK, Nothing
<1>1. ASSUME NEW x \in Paths, disk'[x].kind # "none", NEW i \in 1..Len(x) - 1
      PROVE  SubSeq(x, 1, i) \in Paths /\ disk'[SubSeq(x, 1, i)].kind = "dir"
  <2>1. x \in Seq(ToSet(x)) /\ Len(x) \in Nat \ {0}
    BY PathsAssumption
  <2>2. Exists(x) /\ disk'[x] = disk[x]
    BY <1>0, <1>1 DEF Deleted, Exists
  <2>3. SubSeq(x, 1, i) \in Paths /\ IsDir(SubSeq(x, 1, i))
    BY <1>1, <2>2 DEF Tree
  <2>4. SubSeq(x, 1, i) # d
    <3>. SUFFICES ASSUME SubSeq(x, 1, i) = d PROVE FALSE
      OBVIOUS
    <3>1. Len(d) = i /\ SubSeq(d, 1, Len(d)) = SubSeq(x, 1, Len(d)) /\ d # x
      BY <2>1, BeginningOf
    <3>2. x \in Below(d)
      BY <2>1, <2>2, <3>1 DEF Below, IsStrictPrefix, IsPrefix
    <3>. QED BY <2>3, <3>2 DEF NotEmpty
  <2>. QED BY <1>0, <2>3, <2>4 DEF Deleted, IsDir
<1>. QED BY <1>1 DEF Tree, Exists, IsDir

LEMMA TreeSame == Tree /\ UNCHANGED disk => Tree'
BY DEF Tree, Exists, IsDir

LEMMA InitTree == Init => Tree
<1>. SUFFICES ASSUME Init PROVE Tree
  OBVIOUS
<1>1. ASSUME NEW x \in Paths, Exists(x)
      PROVE  x \in InitialDirs
  BY <1>1 DEF Init, Exists, Nothing
<1>2. \A x \in InitialDirs \cap Paths : IsDir(x)
  BY DEF Init, IsDir, Directory
<1>. QED BY <1>1, <1>2, PathsAssumption DEF Tree

LEMMA NextTree ==
  ASSUME TypeInv, Own, Tree, [Next]_vars
  PROVE  Tree'
<1>. USE TreeSame
<1>0. pkg \in Packages
  BY DEF TypeInv, TypeOK
<1>1. CASE MakeInstallDir
  <2>1. CASE MayMakeDir(installdir) /\ disk' = [disk EXCEPT ![installdir] = Directory(pkg)]
    <3>1. Directory(pkg) \in Node /\ Directory(pkg).kind # "none" /\ installdir \in Paths
      BY <1>0, <1>1, NodesTyped, ConstantsAssumption DEF MakeInstallDir, Directory, TypeInv,
                                                         Position
    <3>2. InDirectory(installdir) /\ ~IsDir(installdir)
      BY <2>1 DEF MayMakeDir, Exists, IsDir
    <3>. QED BY <2>1, <3>1, <3>2, TreeGrows
  <2>. QED BY <1>1, <2>1 DEF MakeInstallDir
<1>2. CASE MakeSubdir
  <2>1. CASE MayMakeDir(At(sub + 1)) /\ disk' = [disk EXCEPT ![At(sub + 1)] = Directory(pkg)]
    <3>1. Directory(pkg) \in Node /\ Directory(pkg).kind # "none" /\ At(sub + 1) \in Paths
      BY <1>0, <1>2, NodesTyped, SubdirIsPath DEF MakeSubdir, Directory
    <3>2. InDirectory(At(sub + 1)) /\ ~IsDir(At(sub + 1))
      BY <2>1 DEF MayMakeDir, Exists, IsDir
    <3>. QED BY <2>1, <3>1, <3>2, TreeGrows
  <2>. QED BY <1>2, <2>1 DEF MakeSubdir
<1>3. CASE BeginFile
  <2>1. CASE MayCreate(Target) /\ disk' = [disk EXCEPT ![Target] = File(pkg, FALSE)]
    <3>1. line \in 1..Len(Pages[pkg][page])
      BY <1>3, ListingAssumption DEF BeginFile, AtFile, TypeInv, TypeOK, Position
    <3>2. File(pkg, FALSE) \in Node /\ File(pkg, FALSE).kind # "none" /\ Target \in Paths
      BY <1>0, <1>3, <3>1, NodesTyped, TargetIsPath DEF BeginFile, AtFile, File
    <3>. QED BY <2>1, <3>2, TreeGrows DEF MayCreate
  <2>. QED BY <1>3, <2>1 DEF BeginFile
<1>4. CASE EndFile
  <2>1. CASE disk' = [disk EXCEPT ![Target] = File(pkg, TRUE)]
    <3>1. Target \in Paths /\ IsFile(Target)
      BY <1>4, TargetIsPath DEF EndFile, Own, TypeInv, Position
    <3>2. File(pkg, TRUE) \in Node /\ File(pkg, TRUE).kind # "none"
      BY <1>0, NodesTyped DEF File
    <3>3. Len(Target) = 1 \/ (Front(Target) \in Paths /\ IsDir(Front(Target)))
      <4>1. Target \in Seq(ToSet(Target)) /\ Len(Target) \in Nat \ {0} /\ Exists(Target)
        BY <3>1, PathsAssumption DEF Exists, IsFile
      <4>2. CASE Len(Target) # 1
        <5>1. Len(Target) - 1 \in 1..Len(Target) - 1
          <6>. DEFINE n == Len(Target)
          <6>1. n \in Nat \ {0} /\ n # 1
            BY <4>1, <4>2
          <6>2. n - 1 \in 1..n - 1
            <7>. HIDE DEF n
            <7>. QED BY <6>1
          <6>. QED BY <6>2
        <5>. QED BY <3>1, <4>1, <5>1 DEF Tree, Front
      <4>. QED BY <4>2
    <3>. QED BY <2>1, <3>1, <3>2, <3>3, TreeGrows DEF InDirectory, IsFile, IsDir
  <2>. QED BY <1>4, <2>1 DEF EndFile
<1>5. CASE Unlink
  BY <1>5, TreeShrinks DEF Unlink, Room
<1>6. CASE RetryDir
  BY <1>6, TreeShrinks DEF RetryDir
<1>7. ASSUME NEW x \in UserPaths, UserSave(x)
      PROVE  Tree'
  <2>1. File(User, TRUE) \in Node /\ File(User, TRUE).kind # "none" /\ x \in Paths
    BY NodesTyped, ConstantsAssumption DEF File
  <2>. QED BY <1>7, <2>1, TreeGrows DEF UserSave, MayCreate
<1>8. ASSUME NEW x, UserDelete(x)
      PROVE  Tree'
  BY <1>8, TreeShrinks DEF UserDelete
<1>9. CASE UNCHANGED disk
  BY <1>9
<1>. QED
  BY <1>1, <1>2, <1>3, <1>4, <1>5, <1>6, <1>7, <1>8, <1>9
     DEF Next, Command, StartInstall, StartUninstall, Install, Uninstall, UserStep, GetInstallDir,
         OpenEntry, GetPages, GetList, EndOfPages, EndOfList, RecordFile, StoreDir,
         StoreInstallDir, EndOfEntry, DropEntry, Die, PowerOff, vars

\* x would be found in the text of y for a name of y that begins like a name of x.
CutShort(x, y) ==
  /\ Len(x) <= Len(y)
  /\ SubSeq(x, 1, Len(x) - 1) = SubSeq(y, 1, Len(x) - 1)
  /\ <<x[Len(x)], y[Len(x)]>> \in NamePrefix

\* No directory of a line would be found in one of the same or an earlier line.
Harmless ==
  \A p \in Packages : \A d \in InstallDirs :
    \A m \in 1..Len(Pages[p]) : \A l \in 1..Len(Pages[p][m]) :
      \A n \in 1..m : \A k \in 1..Len(Pages[p][n]) : n < m \/ k <= l =>
        \A i \in 1..Len(Pages[p][m][l]) - 1 : \A j \in 1..Len(Pages[p][n][k]) - 1 :
          ~CutShort(d \o SubSeq(Pages[p][m][l], 1, i), d \o SubSeq(Pages[p][n][k], 1, j))

\* install() has come to the k-th line of page n.
Reached(n, k) == n < page \/ (n = page /\ pc # "list" /\ k <= line)

\* y is a directory for a line install() has come to.
OnTheWay(y) ==
  \E n \in 1..Len(Pages[pkg]) : \E k \in 1..Len(Pages[pkg][n]) :
    /\ Reached(n, k)
    /\ \E j \in 1..Len(Pages[pkg][n][k]) - 1 : y = installdir \o SubSeq(Pages[pkg][n][k], 1, j)

Looping == {"list", "line", "body", "record"}

\* What install() made, it remembers or has written down.
Kept ==
  /\ pc \in Looping => made \subseteq ToSet(created)
  /\ pc \in Looping => \A y \in ToSet(created) : IsDir(y) /\ OnTheWay(y)
  /\ pc = "store" => made \subseteq ToSet(record[pkg]) \cup ToSet(created)
  /\ pc \notin Looping \cup {"store"} => made = {}

\* What is a beginning by its text only is a beginning.
LEMMA Beginning ==
  ASSUME NEW S, NEW x \in Seq(S), NEW y \in Seq(S), Len(x) \in 1..Len(y),
         SubSeq(x, 1, Len(x) - 1) = SubSeq(y, 1, Len(x) - 1), x[Len(x)] = y[Len(x)]
  PROVE  SubSeq(y, 1, Len(x)) = x
<1>1. \A i \in 1..Len(x) : x[i] = y[i]
  <2>1. \A i \in 1..Len(x) - 1 : SubSeq(x, 1, Len(x) - 1)[i] = x[i] /\ SubSeq(y, 1, Len(x) - 1)[i] = y[i]
    OBVIOUS
  <2>. QED BY <2>1
<1>. QED BY <1>1

\* A directory that is not there is not in created_dirs, as strstr() sees it.
LEMMA NotInCreated ==
  ASSUME Harmless, TypeInv, Tree, Kept, pc = "line", line <= Len(Pages[pkg][page]),
         sub + 1 < Len(Line), ~Exists(At(sub + 1))
  PROVE  ~InCreated(At(sub + 1))
<1>. DEFINE x == At(sub + 1)
<1>1. /\ pkg \in Packages /\ page \in 1..Len(Pages[pkg]) /\ line \in 1..Len(Pages[pkg][page])
      /\ installdir \in InstallDirs /\ created \in Seq(Paths)
      /\ sub + 1 \in 1..Len(Pages[pkg][page][line]) - 1
      /\ x = installdir \o SubSeq(Pages[pkg][page][line], 1, sub + 1)
  BY ListingAssumption, SMTT(20) DEF TypeInv, TypeOK, Position, Line, At
<1>2. x \in Paths
  BY SubdirIsPath
<1>. SUFFICES ASSUME NEW c \in 1..Len(created), TextPrefix(x, created[c]) PROVE FALSE
  BY DEF InCreated
<1>. DEFINE y == created[c]
<1>3. y \in Paths /\ y \in ToSet(created)
  BY <1>1 DEF ToSet
<1>4. IsDir(y) /\ OnTheWay(y)
  BY <1>3 DEF Kept, Looping
<1>5. PICK n \in 1..Len(Pages[pkg]) : \E k \in 1..Len(Pages[pkg][n]) :
        /\ Reached(n, k)
        /\ \E j \in 1..Len(Pages[pkg][n][k]) - 1 : y = installdir \o SubSeq(Pages[pkg][n][k], 1, j)
  BY <1>4 DEF OnTheWay
<1>6. PICK k \in 1..Len(Pages[pkg][n]) :
        /\ Reached(n, k)
        /\ \E j \in 1..Len(Pages[pkg][n][k]) - 1 : y = installdir \o SubSeq(Pages[pkg][n][k], 1, j)
  BY <1>5
<1>7. PICK j \in 1..Len(Pages[pkg][n][k]) - 1 : y = installdir \o SubSeq(Pages[pkg][n][k], 1, j)
  BY <1>6
<1>8. n \in 1..page /\ (n < page \/ k <= line)
  <2>1. Len(Pages[pkg]) \in Nat
    BY <1>1, ListingAssumption
  <2>2. n < page \/ (n = page /\ k <= line)
    BY <1>6 DEF Reached
  <2>. QED BY <1>1, <2>1, <2>2
<1>9. ~CutShort(x, y)
  BY <1>1, <1>7, <1>8 DEF Harmless
<1>. HIDE DEF x, y
<1>10. /\ Len(x) <= Len(y)
       /\ SubSeq(x, 1, Len(x) - 1) = SubSeq(y, 1, Len(x) - 1)
       /\ x[Len(x)] = y[Len(x)]
  BY <1>9 DEF TextPrefix, CutShort, y
<1>11. /\ x \in Seq(ToSet(x)) /\ Len(x) \in Nat \ {0}
       /\ y \in Seq(ToSet(y)) /\ Len(y) \in Nat \ {0}
  BY <1>2, <1>3, PathsAssumption
<1>12. x \in Seq(ToSet(x) \cup ToSet(y)) /\ y \in Seq(ToSet(x) \cup ToSet(y)) /\ Len(x) \in 1..Len(y)
  BY <1>10, <1>11
<1>13. SubSeq(y, 1, Len(x)) = x
  BY <1>10, <1>12, Beginning
<1>14. CASE Len(x) = Len(y)
  <2>1. y = x
    BY <1>11, <1>13, <1>14, WholeOf
  <2>. QED BY <1>4, <2>1 DEF IsDir, Exists, x
<1>15. CASE Len(x) # Len(y)
  <2>1. Len(x) \in 1..Len(y) - 1
    BY <1>11, <1>12, <1>15
  <2>2. Exists(y)
    BY <1>4 DEF Exists, IsDir
  <2>3. IsDir(x)
    BY <1>3, <1>13, <2>1, <2>2 DEF Tree
  <2>. QED BY <2>3 DEF IsDir, Exists, x
<1>. QED BY <1>14, <1>15

LEMMA InitKept == Init => Kept
BY DEF Init, Kept, Looping

LEMMA NextKept ==
  ASSUME Faults \subseteq {"die", "unlink", "retry", "power"}, Harmless,
         TypeInv, Own, Tree, Progress, Kept, [Next]_vars
  PROVE  Kept'
<1>. USE DEF Kept, Goto
<1>0. /\ pkg \in Packages /\ record \in [Packages -> Seq(Paths)] /\ disk \in [Paths -> Node]
      /\ created \in Seq(Paths)
  BY DEF TypeInv, TypeOK
<1>a. ASSUME pc' \notin Looping \cup {"store"}, made' = {}
      PROVE  Kept'
  BY <1>a DEF Looping
<1>b. ASSUME pc \in Looping, pc' \in Looping, UNCHANGED <<pkg, installdir, created, made>>,
             \A y \in Paths : IsDir(y) => disk'[y] = disk[y],
             \A n \in 1..Len(Pages[pkg]) : \A k \in 1..Len(Pages[pkg][n]) :
               Reached(n, k) => Reached(n, k)'
      PROVE  Kept'
  <2>1. ASSUME NEW y, OnTheWay(y)
        PROVE  OnTheWay(y)'
    BY <1>b, <2>1, ZenonT(40) DEF OnTheWay
  <2>2. \A y \in ToSet(created) : IsDir(y)'
    BY <1>0, <1>b DEF IsDir, ToSet
  <2>. QED BY <1>b, <2>1, <2>2 DEF Looping
<1>1. ASSUME NEW p \in Packages, NEW dir, StartInstall(p, dir)
      PROVE  Kept'
  BY <1>1, <1>a DEF StartInstall, Looping
<1>2. CASE GetInstallDir
  BY <1>2, <1>a DEF GetInstallDir, Looping
<1>3. CASE MakeInstallDir
  BY <1>3, <1>a DEF MakeInstallDir, EndCommand, installVars, Looping
<1>4. CASE OpenEntry
  BY <1>4, <1>a DEF OpenEntry, installVars, Looping
<1>5. CASE GetPages
  BY <1>5 DEF GetPages, Looping, ToSet
<1>6. CASE GetList
  <2>1. ASSUME NEW n \in 1..Len(Pages[pkg]), NEW k, Reached(n, k)
        PROVE  Reached(n, k)'
    BY <1>6, <2>1 DEF GetList, Reached
  <2>. QED BY <1>6, <2>1, <1>b DEF GetList, Looping
<1>7. CASE EndOfPages
  BY <1>7 DEF EndOfPages, installVars, Looping
<1>8. CASE EndOfList
  <2>1. ASSUME NEW n \in 1..Len(Pages[pkg]), NEW k, Reached(n, k)
        PROVE  Reached(n, k)'
    BY <1>8, <2>1 DEF EndOfList, Reached, TypeInv, TypeOK
  <2>. QED BY <1>8, <2>1, <1>b DEF EndOfList, Looping
<1>9. CASE MakeSubdir
  <2>1. pc = "line" /\ line <= Len(Pages[pkg][page]) /\ sub + 1 < Len(Line)
    BY <1>9 DEF MakeSubdir
  <2>2. CASE /\ MayMakeDir(At(sub + 1))
             /\ disk' = [disk EXCEPT ![At(sub + 1)] = Directory(pkg)]
             /\ created' = IF InCreated(At(sub + 1)) THEN created ELSE Append(created, At(sub + 1))
             /\ made' = made \cup {At(sub + 1)}
             /\ pc' = "line"
             /\ UNCHANGED <<pkg, installdir, page, line>>
    <3>1. At(sub + 1) \in Paths
      BY <2>1, SubdirIsPath
    <3>2. created' = Append(created, At(sub + 1))
      BY <2>1, <2>2, NotInCreated DEF MayMakeDir
    <3>3. ToSet(created') = ToSet(created) \cup {At(sub + 1)}
      BY <1>0, <3>1, <3>2, AppendOf
    <3>4. ASSUME NEW y, OnTheWay(y)
          PROVE  OnTheWay(y)'
      <4>1. \A n, k : Reached(n, k) => Reached(n, k)'
        BY <2>1, <2>2 DEF Reached
      <4>. QED BY <2>2, <3>4, <4>1, ZenonT(40) DEF OnTheWay
    <3>5. OnTheWay(At(sub + 1))
      <4>1. /\ page \in 1..Len(Pages[pkg]) /\ line \in 1..Len(Pages[pkg][page])
            /\ sub + 1 \in 1..Len(Pages[pkg][page][line]) - 1
            /\ At(sub + 1) = installdir \o SubSeq(Pages[pkg][page][line], 1, sub + 1)
        BY <2>1, ListingAssumption, SMTT(20) DEF TypeInv, TypeOK, Position, Line, At
      <4>2. Reached(page, line)
        BY <2>1, <4>1 DEF Reached
      <4>. QED BY <4>1, <4>2 DEF OnTheWay
    <3>6. \A y \in ToSet(created) : IsDir(y)'
      <4>1. Directory(pkg).kind = "dir"
        BY DEF Directory
      <4>. QED BY <1>0, <2>1, <2>2, <3>1, <4>1 DEF IsDir, ToSet, Looping
    <3>7. disk'[At(sub + 1)].kind = "dir"
      BY <1>0, <2>2, <3>1 DEF Directory
    <3>. DEFINE d == At(sub + 1)
    <3>8. \A y \in ToSet(created') : disk'[y].kind = "dir" /\ OnTheWay(y)'
      <4>. SUFFICES ASSUME NEW y \in ToSet(created')
                    PROVE  disk'[y].kind = "dir" /\ OnTheWay(y)'
        OBVIOUS
      <4>1. CASE y = d
        <5>1. OnTheWay(y)
          BY <3>5, <4>1
        <5>. QED BY <3>4, <3>7, <4>1, <5>1
      <4>2. CASE y \in ToSet(created)
        <5>1. OnTheWay(y)
          BY <2>1, <4>2 DEF Looping
        <5>. QED BY <3>4, <3>6, <4>2, <5>1 DEF IsDir
      <4>. QED BY <3>3, <4>1, <4>2
    <3>. QED BY <2>1, <2>2, <3>3, <3>8 DEF IsDir, Looping
  <2>3. CASE IsDir(At(sub + 1)) /\ pc' = "line"
    <3>1. UNCHANGED <<disk, pkg, installdir, page, line, created, made>>
      BY <1>9, <2>3 DEF MakeSubdir, MayMakeDir, Exists, IsDir, EndCommand
    <3>. QED BY <2>1, <2>3, <3>1, <1>b DEF Looping, Reached
  <2>4. CASE pc' = "prompt"
    BY <1>9, <2>1, <2>4, <1>a DEF MakeSubdir, EndCommand, Looping
  <2>. QED BY <1>9, <2>2, <2>3, <2>4 DEF MakeSubdir, EndCommand
<1>10. CASE BeginFile
  <2>1. CASE MayCreate(Target) /\ disk' = [disk EXCEPT ![Target] = File(pkg, FALSE)]
             /\ pc' = "body" /\ UNCHANGED <<pkg, installVars>>
    <3>1. pc = "line" /\ \A y \in Paths : IsDir(y) => disk'[y] = disk[y]
      BY <1>0, <1>10, <2>1 DEF BeginFile, AtFile, MayCreate
    <3>. QED BY <2>1, <3>1, <1>b DEF Looping, Reached, installVars
  <2>. QED BY <1>10, <2>1, <1>a DEF BeginFile, EndCommand, Looping
<1>11. CASE EndFile
  <2>1. \A y \in Paths : IsDir(y) => disk'[y] = disk[y]
    BY <1>0, <1>11 DEF EndFile, Own, IsFile, IsDir
  <2>. QED BY <1>11, <2>1, <1>b DEF EndFile, installVars, Looping, Reached
<1>12. CASE RecordFile
  <2>1. \A n \in 1..Len(Pages[pkg]) : \A k \in 1..Len(Pages[pkg][n]) :
          Reached(n, k) => Reached(n, k)'
    BY <1>12 DEF RecordFile, Reached, TypeInv, TypeOK
  <2>. QED BY <1>12, <2>1, <1>b DEF RecordFile, Looping
<1>13. CASE StoreDir
  <2>1. /\ pkg \in entries /\ pkg' = pkg /\ made' = made /\ pc = "store" /\ pc' = "store"
        /\ record' = [record EXCEPT ![pkg] = Append(@, Head(created))]
        /\ created' = Tail(created) /\ created # <<>>
    BY <1>13 DEF StoreDir, WriteLine, Progress, Entering
  <2>2. Head(created) \in Paths
    BY <1>0, <2>1, HeadTailProperties
  <2>3. ToSet(record'[pkg]) = ToSet(record[pkg]) \cup {Head(created)}
    BY <1>0, <2>1, <2>2, AppendOf
  <2>4. \A x \in ToSet(created) : x = Head(created) \/ x \in ToSet(Tail(created))
    BY <1>0, <2>1, LinesLeft
  <2>. QED BY <2>1, <2>3, <2>4 DEF Looping
<1>14. CASE StoreInstallDir \/ Die \/ PowerOff
  BY <1>14, <1>a DEF StoreInstallDir, Die, PowerOff, EndCommand, Looping
<1>15. ASSUME NEW p \in Packages, NEW isUpgrade, StartUninstall(p, isUpgrade)
       PROVE  Kept'
  BY <1>15, <1>a DEF StartUninstall, installVars, Looping
<1>16. CASE Unlink \/ EndOfEntry \/ RetryDir \/ DropEntry
  BY <1>16, <1>a DEF Unlink, EndOfEntry, RetryDir, DropEntry, EndCommand, installVars, Looping
<1>17. ASSUME NEW x, UserSave(x) \/ UserDelete(x)
       PROVE  Kept'
  BY <1>17, <1>a DEF UserSave, UserDelete, installVars, Looping
<1>18. CASE UNCHANGED vars
  <2>1. CASE pc \in Looping
    BY <1>18, <2>1, <1>b DEF vars, installVars, Reached
  <2>2. CASE pc \notin Looping
    BY <1>18, <2>2 DEF vars, database, installVars
  <2>. QED BY <2>1, <2>2
<1>. QED
  BY <1>1, <1>2, <1>3, <1>4, <1>5, <1>6, <1>7, <1>8, <1>9, <1>10, <1>11, <1>12,
     <1>13, <1>14, <1>15, <1>16, <1>17, <1>18
     DEF Next, Command, Install, Uninstall, UserStep

\* The entry of a complete install lists each directory the install made, as
\* long as created_dirs is asked for no name that begins another one in it.
THEOREM AlwaysCreatedDirsStored ==
  ASSUME Faults \subseteq {"die", "unlink", "retry", "power"}, Harmless
  PROVE  Spec => CreatedDirsStored
<1>. DEFINE Stored == StoreInstallDir => made \subseteq ToSet(record'[pkg])
            Inv == TypeInv /\ Own /\ Tree /\ Progress /\ Kept
<1>1. Init => Inv
  BY InitTyped, InitOwn, InitTree, InitProgress, InitKept
<1>2. Inv /\ [Next]_vars => Inv'
  BY NextTyped, NextOwn, NextTree, NextProgress, NextKept
<1>3. Inv /\ [Next]_vars => [Stored]_vars
  <2>. SUFFICES ASSUME Inv, StoreInstallDir
                PROVE  made \subseteq ToSet(record'[pkg])
    OBVIOUS
  <2>1. /\ pkg \in Packages /\ record \in [Packages -> Seq(Paths)]
        /\ installdir \in Paths /\ pc = "store" /\ pkg \in entries /\ created = <<>>
    BY ConstantsAssumption DEF TypeInv, TypeOK, Position, Progress, Entering, StoreInstallDir
  <2>2. ToSet(record[pkg]) \subseteq ToSet(record'[pkg])
    BY <2>1, LinesAppended DEF StoreInstallDir, WriteLine
  <2>3. ToSet(created) = {}
    BY <2>1 DEF ToSet
  <2>. QED BY <2>1, <2>2, <2>3 DEF Kept
<1>. QED BY <1>1, <1>2, <1>3, PTL DEF Spec, CreatedDirsStored

-----------------------------------------------------------------------------
(* uninstall() leaves nothing it could delete.                             *)

\* The directories of p when it is installed in d.
DirsOf(p, d) == {x \in Paths : x = d \/ SubdirIn(p, d, x)}

DirLine(p, x) == SubdirOf(p, x) \/ x \in InstallDirs

\* No package has a file where one has a directory.
Distinct ==
  \A p \in Packages : \A q \in Packages : \A x \in Paths : FileOf(p, x) => ~DirLine(q, x)

\* Only installation directories have two levels of a package's directories
\* below them.
Shallow ==
  \A p \in Packages : \A x, y, z \in Paths :
    /\ DirLine(p, x) /\ DirLine(p, y) /\ DirLine(p, z)
    /\ IsStrictPrefix(x, y) /\ IsStrictPrefix(y, z)
    => x \in InstallDirs

\* uninstall() can remember all directories of a package.
Roomy ==
  \A p \in Packages : \A d \in InstallDirs :
    IsFiniteSet(DirsOf(p, d)) /\ Cardinality(DirsOf(p, d)) <= MaxUndeleted

\* An entry has the files first, then each directory once, and last the
\* installation directory.
Sorted(p, seq) ==
  \A i, j \in 1..Len(seq) : i < j =>
    /\ seq[i] \notin InstallDirs
    /\ FileOf(p, seq[j]) => FileOf(p, seq[i])
    /\ seq[i] = seq[j] => FileOf(p, seq[i])

Once(seq) == \A i, j \in 1..Len(seq) : i < j => seq[i] # seq[j]

Entry(p) ==
  /\ Sorted(p, record[p])
  /\ \A x \in ToSet(record[p]) : FileOf(p, x) => ~IsDir(x)
  /\ \E d \in InstallDirs : \A x \in ToSet(record[p]) : FileOf(p, x) \/ x \in DirsOf(p, d)
  /\ p \notin entries => record[p] = <<>>

\* How the entries come to be like this.
Listing ==
  /\ \A p \in Packages : Entry(p)
  /\ pc = "pages" => record[pkg] = <<>>
  /\ pc \in Looping => \A x \in ToSet(record[pkg]) : FileOf(pkg, x)
  /\ pc \in Looping \cup {"store"} =>
       Once(created) /\ \A x \in ToSet(created) : SubdirIn(pkg, installdir, x)
  /\ pc = "store" =>
       /\ \A x \in ToSet(record[pkg]) : FileOf(pkg, x) \/ SubdirIn(pkg, installdir, x)
       /\ ToSet(created) \cap ToSet(record[pkg]) = {}

\* Something is below x that uninstall() will not delete.
Blocked(x) == \E w \in Below(x) : w \notin ToSet(record[pkg])

\* The entry has no directory below x.
Leaf(x) ==
  \A z \in ToSet(record[pkg]) : ~FileOf(pkg, z) => ~IsStrictPrefix(x, z)

\* A directory that is put off: only because of what is not in the entry, unless
\* directories of the entry are below it.
PutOff(x) ==
  /\ x \in ToSet(record[pkg]) /\ ~FileOf(pkg, x) /\ IsDir(x)
  /\ Leaf(x) => Blocked(x)

\* A directory that was tried twice.
Tried(x) ==
  /\ Blocked(x) \/ Below(x) \cap ToSet(undeleted) # {}
  /\ x \in InstallDirs => undeleted = <<>>

Clearing ==
  pc \in {"unlink", "retry"} =>
    /\ ToSet(todo) \subseteq ToSet(record[pkg])
    /\ Sorted(pkg, todo) /\ Sorted(pkg, undeleted)
    /\ \A x \in ToSet(undeleted) : PutOff(x) /\ x \notin ToSet(todo)
    /\ todo # <<>> => \A x \in ToSet(undeleted) : x \notin InstallDirs
    /\ pc = "retry" => todo = <<>>
    /\ \A x \in ToSet(record[pkg]) : Exists(x) =>
         \/ x \in ToSet(todo) \cup ToSet(undeleted)
         \/ pc = "retry" /\ ~FileOf(pkg, x) /\ Tried(x)

LEMMA SortedTail ==
  ASSUME NEW p, NEW seq \in Seq(Paths), seq # <<>>, Sorted(p, seq)
  PROVE  /\ Sorted(p, Tail(seq))
         /\ \A x \in ToSet(Tail(seq)) :
              /\ Head(seq) \notin InstallDirs
              /\ FileOf(p, x) => FileOf(p, Head(seq))
              /\ Head(seq) = x => FileOf(p, Head(seq))
<1>. DEFINE rest == Tail(seq)
            n == Len(seq)
<1>1. /\ rest \in Seq(Paths) /\ Len(rest) = n - 1 /\ n \in Nat \ {0}
      /\ \A i \in 1..n - 1 : rest[i] = seq[i + 1]
      /\ Head(seq) = seq[1]
  BY HeadTailProperties, LenProperties, EmptySeq
<1>2. \A i, j \in 1..n : i < j =>
        /\ seq[i] \notin InstallDirs
        /\ FileOf(p, seq[j]) => FileOf(p, seq[i])
        /\ seq[i] = seq[j] => FileOf(p, seq[i])
  BY DEF Sorted
<1>3. ToSet(rest) = {rest[i] : i \in 1..n - 1}
  BY <1>1, LenProperties DEF ToSet
<1>. HIDE DEF rest, n
<1>4. ASSUME NEW i \in 1..n - 1, NEW j \in 1..n - 1, i < j
      PROVE  /\ rest[i] \notin InstallDirs
             /\ FileOf(p, rest[j]) => FileOf(p, rest[i])
             /\ rest[i] = rest[j] => FileOf(p, rest[i])
  <2>1. i + 1 \in 1..n /\ j + 1 \in 1..n /\ i + 1 < j + 1
    BY <1>1, <1>4
  <2>2. rest[i] = seq[i + 1] /\ rest[j] = seq[j + 1]
    BY <1>1
  <2>. QED BY <1>2, <2>1, <2>2
<1>5. Sorted(p, rest)
  BY <1>1, <1>4 DEF Sorted
<1>6. ASSUME NEW x \in ToSet(rest)
      PROVE  /\ Head(seq) \notin InstallDirs
             /\ FileOf(p, x) => FileOf(p, Head(seq))
             /\ Head(seq) = x => FileOf(p, Head(seq))
  <2>1. PICK i \in 1..n - 1 : x = rest[i]
    BY <1>3
  <2>2. 1 \in 1..n /\ i + 1 \in 1..n /\ 1 < i + 1 /\ x = seq[i + 1]
    BY <1>1, <2>1
  <2>. QED BY <1>1, <1>2, <2>2
<1>. QED BY <1>5, <1>6 DEF rest

LEMMA SortedAppend ==
  ASSUME NEW p, NEW seq \in Seq(Paths), NEW x \in Paths, Sorted(p, seq),
         \A y \in ToSet(seq) :
           /\ y \notin InstallDirs
           /\ FileOf(p, x) => FileOf(p, y)
           /\ y = x => FileOf(p, y)
  PROVE  Sorted(p, Append(seq, x))
<1>. DEFINE more == Append(seq, x)
            n == Len(seq)
<1>1. /\ more \in Seq(Paths) /\ Len(more) = n + 1 /\ n \in Nat
      /\ \A i \in 1..n : more[i] = seq[i] /\ seq[i] \in ToSet(seq)
      /\ more[n + 1] = x
  BY AppendProperties, LenProperties DEF ToSet
<1>2. \A i, j \in 1..n : i < j =>
        /\ seq[i] \notin InstallDirs
        /\ FileOf(p, seq[j]) => FileOf(p, seq[i])
        /\ seq[i] = seq[j] => FileOf(p, seq[i])
  BY DEF Sorted
<1>. HIDE DEF more, n
<1>3. ASSUME NEW i \in 1..n + 1, NEW j \in 1..n + 1, i < j
      PROVE  /\ more[i] \notin InstallDirs
             /\ FileOf(p, more[j]) => FileOf(p, more[i])
             /\ more[i] = more[j] => FileOf(p, more[i])
  <2>1. i \in 1..n
    BY <1>1, <1>3
  <2>2. CASE j \in 1..n
    BY <1>1, <1>2, <1>3, <2>1, <2>2
  <2>3. CASE j = n + 1
    BY <1>1, <2>1, <2>3
  <2>. QED BY <1>1, <2>2, <2>3
<1>4. Sorted(p, more)
  BY <1>1, <1>3 DEF Sorted
<1>. QED BY <1>4 DEF more

LEMMA SortedPart ==
  ASSUME NEW p, NEW seq \in Seq(Paths), NEW k \in 0..Len(seq), Sorted(p, seq)
  PROVE  Sorted(p, SubSeq(seq, 1, k))
<1>. DEFINE n == Len(seq)
            part == SubSeq(seq, 1, k)
<1>1. n \in Nat /\ k \in 0..n /\ Len(part) = k /\ \A i \in 1..k : part[i] = seq[i]
  BY SubSeqProperties, LenProperties
<1>2. \A i, j \in 1..n : i < j =>
        /\ seq[i] \notin InstallDirs
        /\ FileOf(p, seq[j]) => FileOf(p, seq[i])
        /\ seq[i] = seq[j] => FileOf(p, seq[i])
  BY DEF Sorted
<1>. HIDE DEF n, part
<1>3. \A i \in 1..k : i \in 1..n
  BY <1>1
<1>4. Sorted(p, part)
  BY <1>1, <1>2, <1>3 DEF Sorted
<1>. QED BY <1>4 DEF part

LEMMA SortedEmpty == \A p : Sorted(p, <<>>)
BY DEF Sorted

LEMMA OnceTail ==
  ASSUME NEW seq \in Seq(Paths), seq # <<>>, Once(seq)
  PROVE  Once(Tail(seq)) /\ Head(seq) \notin ToSet(Tail(seq))
<1>. DEFINE rest == Tail(seq)
            n == Len(seq)
<1>1. /\ rest \in Seq(Paths) /\ Len(rest) = n - 1 /\ n \in Nat \ {0}
      /\ \A i \in 1..n - 1 : rest[i] = seq[i + 1]
      /\ Head(seq) = seq[1]
  BY HeadTailProperties, LenProperties, EmptySeq
<1>2. \A i, j \in 1..n : i < j => seq[i] # seq[j]
  BY DEF Once
<1>3. ToSet(rest) = {rest[i] : i \in 1..n - 1}
  BY <1>1, LenProperties DEF ToSet
<1>. HIDE DEF rest, n
<1>4. \A i \in 1..n - 1 : i + 1 \in 1..n /\ 1 \in 1..n /\ 1 < i + 1
  BY <1>1
<1>5. Once(rest)
  BY <1>1, <1>2, <1>4 DEF Once
<1>6. Head(seq) \notin ToSet(rest)
  BY <1>1, <1>2, <1>3, <1>4
<1>. QED BY <1>5, <1>6 DEF rest

LEMMA OnceAppend ==
  ASSUME NEW seq \in Seq(Paths), NEW x \in Paths, Once(seq), x \notin ToSet(seq)
  PROVE  Once(Append(seq, x))
<1>. DEFINE more == Append(seq, x)
            n == Len(seq)
<1>1. /\ more \in Seq(Paths) /\ Len(more) = n + 1 /\ n \in Nat
      /\ \A i \in 1..n : more[i] = seq[i] /\ seq[i] \in ToSet(seq)
      /\ more[n + 1] = x
  BY AppendProperties, LenProperties DEF ToSet
<1>2. \A i, j \in 1..n : i < j => seq[i] # seq[j]
  BY DEF Once
<1>. HIDE DEF more, n
<1>3. \A i, j \in 1..n + 1 : i < j => i \in 1..n /\ (j \in 1..n \/ j = n + 1)
  BY <1>1
<1>4. Once(more)
  BY <1>1, <1>2, <1>3 DEF Once
<1>. QED BY <1>4 DEF more

\* What is below something below x is below x.
LEMMA BelowBelow ==
  ASSUME NEW x \in Paths, NEW y \in Paths, NEW z \in Paths,
         IsStrictPrefix(x, y), IsStrictPrefix(y, z)
  PROVE  IsStrictPrefix(x, z)
<1>. DEFINE S == ToSet(x) \cup ToSet(y) \cup ToSet(z)
            a == Len(x)
            b == Len(y)
            c == Len(z)
<1>1. x \in Seq(S) /\ y \in Seq(S) /\ z \in Seq(S)
  BY PathsAssumption
<1>2. /\ a <= b /\ SubSeq(x, 1, a) = SubSeq(y, 1, a) /\ x # y
      /\ b <= c /\ SubSeq(y, 1, b) = SubSeq(z, 1, b) /\ y # z
  BY DEF IsStrictPrefix, IsPrefix
<1>3. SubSeq(x, 1, a) = x /\ SubSeq(y, 1, b) = y /\ a \in Nat /\ b \in Nat /\ c \in Nat
  BY <1>1, WholeOf, LenProperties
<1>4. SubSeq(SubSeq(z, 1, b), 1, a) = SubSeq(z, 1, a)
  <2>. HIDE DEF S
  <2>1. \A i \in 1..b : SubSeq(z, 1, b)[i] = z[i]
    BY <1>1, <1>2, <1>3
  <2>. QED BY <1>1, <1>2, <1>3
<1>5. SubSeq(z, 1, a) = x /\ a <= c
  BY <1>2, <1>3, <1>4
<1>6. x # z
  BY <1>2, <1>3
<1>. QED BY <1>3, <1>5, <1>6 DEF IsStrictPrefix, IsPrefix

\* A sequence of different elements of S has room for no more than S has.
LEMMA RoomFor ==
  ASSUME NEW seq \in Seq(Paths), NEW S, IsFiniteSet(S), Cardinality(S) <= MaxUndeleted,
         Once(seq), ToSet(seq) \subseteq S, NEW x \in S, x \notin ToSet(seq)
  PROVE  Len(seq) < MaxUndeleted
<1>. DEFINE n == Len(seq)
            T == S \ {x}
<1>1. n \in Nat /\ seq \in [1..n -> T]
  <2>1. n \in Nat /\ DOMAIN seq = 1..n /\ seq = [i \in DOMAIN seq |-> seq[i]]
    BY LenProperties
  <2>2. \A i \in 1..n : seq[i] \in T
    BY <2>1 DEF ToSet
  <2>. QED BY <2>1, <2>2
<1>2. IsFiniteSet(T) /\ Cardinality(T) = Cardinality(S) - 1 /\ Cardinality(S) \in Nat
  <2>1. /\ IsFiniteSet(S \ {x})
        /\ Cardinality(S \ {x}) = IF x \in S THEN Cardinality(S) - 1 ELSE Cardinality(S)
    BY FS_RemoveElement, Zenon
  <2>2. Cardinality(S) \in Nat
    BY FS_CardinalityType, Zenon
  <2>3. x \in S
    OBVIOUS
  <2>. QED BY <2>1, <2>2, <2>3, Zenon
<1>3. IsFiniteSet(1..n) /\ Cardinality(1..n) = n
  <2>1. /\ IsFiniteSet(1..n)
        /\ Cardinality(1..n) = IF 1 > n THEN 0 ELSE n - 1 + 1
    BY <1>1, FS_Interval
  <2>. HIDE DEF n
  <2>. QED BY <1>1, <2>1
<1>4. ASSUME Cardinality(T) < n
      PROVE  FALSE
  <2>1. \E i, j \in 1..n : i # j /\ seq[i] = seq[j]
    BY <1>1, <1>2, <1>3, <1>4, FS_PigeonHole
  <2>2. PICK i \in 1..n, j \in 1..n : i # j /\ seq[i] = seq[j]
    BY <2>1
  <2>. HIDE DEF n
  <2>3. i < j \/ j < i
    BY <1>1, <2>2
  <2>. QED BY <2>2, <2>3 DEF Once, n
<1>5. MaxUndeleted \in Nat
  BY ConstantsAssumption
<1>. HIDE DEF n, T
<1>6. n < MaxUndeleted
  <2>. DEFINE c == Cardinality(S)
              t == Cardinality(T)
  <2>1. t = c - 1 /\ c \in Nat /\ c <= MaxUndeleted /\ ~(t < n)
    BY <1>2, <1>4
  <2>. HIDE DEF c, t
  <2>. QED BY <1>1, <1>5, <2>1
<1>. QED BY <1>6 DEF n

\* A step that makes no directory where a file of a package belongs.
NoFileDir ==
  \A x \in Paths : (\E p \in Packages : FileOf(p, x)) /\ disk'[x].kind = "dir" => IsDir(x)

LEMMA EntryKept ==
  ASSUME TypeInv, NEW p \in Packages, Entry(p), NoFileDir,
         record'[p] = record[p], p \notin entries' => p \notin entries
  PROVE  Entry(p)'
<1>1. \A x \in ToSet(record[p]) : x \in Paths
  BY DEF TypeInv, TypeOK, ToSet
<1>2. \A x \in ToSet(record'[p]) : FileOf(p, x) => disk'[x].kind # "dir"
  BY <1>1 DEF Entry, NoFileDir, IsDir
<1>3. /\ Sorted(p, record'[p])
      /\ \E d \in InstallDirs : \A x \in ToSet(record'[p]) : FileOf(p, x) \/ x \in DirsOf(p, d)
      /\ p \notin entries' => record'[p] = <<>>
  BY DEF Entry
<1>. QED BY <1>2, <1>3 DEF Entry, IsDir, FileOf, Sorted, DirsOf, SubdirIn

LEMMA EntryEmpty ==
  ASSUME NEW p \in Packages, record'[p] = <<>>
  PROVE  Entry(p)'
<1>1. /\ Sorted(p, record'[p])
      /\ \A x \in ToSet(record'[p]) : FALSE
      /\ \E d \in InstallDirs : TRUE
  BY SortedEmpty, NothingLeft, ConstantsAssumption DEF InstallDirs
<1>. QED BY <1>1 DEF Entry

LEMMA LinesWritten ==
  ASSUME TypeInv, NEW x \in Paths, WriteLine(x)
  PROVE  ToSet(record'[pkg]) \subseteq ToSet(record[pkg]) \cup {x}
<1>1. pkg \in Packages /\ record \in [Packages -> Seq(Paths)]
  BY DEF TypeInv, TypeOK
<1>2. record'[pkg] = record[pkg] \/ record'[pkg] = Append(record[pkg], x)
  BY <1>1 DEF WriteLine
<1>. QED BY <1>1, <1>2, AppendOf

\* A line written to the entry of the running install.
LEMMA EntryWritten ==
  ASSUME TypeInv, \A p \in Packages : Entry(p), UNCHANGED <<disk, entries>>,
         NEW x \in Paths, WriteLine(x),
         \A y \in ToSet(record[pkg]) :
           /\ y \notin InstallDirs
           /\ FileOf(pkg, x) => FileOf(pkg, y)
           /\ y = x => FileOf(pkg, y),
         FileOf(pkg, x) => ~IsDir(x),
         NEW d \in InstallDirs,
         \A y \in ToSet(record[pkg]) \cup {x} : FileOf(pkg, y) \/ y \in DirsOf(pkg, d)
  PROVE  \A p \in Packages : Entry(p)'
<1>1. pkg \in Packages /\ record \in [Packages -> Seq(Paths)]
  BY DEF TypeInv, TypeOK
<1>2. NoFileDir
  BY DEF NoFileDir, IsDir
<1>3. ASSUME NEW p \in Packages, record'[p] = record[p]
      PROVE  Entry(p)'
  BY <1>2, <1>3, EntryKept
<1>4. ASSUME pkg \in entries, record' = [record EXCEPT ![pkg] = Append(@, x)],
             NEW p, p = pkg
      PROVE  Entry(p)'
  <2>1. record'[p] = Append(record[pkg], x)
    BY <1>1, <1>4
  <2>2. Sorted(p, record'[p])
    BY <1>1, <1>4, <2>1, SortedAppend DEF Entry
  <2>3. ToSet(record'[p]) = ToSet(record[pkg]) \cup {x}
    BY <1>1, <2>1, AppendOf
  <2>4. \A y \in ToSet(record'[p]) : FileOf(p, y) => disk'[y].kind # "dir"
    BY <1>1, <1>4, <2>3 DEF Entry, IsDir
  <2>5. \A y \in ToSet(record'[p]) : FileOf(p, y) \/ y \in DirsOf(p, d)
    BY <1>4, <2>3
  <2>. QED BY <1>4, <2>2, <2>4, <2>5 DEF Entry, IsDir, FileOf, Sorted, DirsOf, SubdirIn
<1>. QED BY <1>1, <1>3, <1>4 DEF WriteLine

LEMMA InitListing == Init => Listing
<1>. SUFFICES ASSUME Init PROVE Listing
  OBVIOUS
<1>1. ASSUME NEW p \in Packages
      PROVE  Entry(p)
  <2>1. record[p] = <<>>
    BY <1>1 DEF Init
  <2>2. \E d \in InstallDirs : TRUE
    BY ConstantsAssumption, <1>1 DEF InstallDirs
  <2>. QED BY <2>1, <2>2, SortedEmpty, NothingLeft DEF Entry
<1>. QED BY <1>1 DEF Init, Listing, Looping

\* The file of a line, and a directory on the way to it.
LEMMA FilesApart ==
  ASSUME Distinct, NEW p \in Packages, NEW x \in Paths, FileOf(p, x)
  PROVE  x \notin InstallDirs /\ \A q \in Packages : \A d \in InstallDirs : ~SubdirIn(q, d, x)
BY DEF Distinct, DirLine, SubdirOf

LEMMA SubdirsApart ==
  ASSUME Apart, NEW p \in Packages, NEW d \in InstallDirs, NEW x, SubdirIn(p, d, x)
  PROVE  x \notin InstallDirs
BY DEF Apart, SubdirIn

\* Every step keeps the entries sorted.
LEMMA NextListing ==
  ASSUME Apart, Distinct, TypeInv, Open, Own, Listing, [Next]_vars
  PROVE  Listing'
<1>. USE DEF Goto
<1>0. /\ pkg \in Packages /\ record \in [Packages -> Seq(Paths)] /\ disk \in [Paths -> Node]
      /\ created \in Seq(Paths) /\ \A p \in Packages : Entry(p)
  BY DEF TypeInv, TypeOK, Listing
<1>a. ASSUME UNCHANGED disk
      PROVE  NoFileDir
  BY <1>a DEF NoFileDir, IsDir
<1>b. ASSUME NoFileDir, UNCHANGED database
      PROVE  \A p \in Packages : Entry(p)'
  BY <1>0, <1>b, EntryKept DEF database
<1>c. ASSUME NEW d \in Paths, NEW node, node.kind = "dir" => \A p \in Packages : ~FileOf(p, d),
             disk' = [disk EXCEPT ![d] = node]
      PROVE  NoFileDir
  BY <1>0, <1>c DEF NoFileDir, IsDir
<1>d. ASSUME \A p \in Packages : Entry(p)', pc' \notin Looping \cup {"pages", "store"}
      PROVE  Listing'
  BY <1>d DEF Listing, Looping
<1>e. ASSUME \A p \in Packages : Entry(p)', pc' \in Looping,
             \A x \in ToSet(record'[pkg']) : FileOf(pkg', x),
             Once(created'), \A x \in ToSet(created') : SubdirIn(pkg', installdir', x)
      PROVE  Listing'
  BY <1>e DEF Listing, Looping, FileOf, SubdirIn, Once
<1>f. ASSUME \A p \in Packages : Entry(p)', pc' = "store",
             Once(created'), \A x \in ToSet(created') : SubdirIn(pkg', installdir', x),
             \A x \in ToSet(record'[pkg']) : FileOf(pkg', x) \/ SubdirIn(pkg', installdir', x),
             ToSet(created') \cap ToSet(record'[pkg']) = {}
      PROVE  Listing'
  BY <1>f DEF Listing, Looping, FileOf, SubdirIn, Once
<1>g. ASSUME pc \in Looping, pc' \in Looping, NoFileDir, UNCHANGED <<database, pkg, installdir, created>>
      PROVE  Listing'
  BY <1>b, <1>e, <1>g DEF Listing, database
<1>1. ASSUME NEW p \in Packages, NEW dir, StartInstall(p, dir)
      PROVE  Listing'
  BY <1>1, <1>a, <1>b, <1>d DEF StartInstall, Looping
<1>2. CASE GetInstallDir
  BY <1>2, <1>a, <1>b, <1>d DEF GetInstallDir, Looping
<1>3. CASE MakeInstallDir
  <2>1. installdir \in InstallDirs /\ installdir \in Paths
    BY <1>3, ConstantsAssumption DEF MakeInstallDir, TypeInv, Position
  <2>2. \A p \in Packages : ~FileOf(p, installdir)
    BY <2>1, FilesApart
  <2>3. NoFileDir
    BY <1>3, <1>a, <1>c, <2>1, <2>2 DEF MakeInstallDir
  <2>. QED BY <1>3, <1>b, <1>d, <2>3 DEF MakeInstallDir, EndCommand, Looping
<1>4. CASE OpenEntry
  <2>1. pkg \notin entries /\ pc' = "pages" /\ pkg' = pkg /\ UNCHANGED disk
    BY <1>4 DEF OpenEntry, Open, Installing, Entering
  <2>2. record'[pkg] = <<>>
    BY <1>0, <1>4, <2>1 DEF OpenEntry, database, Entry
  <2>3. ASSUME NEW p \in Packages
        PROVE  Entry(p)'
    <3>1. CASE record'[p] = <<>>
      BY <3>1, EntryEmpty
    <3>2. CASE p # pkg
      <4>1. record'[p] = record[p] /\ (p \notin entries' => p \notin entries)
        BY <1>0, <1>4, <3>2 DEF OpenEntry, database
      <4>. QED BY <1>0, <1>a, <2>1, <4>1, EntryKept
    <3>. QED BY <2>2, <3>1, <3>2
  <2>. QED BY <2>1, <2>2, <2>3 DEF Listing, Looping
<1>5. CASE GetPages
  <2>1. record'[pkg'] = <<>> /\ created' = <<>>
    BY <1>5 DEF GetPages, Listing, database
  <2>. QED BY <1>5, <1>a, <1>b, <1>e, <2>1, NothingLeft DEF GetPages, Looping, Once
<1>6. CASE GetList
  BY <1>6, <1>a, <1>g DEF GetList, Looping
<1>7. CASE EndOfPages
  <2>1. /\ \A x \in ToSet(record[pkg]) : FileOf(pkg, x)
        /\ Once(created) /\ \A x \in ToSet(created) : SubdirIn(pkg, installdir, x)
        /\ installdir \in InstallDirs
    BY <1>7 DEF EndOfPages, Listing, Looping, TypeInv, Position
  <2>2. \A x \in ToSet(created) : x \in Paths
    BY <1>0 DEF ToSet
  <2>3. ToSet(created) \cap ToSet(record[pkg]) = {}
    BY <1>0, <2>1, <2>2, FilesApart
  <2>. QED BY <1>7, <1>a, <1>b, <1>f, <2>1, <2>3 DEF EndOfPages, database, installVars
<1>8. CASE EndOfList
  BY <1>8, <1>a, <1>g DEF EndOfList, Looping
<1>9. CASE MakeSubdir
  <2>. DEFINE dir == At(sub + 1)
  <2>1. /\ pc = "line" /\ line <= Len(Pages[pkg][page]) /\ sub + 1 < Len(Line)
        /\ UNCHANGED database
    BY <1>9 DEF MakeSubdir
  <2>2. dir \in Paths /\ installdir \in InstallDirs
    BY <2>1, SubdirIsPath DEF TypeInv, Position
  <2>3. SubdirIn(pkg, installdir, dir)
    <3>1. /\ page \in 1..Len(Pages[pkg]) /\ line \in 1..Len(Pages[pkg][page])
          /\ sub + 1 \in 1..Len(Pages[pkg][page][line]) /\ sub + 1 < Len(Pages[pkg][page][line])
          /\ At(sub + 1) = installdir \o SubSeq(Pages[pkg][page][line], 1, sub + 1)
      BY <2>1, ListingAssumption, SMTT(20) DEF TypeInv, TypeOK, Position, Line, At
    <3>. QED BY <3>1 DEF SubdirIn
  <2>4. \A p \in Packages : ~FileOf(p, dir)
    BY <1>0, <2>2, <2>3, FilesApart
  <2>. HIDE DEF dir
  <2>5. CASE /\ disk' = [disk EXCEPT ![dir] = Directory(pkg)]
             /\ created' = IF InCreated(dir) THEN created ELSE Append(created, dir)
             /\ pc' = "line" /\ UNCHANGED <<pkg, installdir>>
    <3>1. NoFileDir
      BY <1>0, <2>2, <2>4, <2>5 DEF NoFileDir, IsDir
    <3>2. dir \in ToSet(created) => InCreated(dir)
      <4>1. Len(dir) \in Nat /\ TextPrefix(dir, dir)
        BY <2>2, PathsAssumption DEF TextPrefix
      <4>2. \A x \in ToSet(created) : \E k \in 1..Len(created) : x = created[k]
        BY <1>0, LenProperties DEF ToSet
      <4>. QED BY <4>1, <4>2 DEF InCreated
    <3>3. /\ Once(created) /\ \A x \in ToSet(created) : SubdirIn(pkg, installdir, x)
          /\ \A x \in ToSet(record[pkg]) : FileOf(pkg, x)
      BY <2>1 DEF Listing, Looping
    <3>4. Once(created') /\ \A x \in ToSet(created') : SubdirIn(pkg, installdir, x)
      BY <1>0, <2>2, <2>3, <2>5, <3>2, <3>3, OnceAppend, AppendOf
    <3>. QED BY <1>b, <1>e, <2>1, <2>5, <3>1, <3>3, <3>4 DEF database, Looping
  <2>6. CASE UNCHANGED <<disk, pkg, installdir, created>> /\ pc' = "line"
    BY <1>a, <1>g, <2>1, <2>6 DEF Looping
  <2>7. CASE UNCHANGED disk /\ pc' = "prompt"
    BY <1>a, <1>b, <1>d, <2>1, <2>7 DEF Looping
  <2>. QED BY <1>9, <2>5, <2>6, <2>7 DEF MakeSubdir, EndCommand, dir
<1>10. CASE BeginFile
  <2>1. line \in 1..Len(Pages[pkg][page])
    BY <1>10, ListingAssumption DEF BeginFile, AtFile, TypeInv, TypeOK, Position
  <2>2. Target \in Paths
    BY <1>10, <2>1, TargetIsFileOf DEF BeginFile, AtFile
  <2>3. NoFileDir
    <3>1. CASE disk' = [disk EXCEPT ![Target] = File(pkg, FALSE)]
      BY <1>c, <2>2, <3>1 DEF File
    <3>. QED BY <1>10, <1>a, <3>1 DEF BeginFile
  <2>4. CASE pc' = "body" /\ UNCHANGED <<pkg, installdir, created>>
    BY <1>10, <1>g, <2>3, <2>4 DEF BeginFile, AtFile, Looping
  <2>5. CASE pc' = "prompt"
    BY <1>10, <1>b, <1>d, <2>3, <2>5 DEF BeginFile, Looping
  <2>. QED BY <1>10, <2>4, <2>5 DEF BeginFile, EndCommand, installVars
<1>11. CASE EndFile
  <2>1. Target \in Paths
    BY <1>11, TargetIsFileOf DEF EndFile, TypeInv, Position
  <2>2. NoFileDir
    <3>1. CASE disk' = [disk EXCEPT ![Target] = File(pkg, TRUE)]
      BY <1>c, <2>1, <3>1 DEF File
    <3>. QED BY <1>11, <1>a, <3>1 DEF EndFile
  <2>. QED BY <1>11, <1>g, <2>2 DEF EndFile, installVars, Looping
<1>12. CASE RecordFile
  <2>1. FileOf(pkg, Target) /\ Target \in Paths /\ IsFile(Target)
    BY <1>12, TargetIsFileOf DEF RecordFile, TypeInv, Position, Own
  <2>2. \A y \in ToSet(record[pkg]) : FileOf(pkg, y) /\ y \in Paths
    BY <1>0, <1>12 DEF RecordFile, Listing, Looping, ToSet
  <2>3. \A y \in ToSet(record[pkg]) : y \notin InstallDirs
    BY <1>0, <2>2, FilesApart
  <2>4. /\ DefaultDir[pkg] \in InstallDirs
        /\ \A y \in ToSet(record[pkg]) \cup {Target} : FileOf(pkg, y) \/ y \in DirsOf(pkg, DefaultDir[pkg])
        /\ FileOf(pkg, Target) => ~IsDir(Target)
    BY <1>0, <2>1, <2>2 DEF InstallDirs, IsFile, IsDir
  <2>5. \A p \in Packages : Entry(p)'
    <3>1. UNCHANGED <<disk, entries>> /\ WriteLine(Target)
      BY <1>12 DEF RecordFile
    <3>2. \A y \in ToSet(record[pkg]) :
            /\ y \notin InstallDirs
            /\ FileOf(pkg, Target) => FileOf(pkg, y)
            /\ y = Target => FileOf(pkg, y)
      BY <2>2, <2>3
    <3>. QED BY <1>0, <2>1, <2>4, <3>1, <3>2, EntryWritten
  <2>6. ToSet(record'[pkg]) \subseteq ToSet(record[pkg]) \cup {Target}
    BY <1>12, <2>1, LinesWritten DEF RecordFile
  <2>7. Once(created) /\ \A x \in ToSet(created) : SubdirIn(pkg, installdir, x)
    BY <1>12 DEF RecordFile, Listing, Looping
  <2>8. \A y \in ToSet(record'[pkg]) : FileOf(pkg, y)
    BY <2>1, <2>2, <2>6
  <2>9. /\ pc' = "line" /\ pkg' = pkg /\ created' = created /\ installdir' = installdir
    BY <1>12 DEF RecordFile
  <2>. QED BY <1>e, <2>5, <2>7, <2>8, <2>9 DEF Looping
<1>13. CASE StoreDir
  <2>. DEFINE x == Head(created)
  <2>1. /\ created # <<>> /\ pc = "store" /\ pc' = "store" /\ WriteLine(x)
        /\ created' = Tail(created) /\ UNCHANGED <<disk, entries, pkg, installdir>>
        /\ installdir \in InstallDirs
    BY <1>13 DEF StoreDir, TypeInv, Position
  <2>2. /\ Once(created) /\ \A y \in ToSet(created) : SubdirIn(pkg, installdir, y)
        /\ \A y \in ToSet(record[pkg]) : FileOf(pkg, y) \/ SubdirIn(pkg, installdir, y)
        /\ ToSet(created) \cap ToSet(record[pkg]) = {}
    BY <2>1 DEF Listing, Looping
  <2>3. /\ x \in ToSet(created) /\ x \in Paths /\ ToSet(Tail(created)) \subseteq ToSet(created)
        /\ Once(Tail(created)) /\ x \notin ToSet(Tail(created))
    BY <1>0, <2>1, <2>2, TailOf, OnceTail, HeadTailProperties
  <2>4. \A y \in ToSet(record[pkg]) : y \in Paths
    BY <1>0 DEF ToSet
  <2>. HIDE DEF x
  <2>5. \A y \in ToSet(record[pkg]) : y \notin InstallDirs
    BY <1>0, <2>1, <2>2, <2>4, FilesApart, SubdirsApart
  <2>6. ~FileOf(pkg, x) /\ x \in DirsOf(pkg, installdir)
    BY <1>0, <2>1, <2>2, <2>3, FilesApart DEF DirsOf
  <2>7. \A y \in ToSet(record[pkg]) : FileOf(pkg, y) \/ y \in DirsOf(pkg, installdir)
    <3>. SUFFICES ASSUME NEW y \in ToSet(record[pkg]), SubdirIn(pkg, installdir, y)
                  PROVE  y \in DirsOf(pkg, installdir)
      BY <2>2
    <3>. QED BY <2>4 DEF DirsOf
  <2>8. \A p \in Packages : Entry(p)'
    <3>1. \A y \in ToSet(record[pkg]) :
            /\ y \notin InstallDirs
            /\ FileOf(pkg, x) => FileOf(pkg, y)
            /\ y = x => FileOf(pkg, y)
      BY <2>2, <2>3, <2>5, <2>6
    <3>2. \A y \in ToSet(record[pkg]) \cup {x} : FileOf(pkg, y) \/ y \in DirsOf(pkg, installdir)
      BY <2>6, <2>7
    <3>. QED BY <1>0, <2>1, <2>3, <2>6, <3>1, <3>2, EntryWritten
  <2>9. ToSet(record'[pkg]) \subseteq ToSet(record[pkg]) \cup {x}
    BY <2>1, <2>3, LinesWritten
  <2>10. /\ \A y \in ToSet(record'[pkg]) : FileOf(pkg, y) \/ SubdirIn(pkg, installdir, y)
         /\ \A y \in ToSet(created') : SubdirIn(pkg, installdir, y)
         /\ ToSet(created') \cap ToSet(record'[pkg]) = {}
         /\ Once(created')
    BY <2>1, <2>2, <2>3, <2>9
  <2>. QED BY <1>f, <2>1, <2>8, <2>10
<1>14. CASE StoreInstallDir
  <2>1. /\ pc = "store" /\ pc' = "prompt" /\ WriteLine(installdir)
        /\ UNCHANGED <<disk, entries, pkg>> /\ installdir \in InstallDirs /\ installdir \in Paths
    BY <1>14, ConstantsAssumption DEF StoreInstallDir, EndCommand, TypeInv, Position
  <2>2. \A y \in ToSet(record[pkg]) : FileOf(pkg, y) \/ SubdirIn(pkg, installdir, y)
    BY <2>1 DEF Listing
  <2>3. \A y \in ToSet(record[pkg]) : y \in Paths
    BY <1>0 DEF ToSet
  <2>4. \A y \in ToSet(record[pkg]) : y \notin InstallDirs
    BY <1>0, <2>1, <2>2, <2>3, FilesApart, SubdirsApart
  <2>5. ~FileOf(pkg, installdir) /\ installdir \in DirsOf(pkg, installdir)
    BY <1>0, <2>1, FilesApart DEF DirsOf
  <2>6. \A y \in ToSet(record[pkg]) : FileOf(pkg, y) \/ y \in DirsOf(pkg, installdir)
    BY <2>2, <2>3 DEF DirsOf
  <2>7. \A p \in Packages : Entry(p)'
    BY <1>0, <2>1, <2>2, <2>4, <2>5, <2>6, EntryWritten
  <2>. QED BY <1>d, <2>1, <2>7 DEF Looping
<1>15. ASSUME NEW p \in Packages, NEW isUpgrade, StartUninstall(p, isUpgrade)
       PROVE  Listing'
  BY <1>15, <1>a, <1>b, <1>d DEF StartUninstall, Looping
<1>16. CASE Unlink
  <2>1. NoFileDir
    <3>1. todo \in Seq(Paths) /\ todo # <<>> /\ Nothing.kind = "none"
      BY <1>16 DEF Unlink, Room, TypeInv, TypeOK, Nothing
    <3>2. Head(todo) \in Paths
      BY <3>1, HeadTailProperties
    <3>. QED BY <1>16, <1>a, <1>c, <3>1, <3>2 DEF Unlink, Room, Deleted
  <2>2. UNCHANGED database /\ pc' \in {"unlink", "prompt"}
    BY <1>16 DEF Unlink, Room, EndCommand
  <2>. QED BY <1>b, <1>d, <2>1, <2>2 DEF Looping
<1>17. CASE EndOfEntry
  BY <1>17, <1>a, <1>b, <1>d DEF EndOfEntry, Looping
<1>18. CASE RetryDir
  <2>1. undeleted \in Seq(Paths) /\ undeleted # <<>> /\ Nothing.kind = "none"
    BY <1>18 DEF RetryDir, TypeInv, TypeOK, Nothing
  <2>2. Head(undeleted) \in Paths
    BY <2>1, HeadTailProperties
  <2>3. NoFileDir
    BY <1>18, <1>a, <1>c, <2>1, <2>2 DEF RetryDir, Deleted
  <2>. QED BY <1>18, <1>b, <1>d, <2>3 DEF RetryDir, Looping
<1>19. CASE DropEntry
  <2>1. \A p \in Packages : Entry(p)'
    <3>1. ASSUME NEW p \in Packages
          PROVE  Entry(p)'
      <4>1. CASE p = pkg
        BY <1>0, <1>19, <4>1, EntryEmpty DEF DropEntry
      <4>2. CASE p # pkg
        BY <1>0, <1>19, <1>a, <4>2, EntryKept DEF DropEntry
      <4>. QED BY <4>1, <4>2
    <3>. QED BY <3>1
  <2>. QED BY <1>19, <1>d, <2>1 DEF DropEntry, EndCommand, Looping
<1>20. CASE Die
  BY <1>20, <1>a, <1>b, <1>d DEF Die, EndCommand, Looping
<1>21. CASE PowerOff
  <2>1. UNCHANGED <<disk, entries>> /\ pc' = "prompt"
    BY <1>21 DEF PowerOff, EndCommand
  <2>2. CASE UNCHANGED record
    BY <1>a, <1>b, <1>d, <2>1, <2>2 DEF database, Looping
  <2>3. CASE EntryOpen
    <3>1. PICK k \in 0..Len(record[pkg]) :
            record' = [record EXCEPT ![pkg] = SubSeq(@, 1, k)]
      BY <1>21, <2>3 DEF PowerOff
    <3>2. record'[pkg] = SubSeq(record[pkg], 1, k) /\ pkg \in entries'
      BY <1>0, <2>1, <2>3, <3>1 DEF EntryOpen
    <3>3. Sorted(pkg, record'[pkg])
      BY <1>0, <3>1, <3>2, SortedPart DEF Entry
    <3>4. ToSet(record'[pkg]) \subseteq ToSet(record[pkg])
      BY <1>0, <3>1, <3>2, PartOf
    <3>5. /\ \A x \in ToSet(record'[pkg]) : FileOf(pkg, x) => disk'[x].kind # "dir"
          /\ \E d \in InstallDirs :
               \A x \in ToSet(record'[pkg]) : FileOf(pkg, x) \/ x \in DirsOf(pkg, d)
      BY <1>0, <2>1, <3>4 DEF Entry, IsDir
    <3>6. ASSUME NEW p \in Packages
          PROVE  Entry(p)'
      <4>1. CASE p = pkg
        <5>1. /\ Sorted(p, record'[p])
              /\ \A x \in ToSet(record'[p]) : FileOf(p, x) => disk'[x].kind # "dir"
              /\ \E d \in InstallDirs :
                   \A x \in ToSet(record'[p]) : FileOf(p, x) \/ x \in DirsOf(p, d)
              /\ p \in entries'
          BY <3>2, <3>3, <3>5, <4>1
        <5>. QED BY <5>1 DEF Entry, IsDir, FileOf, Sorted, DirsOf, SubdirIn
      <4>2. CASE p # pkg
        BY <1>0, <1>a, <2>1, <3>1, <4>2, EntryKept
      <4>. QED BY <4>1, <4>2
    <3>. QED BY <1>d, <2>1, <3>6 DEF Looping
  <2>. QED BY <1>21, <2>2, <2>3 DEF PowerOff
<1>22. ASSUME NEW x \in UserPaths, UserSave(x)
       PROVE  Listing'
  <2>1. NoFileDir
    BY <1>22, <1>c, ConstantsAssumption DEF UserSave, File
  <2>. QED BY <1>22, <1>b, <1>d, <2>1 DEF UserSave, Looping
<1>23. ASSUME NEW x, UserDelete(x)
       PROVE  Listing'
  <2>1. NoFileDir
    BY <1>0, <1>23 DEF UserDelete, Deleted, Nothing, NoFileDir, IsDir
  <2>. QED BY <1>23, <1>b, <1>d, <2>1 DEF UserDelete, Looping
<1>24. CASE UNCHANGED vars
  BY <1>24, <1>a, <1>b, <1>d, <1>e, <1>f DEF vars, database, installVars, Listing, Looping
<1>. QED
  BY <1>1, <1>2, <1>3, <1>4, <1>5, <1>6, <1>7, <1>8, <1>9, <1>10, <1>11, <1>12,
     <1>13, <1>14, <1>15, <1>16, <1>17, <1>18, <1>19, <1>20, <1>21, <1>22, <1>23, <1>24
     DEF Next, Command, Install, Uninstall, UserStep

LEMMA InitClearing == Init => Clearing
BY DEF Init, Clearing

\* What a step that deletes only what the entry lists leaves as it was.
LEMMA StillBlocked ==
  ASSUME UNCHANGED <<record, pkg>>, NEW x, Blocked(x),
         \A w \in Paths : w \notin ToSet(record[pkg]) => disk'[w] = disk[w]
  PROVE  Blocked(x)'
BY DEF Blocked, Below, Exists

LEMMA StillPutOff ==
  ASSUME UNCHANGED <<record, pkg>>, NEW x, PutOff(x), disk'[x] = disk[x],
         \A w \in Paths : w \notin ToSet(record[pkg]) => disk'[w] = disk[w]
  PROVE  PutOff(x)'
<1>1. Leaf(x)' => Leaf(x)
  BY DEF Leaf
<1>. QED BY <1>1, StillBlocked DEF PutOff, IsDir

\* When a directory is put off, the files of the entry are gone, and there is
\* room to remember it.
LEMMA FilesGone ==
  ASSUME TypeInv, Listing, Clearing, pc = "unlink", todo # <<>>, ~FileOf(pkg, Head(todo)),
         NEW f \in ToSet(record[pkg]), FileOf(pkg, f)
  PROVE  ~Exists(f)
<1>1. todo \in Seq(Paths) /\ Sorted(pkg, todo)
  BY DEF TypeInv, TypeOK, Clearing
<1>2. f \notin ToSet(todo)
  BY <1>1, SortedTail, LinesLeft
<1>3. f \notin ToSet(undeleted)
  BY DEF Clearing, PutOff
<1>. QED BY <1>2, <1>3 DEF Clearing

LEMMA HasRoom ==
  ASSUME Roomy, TypeInv, Listing, Clearing, pc = "unlink",
         NEW x \in ToSet(record[pkg]), ~FileOf(pkg, x), x \notin ToSet(undeleted)
  PROVE  Room
<1>1. pkg \in Packages /\ undeleted \in Seq(Paths) /\ Sorted(pkg, undeleted)
  BY DEF TypeInv, TypeOK, Clearing
<1>2. \A y \in ToSet(undeleted) : y \in ToSet(record[pkg]) /\ ~FileOf(pkg, y)
  BY DEF Clearing, PutOff
<1>3. Once(undeleted)
  <2>1. \A i \in 1..Len(undeleted) : undeleted[i] \in ToSet(undeleted)
    BY <1>1, LenProperties DEF ToSet
  <2>. QED BY <1>2, <2>1, <1>1 DEF Once, Sorted
<1>4. PICK d \in InstallDirs : \A y \in ToSet(record[pkg]) : FileOf(pkg, y) \/ y \in DirsOf(pkg, d)
  BY <1>1 DEF Listing, Entry
<1>5. ToSet(undeleted) \subseteq DirsOf(pkg, d) /\ x \in DirsOf(pkg, d)
  BY <1>2, <1>4
<1>6. IsFiniteSet(DirsOf(pkg, d)) /\ Cardinality(DirsOf(pkg, d)) <= MaxUndeleted
  BY <1>1 DEF Roomy
<1>. QED BY <1>1, <1>3, <1>5, <1>6, RoomFor DEF Room

\* A directory the entry lists, with something in it, when only directories are
\* left: what is in it is not listed, or was put off too.
LEMMA WhyNotEmpty ==
  ASSUME TypeInv, Clearing, pc = "retry", NEW y \in Paths, NotEmpty(y)
  PROVE  \/ Blocked(y)
         \/ \E v \in Below(y) : v \in ToSet(undeleted)
<1>1. PICK w \in Below(y) : TRUE
  BY DEF NotEmpty
<1>2. w \in Paths /\ IsStrictPrefix(y, w) /\ Exists(w)
  BY DEF Below
<1>3. CASE w \notin ToSet(record[pkg])
  BY <1>3 DEF Blocked
<1>4. CASE w \in ToSet(undeleted)
  BY <1>4
<1>5. CASE w \in ToSet(record[pkg]) /\ w \notin ToSet(undeleted)
  <2>1. Blocked(w) \/ Below(w) \cap ToSet(undeleted) # {}
    BY <1>2, <1>5, NothingLeft DEF Clearing, Tried
  <2>2. \A v \in Below(w) : v \in Below(y)
    BY <1>2, BelowBelow DEF Below
  <2>. QED BY <2>1, <2>2 DEF Blocked
<1>. QED BY <1>3, <1>4, <1>5

\* Every step of uninstall() knows why what is left is left.
LEMMA NextClearing ==
  ASSUME "retry" \notin Faults, Apart, Distinct, Shallow, Roomy,
         TypeInv, TypeInv', Own, Listing, Clearing, [Next]_vars
  PROVE  Clearing'
<1>. USE DEF Goto
<1>0. /\ pkg \in Packages /\ record \in [Packages -> Seq(Paths)] /\ disk \in [Paths -> Node]
      /\ todo \in Seq(Paths) /\ undeleted \in Seq(Paths)
      /\ Nothing.kind = "none" /\ \A x \in ToSet(record[pkg]) : x \in Paths
  BY DEF TypeInv, TypeOK, Nothing, ToSet
<1>a. ASSUME pc' \notin {"unlink", "retry"}
      PROVE  Clearing'
  BY <1>a DEF Clearing
<1>1. ASSUME NEW p \in Packages, NEW isUpgrade, StartUninstall(p, isUpgrade)
      PROVE  Clearing'
  <2>1. CASE p \notin entries
    BY <1>1, <1>a, <2>1 DEF StartUninstall
  <2>2. CASE p \in entries
    <3>1. /\ pc' = "unlink" /\ todo' = record[p] /\ undeleted' = <<>>
          /\ record'[pkg'] = record[p] /\ pkg' = p /\ Sorted(p, record[p])
      BY <1>1, <2>2 DEF StartUninstall, database, Own, Listing, Entry
    <3>. QED BY <3>1, SortedEmpty, NothingLeft DEF Clearing
  <2>. QED BY <2>1, <2>2
<1>2. CASE Unlink
  <2>. DEFINE x == Head(todo)
  <2>1. /\ pc = "unlink" /\ todo # <<>> /\ UNCHANGED database
        /\ ToSet(todo) \subseteq ToSet(record[pkg]) /\ Sorted(pkg, todo) /\ Sorted(pkg, undeleted)
        /\ \A y \in ToSet(undeleted) : PutOff(y) /\ y \notin ToSet(todo) /\ y \notin InstallDirs
        /\ \A y \in ToSet(record[pkg]) : Exists(y) => y \in ToSet(todo) \cup ToSet(undeleted)
    BY <1>2 DEF Unlink, Room, Clearing
  <2>2. /\ x \in ToSet(record[pkg]) /\ x \in ToSet(todo) /\ x \in Paths
        /\ ToSet(Tail(todo)) \subseteq ToSet(todo)
    BY <1>0, <2>1, TailOf
  <2>3. /\ Sorted(pkg, Tail(todo))
        /\ \A y \in ToSet(Tail(todo)) :
             /\ x \notin InstallDirs
             /\ FileOf(pkg, y) => FileOf(pkg, x)
             /\ x = y => FileOf(pkg, x)
    BY <1>0, <2>1, SortedTail
  <2>4. \A y \in ToSet(todo) : y = x \/ y \in ToSet(Tail(todo))
    BY <1>0, <2>1, LinesLeft
  <2>. HIDE DEF x
  <2>5. CASE disk' = Deleted(x) /\ todo' = Tail(todo) /\ pc' = "unlink" /\ UNCHANGED <<pkg, undeleted>>
    <3>1. /\ \A w \in Paths : w # x => disk'[w] = disk[w]
          /\ disk'[x].kind = "none"
      BY <1>0, <2>2, <2>5 DEF Deleted
    <3>2. \A y \in ToSet(undeleted) : PutOff(y)'
      <4>1. \A y \in ToSet(undeleted) : disk'[y] = disk[y]
        BY <1>0, <2>1, <2>2, <3>1 DEF PutOff
      <4>. QED BY <2>1, <2>2, <2>5, <3>1, <4>1, StillPutOff DEF database
    <3>3. \A y \in ToSet(record[pkg]) : disk'[y].kind # "none" => y \in ToSet(Tail(todo)) \cup ToSet(undeleted)
      BY <1>0, <2>1, <2>4, <3>1 DEF Exists
    <3>4. /\ ToSet(todo') \subseteq ToSet(record'[pkg'])
          /\ \A y \in ToSet(undeleted') : PutOff(y)' /\ y \notin ToSet(todo') /\ y \notin InstallDirs
          /\ \A y \in ToSet(record'[pkg']) : disk'[y].kind # "none" =>
               y \in ToSet(todo') \cup ToSet(undeleted')
      BY <2>1, <2>2, <2>5, <3>2, <3>3 DEF database
    <3>. QED BY <2>1, <2>3, <2>5, <3>4 DEF Clearing, Exists
  <2>6. CASE /\ NotEmpty(x) /\ UNCHANGED <<disk, pkg>> /\ pc' = "unlink" /\ todo' = Tail(todo)
             /\ undeleted' = IF Room THEN Append(undeleted, x) ELSE undeleted
    <3>1. IsDir(x) /\ ~FileOf(pkg, x) /\ x \notin ToSet(undeleted)
      BY <1>0, <2>1, <2>2, <2>6 DEF NotEmpty, Listing, Entry
    <3>2. undeleted' = Append(undeleted, x) /\ ToSet(undeleted') = ToSet(undeleted) \cup {x}
      BY <1>0, <2>1, <2>2, <2>6, <3>1, HasRoom, AppendOf
    <3>3. PutOff(x)
      <4>1. PICK w \in Below(x) : TRUE
        BY <2>6 DEF NotEmpty
      <4>2. w \in ToSet(record[pkg]) => ~FileOf(pkg, w)
        BY <2>1, <3>1, FilesGone DEF Below, x
      <4>. QED BY <2>2, <3>1, <4>1, <4>2 DEF PutOff, Leaf, Blocked, Below
    <3>4. Sorted(pkg, undeleted')
      BY <1>0, <2>1, <2>2, <3>1, <3>2, SortedAppend
    <3>5. x \notin ToSet(Tail(todo)) /\ (Tail(todo) # <<>> => x \notin InstallDirs)
      <4>1. ASSUME Tail(todo) # <<>>
            PROVE  \E y \in ToSet(Tail(todo)) : TRUE
        <5>1. Tail(todo) \in Seq(Paths)
          BY <1>0, <2>1, HeadTailProperties
        <5>. QED BY <4>1, <5>1, TailOf
      <4>. QED BY <2>3, <3>1, <4>1
    <3>6. \A y \in ToSet(undeleted') : PutOff(y)'
      BY <2>1, <2>6, <3>2, <3>3, StillPutOff DEF database
    <3>7. \A y \in ToSet(record[pkg]) : disk'[y].kind # "none" => y \in ToSet(todo') \cup ToSet(undeleted')
      BY <2>1, <2>4, <2>6, <3>2 DEF Exists
    <3>8. /\ ToSet(todo') \subseteq ToSet(record'[pkg'])
          /\ \A y \in ToSet(undeleted') : PutOff(y)' /\ y \notin ToSet(todo')
          /\ todo' # <<>> => \A y \in ToSet(undeleted') : y \notin InstallDirs
          /\ \A y \in ToSet(record'[pkg']) : disk'[y].kind # "none" =>
               y \in ToSet(todo') \cup ToSet(undeleted')
      BY <2>1, <2>2, <2>6, <3>2, <3>5, <3>6, <3>7 DEF database
    <3>. QED BY <2>3, <2>6, <3>4, <3>8 DEF Clearing, Exists
  <2>7. CASE pc' = "prompt"
    BY <1>a, <2>7
  <2>. QED BY <1>2, <2>5, <2>6, <2>7 DEF Unlink, Room, EndCommand, installVars, x
<1>3. CASE EndOfEntry
  <2>1. /\ pc = "unlink" /\ pc' = "retry" /\ todo = <<>>
        /\ UNCHANGED <<disk, record, pkg, todo, undeleted>>
    BY <1>3 DEF EndOfEntry, database, uninstallVars
  <2>2. \A y \in ToSet(undeleted) : PutOff(y)'
    BY <2>1, StillPutOff DEF Clearing, PutOff
  <2>. QED BY <2>1, <2>2, NothingLeft DEF Clearing, Exists
<1>4. CASE RetryDir
  <2>. DEFINE y == Head(undeleted)
  <2>1. /\ pc = "retry" /\ pc' = "retry" /\ undeleted # <<>> /\ undeleted' = Tail(undeleted)
        /\ UNCHANGED <<database, pkg, todo>> /\ todo = <<>>
        /\ disk' = IF NotEmpty(y) THEN disk ELSE Deleted(y)
        /\ Sorted(pkg, undeleted) /\ \A x \in ToSet(undeleted) : PutOff(x)
        /\ \A x \in ToSet(record[pkg]) : Exists(x) =>
             x \in ToSet(undeleted) \/ (~FileOf(pkg, x) /\ Tried(x))
    BY <1>4, NothingLeft DEF RetryDir, Clearing
  <2>2. /\ y \in ToSet(undeleted) /\ y \in Paths /\ y \in ToSet(record[pkg])
        /\ ToSet(Tail(undeleted)) \subseteq ToSet(undeleted)
        /\ \A x \in ToSet(undeleted) : x \in Paths /\ x \in ToSet(record[pkg])
    BY <1>0, <2>1, TailOf DEF PutOff
  <2>3. /\ Sorted(pkg, Tail(undeleted)) /\ y \notin ToSet(Tail(undeleted))
        /\ Tail(undeleted) # <<>> => y \notin InstallDirs
    <3>1. ~FileOf(pkg, y)
      BY <2>1, <2>2 DEF PutOff
    <3>2. ASSUME Tail(undeleted) # <<>>
          PROVE  \E x \in ToSet(Tail(undeleted)) : TRUE
      <4>1. Tail(undeleted) \in Seq(Paths)
        BY <1>0, <2>1, HeadTailProperties
      <4>. QED BY <3>2, <4>1, TailOf
    <3>. QED BY <1>0, <2>1, <3>1, <3>2, SortedTail
  <2>4. \A x \in ToSet(undeleted) : x = y \/ x \in ToSet(Tail(undeleted))
    BY <1>0, <2>1, LinesLeft
  <2>. HIDE DEF y
  <2>5. /\ \A w \in Paths : w # y => disk'[w] = disk[w]
        /\ \A w \in Paths : disk'[w].kind # "none" => Exists(w)
    BY <1>0, <2>1, <2>2 DEF Deleted, Exists
  <2>6. \A x \in ToSet(Tail(undeleted)) : PutOff(x)'
    BY <2>1, <2>2, <2>3, <2>5, StillPutOff DEF database
  <2>7. ASSUME NEW x \in ToSet(record[pkg]), disk'[x].kind # "none", x \notin ToSet(Tail(undeleted))
        PROVE  ~FileOf(pkg, x) /\ Tried(x)'
    <3>1. x \in Paths /\ Exists(x)
      BY <1>0, <2>5, <2>7
    <3>2. CASE NotEmpty(y)
      <4>1. UNCHANGED disk
        BY <2>1, <3>2
      <4>2. Blocked(y) \/ \E v \in Below(y) : v \in ToSet(undeleted)
        BY <2>1, <2>2, <3>2, WhyNotEmpty
      <4>3. ASSUME NEW v, v \in Below(y)
            PROVE  v # y
        BY <4>3 DEF Below, IsStrictPrefix
      <4>4. Blocked(y) \/ \E v \in Below(y) : v \in ToSet(Tail(undeleted))
        BY <2>4, <4>2, <4>3
      <4>5. CASE x = y
        <5>1. Tried(x)'
          BY <2>1, <2>3, <4>1, <4>4, <4>5, StillBlocked DEF Tried, database, Below, Exists
        <5>. QED BY <2>1, <2>2, <4>5, <5>1 DEF PutOff
      <4>6. CASE x # y
        <5>1. /\ ~FileOf(pkg, x) /\ x \notin InstallDirs
              /\ Blocked(x) \/ \E v \in Below(x) : v \in ToSet(undeleted)
          BY <2>1, <2>4, <2>7, <3>1, <4>6 DEF Tried
        <5>2. y \in Below(x) => \A v \in Below(y) : v \in Below(x)
          BY <2>2, <3>1, BelowBelow DEF Below
        <5>3. Blocked(x) \/ \E v \in Below(x) : v \in ToSet(Tail(undeleted))
          BY <2>4, <4>4, <5>1, <5>2 DEF Blocked
        <5>4. Tried(x)'
          BY <2>1, <4>1, <5>1, <5>3, StillBlocked DEF Tried, database, Below, Exists
        <5>. QED BY <5>1, <5>4
      <4>. QED BY <4>5, <4>6
    <3>3. CASE ~NotEmpty(y)
      <4>1. disk'[y].kind = "none" /\ x # y
        BY <1>0, <2>1, <2>2, <2>7, <3>3 DEF Deleted
      <4>2. /\ ~FileOf(pkg, x) /\ x \notin InstallDirs
            /\ Blocked(x) \/ \E v \in Below(x) : v \in ToSet(undeleted)
        BY <2>1, <2>4, <2>7, <3>1, <4>1 DEF Tried
      <4>3. y \notin Below(x)
        <5>. SUFFICES ASSUME y \in Below(x) PROVE FALSE
          OBVIOUS
        <5>1. ~FileOf(pkg, y) /\ IsDir(y) /\ (Leaf(y) => Blocked(y))
          BY <2>1, <2>2 DEF PutOff
        <5>2. ~Leaf(y)
          BY <3>3, <5>1 DEF NotEmpty, Blocked
        <5>3. PICK z \in ToSet(record[pkg]) : ~FileOf(pkg, z) /\ IsStrictPrefix(y, z)
          BY <5>2 DEF Leaf
        <5>4. \A v \in ToSet(record[pkg]) : ~FileOf(pkg, v) => DirLine(pkg, v)
          BY <1>0 DEF Own, Mine, LineOf, DirLine
        <5>5. IsStrictPrefix(x, y) /\ z \in Paths
          BY <1>0 DEF Below
        <5>6. DirLine(pkg, x) /\ DirLine(pkg, y) /\ DirLine(pkg, z)
          BY <2>2, <2>7, <4>2, <5>1, <5>3, <5>4
        <5>. QED BY <1>0, <2>2, <3>1, <4>2, <5>3, <5>5, <5>6 DEF Shallow
      <4>4. Blocked(x) \/ \E v \in Below(x) : v \in ToSet(Tail(undeleted))
        BY <2>4, <4>2, <4>3
      <4>5. Blocked(x) => Blocked(x)'
        BY <2>1, <2>2, <2>5, StillBlocked DEF database
      <4>6. ASSUME NEW v \in Below(x), v \in ToSet(Tail(undeleted))
            PROVE  v \in Below(x)'
        BY <2>3, <2>5, <4>6 DEF Below, Exists
      <4>7. Tried(x)'
        BY <2>1, <4>2, <4>4, <4>5, <4>6 DEF Tried
      <4>. QED BY <4>2, <4>7
    <3>. QED BY <3>2, <3>3
  <2>8. /\ \A x \in ToSet(undeleted') : PutOff(x)' /\ x \notin ToSet(todo')
        /\ todo' = <<>> /\ ToSet(todo') \subseteq ToSet(record'[pkg'])
        /\ \A x \in ToSet(record'[pkg']) : disk'[x].kind # "none" =>
             x \in ToSet(undeleted') \/ (~FileOf(pkg', x) /\ Tried(x)')
    BY <2>1, <2>6, <2>7, NothingLeft DEF database
  <2>. QED BY <2>1, <2>3, <2>8, SortedEmpty DEF Clearing, Exists
<1>5. CASE UNCHANGED vars
  <2>1. UNCHANGED <<disk, record, pc, pkg, todo, undeleted>>
    BY <1>5 DEF vars, database, uninstallVars
  <2>2. \A x : (PutOff(x) => PutOff(x)') /\ (Tried(x) => Tried(x)')
    BY <2>1, StillPutOff, StillBlocked DEF Tried, Below, Exists
  <2>. QED BY <2>1, <2>2 DEF Clearing, Exists
<1>. QED
  BY <1>1, <1>2, <1>3, <1>4, <1>5, <1>a
     DEF Next, Command, StartInstall, Install, Uninstall, UserStep, GetInstallDir, MakeInstallDir,
         OpenEntry, GetPages, GetList, EndOfPages, EndOfList, MakeSubdir, BeginFile, AtFile, EndFile,
         RecordFile, StoreDir, StoreInstallDir, DropEntry, Die, PowerOff, UserSave, UserDelete,
         EndCommand

\* When uninstall() has gone through an entry, all that is left of it are
\* directories with something in them that the entry does not list, whatever
\* else failed before: if no retried deletion fails, which uninstall() would not
\* notice, for all packages without three levels of directories in the
\* installation directory, and with no more of them than can be put off.
THEOREM AlwaysUninstallClears ==
  ASSUME "retry" \notin Faults, Apart, Distinct, Shallow, Roomy
  PROVE  Spec => []UninstallClears
<1>. DEFINE Inv == TypeInv /\ Open /\ Own /\ Listing /\ Clearing
<1>1. Init => Inv
  BY InitTyped, InitOpen, InitOwn, InitListing, InitClearing
<1>2. Inv /\ [Next]_vars => Inv'
  BY NextTyped, NextOpen, NextOwn, NextListing, NextClearing
<1>3. Inv => UninstallClears
  BY NothingLeft DEF Clearing, Tried, Blocked, UninstallClears
<1>. QED BY <1>1, <1>2, <1>3, PTL DEF Spec

-----------------------------------------------------------------------------
(* The files of an entry, whatever fails.                                  *)

\* A file the entry lists is on a line uninstall() has still to read.
FilesAhead ==
  pc \in {"unlink", "retry"} =>
    \A x \in ToSet(record[pkg]) : IsFile(x) => pc = "unlink" /\ x \in ToSet(todo)

\* Only a directory is put off, and any error but this one ends the command.
LEMMA NextFilesAhead ==
  ASSUME TypeInv, FilesAhead, [Next]_vars
  PROVE  FilesAhead'
<1>. USE DEF Goto
<1>0. /\ disk \in [Paths -> Node] /\ todo \in Seq(Paths) /\ Nothing.kind = "none"
      /\ pkg \in Packages /\ record \in [Packages -> Seq(Paths)]
      /\ \A x \in ToSet(record[pkg]) : x \in Paths
  BY DEF TypeInv, TypeOK, Nothing, ToSet
<1>a. ASSUME pc' \notin {"unlink", "retry"}
      PROVE  FilesAhead'
  BY <1>a DEF FilesAhead
<1>1. ASSUME NEW p \in Packages, NEW isUpgrade, StartUninstall(p, isUpgrade)
      PROVE  FilesAhead'
  BY <1>1, <1>a DEF StartUninstall, database, FilesAhead
<1>2. CASE Unlink
  <2>. DEFINE x == Head(todo)
  <2>1. /\ pc = "unlink" /\ todo # <<>> /\ UNCHANGED database
        /\ \A y \in ToSet(record[pkg]) : IsFile(y) => y = x \/ y \in ToSet(Tail(todo))
    <3>1. \A y \in ToSet(todo) : y = x \/ y \in ToSet(Tail(todo))
      BY <1>0, <1>2, LinesLeft DEF Unlink
    <3>. QED BY <1>2, <3>1 DEF Unlink, FilesAhead
  <2>. HIDE DEF x
  <2>2. CASE /\ disk' = Deleted(x) /\ pc' = "unlink" /\ todo' = Tail(todo) /\ UNCHANGED pkg
    <3>1. \A y \in Paths : disk'[y].kind = "file" => y # x /\ IsFile(y)
      BY <1>0, <2>2 DEF Deleted, IsFile
    <3>. QED BY <1>0, <2>1, <2>2, <3>1 DEF FilesAhead, IsFile, database
  <2>3. CASE NotEmpty(x) /\ pc' = "unlink" /\ todo' = Tail(todo) /\ UNCHANGED <<disk, pkg>>
    BY <2>1, <2>3 DEF FilesAhead, IsFile, IsDir, NotEmpty, database
  <2>4. CASE pc' = "prompt"
    BY <1>a, <2>4
  <2>. QED BY <1>2, <2>2, <2>3, <2>4 DEF Unlink, EndCommand, x
<1>3. CASE EndOfEntry
  <2>1. ToSet(todo) = {}
    BY <1>3, NothingLeft DEF EndOfEntry
  <2>. QED BY <1>3, <2>1 DEF EndOfEntry, FilesAhead, IsFile, database
<1>4. CASE RetryDir
  <2>1. /\ pc = "retry" /\ pc' = "retry" /\ UNCHANGED <<record, pkg>>
        /\ disk' = disk \/ disk' = Deleted(Head(undeleted))
    BY <1>4 DEF RetryDir, database
  <2>2. \A y \in Paths : disk'[y].kind = "file" => IsFile(y)
    BY <1>0, <2>1 DEF Deleted, IsFile
  <2>. QED BY <1>0, <2>1, <2>2 DEF FilesAhead, IsFile
<1>5. CASE UNCHANGED vars
  BY <1>5 DEF vars, database, uninstallVars, FilesAhead, IsFile
<1>. QED
  BY <1>1, <1>2, <1>3, <1>4, <1>5, <1>a
     DEF Next, Command, StartInstall, Install, Uninstall, UserStep, GetInstallDir, MakeInstallDir,
         OpenEntry, GetPages, GetList, EndOfPages, EndOfList, MakeSubdir, BeginFile, AtFile, EndFile,
         RecordFile, StoreDir, StoreInstallDir, DropEntry, Die, PowerOff, UserSave, UserDelete,
         EndCommand

\* When uninstall() drops an entry no file it lists is on the disk: for all
\* packages, lists and drives, whatever else is on them and whatever fails.
THEOREM AlwaysFilesCleared == Spec => []FilesCleared
<1>. DEFINE Inv == TypeInv /\ FilesAhead
<1>1. Init => Inv
  BY InitTyped DEF Init, FilesAhead
<1>2. Inv /\ [Next]_vars => Inv'
  BY NextTyped, NextFilesAhead
<1>3. Inv => FilesCleared
  BY DEF FilesAhead, FilesCleared
<1>. QED BY <1>1, <1>2, <1>3, PTL DEF Spec
=============================================================================
