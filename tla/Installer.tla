----------------------------- MODULE Installer -----------------------------
(***************************************************************************)
(* The package manager of MSXHub: the commands install, uninstall and      *)
(* upgrade of src/hub.c, working on the MSX-DOS disk and on the database   *)
(* of installed packages, CONFIG\IDB, which holds one text file per        *)
(* package (its entry) listing the paths to delete when it is uninstalled. *)
(*                                                                         *)
(* MSX-DOS runs one program at a time, so there is no concurrency inside a *)
(* command.  What makes the commands hard is that they can end between any *)
(* two disk operations: die() is called by every failed download, by the   *)
(* ESC key and by disk errors, it exits at once, and nothing is undone.    *)
(* Each action below is therefore one disk operation of a command, and Die *)
(* is possible wherever the program waits for the network.                 *)
(*                                                                         *)
(* A path is the tuple of its names below the root of the drive: A:\VI\DOC *)
(* is <<"VI", "DOC">>.  The bytes of a file are abstracted to who wrote it *)
(* and whether all of it was written; a download is one step that begins   *)
(* the file and one that ends it (modules of the HTTP client model what    *)
(* happens in between).                                                    *)
(***************************************************************************)
EXTENDS Naturals, SequencesExt

CONSTANTS
  Packages,      \* package names
  User,          \* the person at the keyboard, the author of foreign files
  Paths,         \* the paths of the drive that matter
  DefaultDir,    \* package -> installation directory the server names
  GivenDirs,     \* directories a user may name as INSTALLDIR
  Pages,         \* package -> pages of its file list, each a sequence of
                 \*   paths relative to the installation directory
  NamePrefix,    \* pairs <<m, n>> of names, m a proper prefix of n as text
  UserPaths,     \* where the user may save files of his own
  Deletable,     \* the paths he may delete between commands
  InitialDirs,   \* directories that exist before hub is ever run
  MaxUndeleted,  \* rows of undeleted_directories[5]
  Faults         \* what the environment may do: "die" is a failed download
                 \*   or ESC, "unlink" an undeletable file, "retry" a directory
                 \*   that cannot be deleted at the second attempt, whose error
                 \*   uninstall() ignores, "power" a reset of the computer,
                 \*   "entry" a failed create and "write" a failed write, whose
                 \*   error codes install() ignores

NoArg == <<>>                      \* command line without INSTALLDIR
InstallDirs == GivenDirs \cup {DefaultDir[p] : p \in Packages}

ASSUME ConstantsAssumption ==
  /\ User \notin Packages
  /\ NoArg \notin Paths
  /\ InstallDirs \cup UserPaths \subseteq Paths
  /\ DefaultDir \in [Packages -> Paths]
  /\ MaxUndeleted \in Nat

\* A path has at least one name, and the directories there are at first are in
\* directories.
ASSUME PathsAssumption ==
  /\ \A x \in Paths : x \in Seq(ToSet(x)) /\ Len(x) \in Nat \ {0}
  /\ \A x \in InitialDirs : \A i \in 1..Len(x) - 1 :
       SubSeq(x, 1, i) \in InitialDirs \cap Paths

\* The server's lists: every line is a sequence of at least one name, and
\* everything install() may create is a path of the drive.
ASSUME ListingAssumption ==
  \A p \in Packages :
    /\ Len(Pages[p]) \in Nat
    /\ \A n \in 1..Len(Pages[p]) :
         /\ Len(Pages[p][n]) \in Nat
         /\ \A k \in 1..Len(Pages[p][n]) :
              /\ Pages[p][n][k] \in Seq(ToSet(Pages[p][n][k]))
              /\ Len(Pages[p][n][k]) \in Nat \ {0}
              /\ \A d \in InstallDirs : \A i \in 1..Len(Pages[p][n][k]) :
                   d \o SubSeq(Pages[p][n][k], 1, i) \in Paths

VARIABLES
  disk,        \* what each path is: nothing, a directory or a file
  entries,     \* packages that have a file in CONFIG\IDB
  record,      \* the lines of each such file
  pc,          \* the point a command has reached
  pkg,         \* package of the command
  installdir,  \* local of install()
  page,        \* n + 1 in the loop over pages
  line,        \* index of the current line of the page
  sub,         \* components of the line the loop over '\\' has passed
  created,     \* created_dirs
  made,        \* history: the directories this install() really created
  todo,        \* lines of the entry uninstall() has still to read
  undeleted,   \* undeleted_directories
  upgrading    \* uninstall() was called by upgrade()

database == <<entries, record>>
installVars == <<installdir, page, line, sub, created, made>>
uninstallVars == <<todo, undeleted, upgrading>>
vars == <<disk, database, pc, pkg, installVars, uninstallVars>>

-----------------------------------------------------------------------------
(* The disk, as the MSX-DOS calls made by hub change it.                   *)

Nothing == [kind |-> "none", by |-> User, whole |-> FALSE]
Directory(who) == [kind |-> "dir", by |-> who, whole |-> TRUE]
File(who, whole) == [kind |-> "file", by |-> who, whole |-> whole]

Node == [kind : {"none", "dir", "file"}, by : Packages \cup {User}, whole : BOOLEAN]

IsFile(x) == disk[x].kind = "file"
IsDir(x)  == disk[x].kind = "dir"
Exists(x) == disk[x].kind # "none"

\* The root directory always exists and is not in Paths.
InDirectory(x) == Len(x) = 1 \/ (Front(x) \in Paths /\ IsDir(Front(x)))

Below(x) == {y \in Paths : IsStrictPrefix(x, y) /\ Exists(y)}

\* create() with ATTR_DIRECTORY succeeds; an existing directory is DIRX,
\* anything else another error.
MayMakeDir(x) == ~Exists(x) /\ InDirectory(x)

\* create() of a plain file; an existing file is replaced.
MayCreate(x) == ~IsDir(x) /\ InDirectory(x)

\* delete_file(): a directory must be empty, else error 0xD0.
NotEmpty(x) == IsDir(x) /\ Below(x) # {}

-----------------------------------------------------------------------------
(* The file list the server gives for the package of the command.          *)

Line == Pages[pkg][page][line]
At(i) == installdir \o SubSeq(Line, 1, i)
Target == At(Len(Line))

\* strstr(created_dirs, path) finds path inside an entry of the list: the
\* drive name occurs only at the start of an entry, so path is a prefix of the
\* entry's text, either of whole components or with its last name cut short.
TextPrefix(x, y) ==
  /\ Len(x) <= Len(y)
  /\ SubSeq(x, 1, Len(x) - 1) = SubSeq(y, 1, Len(x) - 1)
  /\ x[Len(x)] = y[Len(x)] \/ <<x[Len(x)], y[Len(x)]>> \in NamePrefix

\* Mutant: the arguments of strstr swapped.
InCreated_Swapped(x) == \E k \in 1..Len(created) : TextPrefix(created[k], x)

InCreated(x) == \E k \in 1..Len(created) : TextPrefix(x, created[k])

-----------------------------------------------------------------------------
Init ==
  /\ disk = [x \in Paths |-> IF x \in InitialDirs THEN Directory(User) ELSE Nothing]
  /\ entries = {}
  /\ record = [p \in Packages |-> <<>>]
  /\ pc = "prompt"
  /\ pkg \in Packages
  /\ installdir = NoArg /\ page = 0 /\ line = 0 /\ sub = 0
  /\ created = <<>> /\ made = {}
  /\ todo = <<>> /\ undeleted = <<>> /\ upgrading = FALSE

\* Return to the command prompt: locals vanish, MSX-DOS closes open files.
EndCommand ==
  /\ pc' = "prompt"
  /\ installdir' = NoArg /\ page' = 0 /\ line' = 0 /\ sub' = 0
  /\ created' = <<>> /\ made' = {}
  /\ todo' = <<>> /\ undeleted' = <<>> /\ upgrading' = FALSE
  /\ UNCHANGED pkg

Goto(label) == pc' = label /\ UNCHANGED pkg

-----------------------------------------------------------------------------
(* install()                                                               *)

\* Mutant: is_installed() does not find the entry.
IsInstalled_Never(p) == FALSE

IsInstalled(p) == p \in entries

\* The checks at the head of install(): a package with an entry is refused, and
\* read_config() or init_unapi() may find no configuration or no network.
StartInstall(p, dir) ==
  /\ pc = "prompt"
  /\ pkg' = p
  /\ \/ /\ IsInstalled(p) \/ "die" \in Faults
        /\ UNCHANGED <<pc, installdir>>
     \/ /\ ~IsInstalled(p)
        /\ pc' = IF dir = NoArg THEN "getdir" ELSE "mkdir"
        /\ installdir' = dir
  /\ UNCHANGED <<disk, database, page, line, sub, created, made, uninstallVars>>

\* The server names the installation directory.
GetInstallDir ==
  /\ pc = "getdir"
  /\ installdir' = DefaultDir[pkg]
  /\ Goto("mkdir")
  /\ UNCHANGED <<disk, database, page, line, sub, created, made, uninstallVars>>

\* An existing directory is used if the user answers y; any other error dies.
MakeInstallDir ==
  /\ pc = "mkdir"
  /\ \/ /\ MayMakeDir(installdir)
        /\ disk' = [disk EXCEPT ![installdir] = Directory(pkg)]
        /\ Goto("entry")
        /\ UNCHANGED <<installVars, uninstallVars>>
     \/ /\ IsDir(installdir)
        /\ \E yes \in BOOLEAN :
             IF yes
             THEN Goto("entry") /\ UNCHANGED <<installVars, uninstallVars>>
             ELSE EndCommand
        /\ UNCHANGED disk
     \/ /\ ~MayMakeDir(installdir) /\ ~IsDir(installdir)
        /\ EndCommand
        /\ UNCHANGED disk
  /\ UNCHANGED database

\* The entry is created, empty, before anything is downloaded.  The handle is
\* not checked: if create() fails, the writes to it fail as well.
OpenEntry ==
  /\ pc = "entry"
  /\ \/ /\ entries' = entries \cup {pkg}
        /\ record' = [record EXCEPT ![pkg] = <<>>]
     \/ "entry" \in Faults /\ UNCHANGED database
  /\ Goto("pages")
  /\ UNCHANGED <<disk, installVars, uninstallVars>>

\* One line is written to the entry.
WriteLine(x) ==
  \/ /\ pkg \in entries
     /\ record' = [record EXCEPT ![pkg] = Append(@, x)]
  \/ /\ pkg \notin entries \/ "write" \in Faults
     /\ UNCHANGED record

\* The number of pages is fetched and created_dirs emptied.
GetPages ==
  /\ pc = "pages"
  /\ page' = 1
  /\ created' = <<>>
  /\ Goto("list")
  /\ UNCHANGED <<disk, database, installdir, line, sub, made, uninstallVars>>

GetList ==
  /\ pc = "list"
  /\ page <= Len(Pages[pkg])
  /\ line' = 1
  /\ sub' = 0
  /\ Goto("line")
  /\ UNCHANGED <<disk, database, installdir, page, created, made, uninstallVars>>

\* Mutant: the loop over pages stops one early.
EndOfPages_Early ==
  /\ pc = "list"
  /\ page >= Len(Pages[pkg])
  /\ Goto("store")
  /\ UNCHANGED <<disk, database, installVars, uninstallVars>>

EndOfPages ==
  /\ pc = "list"
  /\ page > Len(Pages[pkg])
  /\ Goto("store")
  /\ UNCHANGED <<disk, database, installVars, uninstallVars>>

\* Mutant: the page counter is not advanced.
EndOfList_SamePage ==
  /\ pc = "line"
  /\ line > Len(Pages[pkg][page])
  /\ Goto("list")
  /\ UNCHANGED <<disk, database, installVars, uninstallVars>>

EndOfList ==
  /\ pc = "line"
  /\ line > Len(Pages[pkg][page])
  /\ page' = page + 1
  /\ Goto("list")
  /\ UNCHANGED <<disk, database, installdir, line, sub, created, made, uninstallVars>>

\* Mutant: a directory that was there already is remembered as created.
MakeSubdir_Claims ==
  /\ pc = "line"
  /\ line <= Len(Pages[pkg][page])
  /\ sub + 1 < Len(Line)
  /\ LET dir == At(sub + 1) IN
     /\ MayMakeDir(dir) \/ IsDir(dir)
     /\ disk' = IF IsDir(dir) THEN disk ELSE [disk EXCEPT ![dir] = Directory(pkg)]
     /\ created' = IF InCreated(dir) THEN created ELSE Append(created, dir)
     /\ made' = made \cup {dir}
  /\ sub' = sub + 1
  /\ Goto("line")
  /\ UNCHANGED <<database, installdir, page, line, uninstallVars>>

\* One turn of the loop over the line's '\\': the directory up to it is created
\* and remembered, is there already, or cannot be created.
MakeSubdir ==
  /\ pc = "line"
  /\ line <= Len(Pages[pkg][page])
  /\ sub + 1 < Len(Line)
  /\ LET dir == At(sub + 1) IN
     \/ /\ MayMakeDir(dir)
        /\ disk' = [disk EXCEPT ![dir] = Directory(pkg)]
        /\ created' = IF InCreated(dir) THEN created ELSE Append(created, dir)
        /\ made' = made \cup {dir}
        /\ sub' = sub + 1
        /\ Goto("line")
        /\ UNCHANGED <<installdir, page, line, uninstallVars>>
     \/ /\ IsDir(dir)
        /\ sub' = sub + 1
        /\ Goto("line")
        /\ UNCHANGED <<disk, installdir, page, line, created, made, uninstallVars>>
     \/ /\ ~MayMakeDir(dir) /\ ~IsDir(dir)
        /\ EndCommand
        /\ UNCHANGED disk
  /\ UNCHANGED database

AtFile == pc = "line" /\ line <= Len(Pages[pkg][page]) /\ sub + 1 >= Len(Line)

\* http_get_content() has the headers of the file and creates it.
BeginFile ==
  /\ AtFile
  /\ \/ /\ MayCreate(Target)
        /\ disk' = [disk EXCEPT ![Target] = File(pkg, FALSE)]
        /\ Goto("body")
        /\ UNCHANGED <<installVars, uninstallVars>>
     \/ /\ ~MayCreate(Target)
        /\ EndCommand
        /\ UNCHANGED disk
  /\ UNCHANGED database

\* The body is received and the file closed; failed writes go unnoticed.
EndFile ==
  /\ pc = "body"
  /\ \/ disk' = [disk EXCEPT ![Target] = File(pkg, TRUE)]
     \/ "write" \in Faults /\ UNCHANGED disk
  /\ Goto("record")
  /\ UNCHANGED <<database, installVars, uninstallVars>>

\* Mutant: the name is recorded without the installation directory.
RecordFile_Relative ==
  /\ pc = "record"
  /\ WriteLine(Line)
  /\ line' = line + 1
  /\ sub' = 0
  /\ Goto("line")
  /\ UNCHANGED <<disk, entries, installdir, page, created, made, uninstallVars>>

\* The file is recorded in the entry and the next line taken.
RecordFile ==
  /\ pc = "record"
  /\ WriteLine(Target)
  /\ line' = line + 1
  /\ sub' = 0
  /\ Goto("line")
  /\ UNCHANGED <<disk, entries, installdir, page, created, made, uninstallVars>>

\* After the files, the directories created are recorded one by one.
StoreDir ==
  /\ pc = "store"
  /\ created # <<>>
  /\ WriteLine(Head(created))
  /\ created' = Tail(created)
  /\ Goto("store")
  /\ UNCHANGED <<disk, entries, installdir, page, line, sub, made, uninstallVars>>

\* Last the installation directory, whoever created it; then "Done!".
StoreInstallDir ==
  /\ pc = "store"
  /\ created = <<>>
  /\ WriteLine(installdir)
  /\ EndCommand
  /\ UNCHANGED <<disk, entries>>

-----------------------------------------------------------------------------
(* uninstall() and upgrade()                                               *)

\* The entry is opened; a package without one is refused.
StartUninstall(p, isUpgrade) ==
  /\ pc = "prompt"
  /\ pkg' = p
  /\ IF p \notin entries
     THEN UNCHANGED <<pc, todo, upgrading>>
     ELSE pc' = "unlink" /\ todo' = record[p] /\ upgrading' = isUpgrade
  /\ UNCHANGED <<disk, database, installVars, undeleted>>

Deleted(x) == [disk EXCEPT ![x] = Nothing]

\* Mutant: one directory fewer can be put off.
Room_OneFewer == Len(undeleted) + 1 < MaxUndeleted

\* There is room in undeleted_directories.
Room == Len(undeleted) < MaxUndeleted

\* Mutant: what delete_file() returns is not looked at.
Unlink_PassesOver ==
  /\ pc = "unlink"
  /\ todo # <<>>
  /\ \/ ~NotEmpty(Head(todo)) /\ disk' = Deleted(Head(todo))
     \/ (NotEmpty(Head(todo)) \/ "unlink" \in Faults) /\ UNCHANGED disk
  /\ todo' = Tail(todo)
  /\ Goto("unlink")
  /\ UNCHANGED <<database, installVars, undeleted, upgrading>>

\* One line of the entry: the path is deleted or was missing already, a
\* directory that is not empty is put off (if there is room to remember it),
\* and any other error dies.  One such error is a missing parent directory,
\* for which MSX-DOS has a code of its own (0xD6, not the 0xD7 tested for).
Unlink ==
  /\ pc = "unlink"
  /\ todo # <<>>
  /\ LET x == Head(todo) IN
     \/ /\ InDirectory(x) /\ ~NotEmpty(x)
        /\ disk' = Deleted(x)
        /\ todo' = Tail(todo)
        /\ Goto("unlink")
        /\ UNCHANGED <<installVars, undeleted, upgrading>>
     \/ /\ NotEmpty(x)
        /\ undeleted' = IF Room THEN Append(undeleted, x) ELSE undeleted
        /\ todo' = Tail(todo)
        /\ Goto("unlink")
        /\ UNCHANGED <<disk, installVars, upgrading>>
     \/ /\ ~InDirectory(x)
        /\ EndCommand
        /\ UNCHANGED disk
  /\ UNCHANGED database

\* Mutant: the last line of the entry is not seen.
EndOfEntry_LastLine ==
  /\ pc = "unlink"
  /\ Len(todo) <= 1
  /\ Goto("retry")
  /\ UNCHANGED <<disk, database, installVars, uninstallVars>>

EndOfEntry ==
  /\ pc = "unlink"
  /\ todo = <<>>
  /\ Goto("retry")
  /\ UNCHANGED <<disk, database, installVars, uninstallVars>>

\* The second loop tries each directory put off once more.  That it is still not
\* empty is said, any other error is not even that, and the loop goes on.
RetryDir ==
  /\ pc = "retry"
  /\ undeleted # <<>>
  /\ \/ ~NotEmpty(Head(undeleted)) /\ disk' = Deleted(Head(undeleted))
     \/ (NotEmpty(Head(undeleted)) \/ "retry" \in Faults) /\ UNCHANGED disk
  /\ undeleted' = Tail(undeleted)
  /\ Goto("retry")
  /\ UNCHANGED <<database, installVars, todo, upgrading>>

\* Mutant: an upgrade leaves the old entry to be overwritten.
DropEntry_UpgradeKeeps ==
  /\ pc = "retry"
  /\ undeleted = <<>>
  /\ IF upgrading
     THEN /\ Goto("getdir")
          /\ upgrading' = FALSE
          /\ UNCHANGED <<database, installVars, todo, undeleted>>
     ELSE /\ entries' = entries \ {pkg}
          /\ record' = [record EXCEPT ![pkg] = <<>>]
          /\ EndCommand
  /\ UNCHANGED disk

\* The entry itself goes last; upgrade() continues with install(package, "").
DropEntry ==
  /\ pc = "retry"
  /\ undeleted = <<>>
  /\ entries' = entries \ {pkg}
  /\ record' = [record EXCEPT ![pkg] = <<>>]
  /\ IF upgrading
     THEN /\ Goto("getdir")
          /\ upgrading' = FALSE
          /\ UNCHANGED <<installVars, todo, undeleted>>
     ELSE EndCommand
  /\ UNCHANGED disk

-----------------------------------------------------------------------------
(* The environment                                                         *)

\* Points where the program waits for the network: a failed request, a
\* timeout or the ESC key ends it there.
Waiting ==
  \/ pc \in {"getdir", "pages", "body"}
  \/ pc = "list" /\ page <= Len(Pages[pkg])
  \/ AtFile

\* Points where uninstall() checks the result of delete_file().
Deleting ==
  \/ pc = "unlink" /\ todo # <<>>
  \/ pc = "retry" /\ undeleted = <<>>

\* die() prints and exits; the disk stays as it is.
Die ==
  /\ \/ "die" \in Faults /\ Waiting
     \/ "unlink" \in Faults /\ Deleting
  /\ EndCommand
  /\ UNCHANGED <<disk, database>>

\* install() has the entry open: its lines may still be in MSX-DOS buffers.
EntryOpen == pkg \in entries /\ pc \in {"pages", "list", "line", "body", "record", "store"}

\* The computer is reset: an open entry keeps any part of what was written.
PowerOff ==
  /\ "power" \in Faults
  /\ pc # "prompt"
  /\ IF EntryOpen
     THEN \E k \in 0..Len(record[pkg]) :
            record' = [record EXCEPT ![pkg] = SubSeq(@, 1, k)]
     ELSE UNCHANGED record
  /\ EndCommand
  /\ UNCHANGED <<disk, entries>>

\* Between commands the user saves files of his own, and deletes files and
\* empty directories.
UserSave(x) ==
  /\ pc = "prompt"
  /\ MayCreate(x)
  /\ disk' = [disk EXCEPT ![x] = File(User, TRUE)]
  /\ UNCHANGED <<database, pc, pkg, installVars, uninstallVars>>

UserDelete(x) ==
  /\ pc = "prompt"
  /\ Exists(x) /\ ~NotEmpty(x)
  /\ disk' = Deleted(x)
  /\ UNCHANGED <<database, pc, pkg, installVars, uninstallVars>>

-----------------------------------------------------------------------------
Install ==
  \/ GetInstallDir \/ MakeInstallDir \/ OpenEntry \/ GetPages
  \/ GetList \/ EndOfPages \/ EndOfList
  \/ MakeSubdir \/ BeginFile \/ EndFile \/ RecordFile
  \/ StoreDir \/ StoreInstallDir

Uninstall == Unlink \/ EndOfEntry \/ RetryDir \/ DropEntry

Command ==
  \E p \in Packages :
    \/ \E dir \in GivenDirs \cup {NoArg} : StartInstall(p, dir)
    \/ \E isUpgrade \in BOOLEAN : StartUninstall(p, isUpgrade)

UserStep == (\E x \in UserPaths : UserSave(x)) \/ (\E x \in Deletable : UserDelete(x))

Next == Command \/ Install \/ Uninstall \/ Die \/ PowerOff \/ UserStep

\* A command that can go on does go on: MSX-DOS runs nothing else, and a
\* network call returns data, an error or a timeout.
Fairness == WF_vars(Install \/ Uninstall)

Spec == Init /\ [][Next]_vars /\ Fairness
-----------------------------------------------------------------------------
(* Properties                                                              *)

\* Every variable has its type.
TypeOK ==
  /\ disk \in [Paths -> Node]
  /\ entries \subseteq Packages
  /\ record \in [Packages -> Seq(Paths)]
  /\ pc \in {"prompt", "getdir", "mkdir", "entry", "pages", "list", "line",
             "body", "record", "store", "unlink", "retry"}
  /\ pkg \in Packages
  /\ installdir \in InstallDirs \cup {NoArg}
  /\ page \in Nat /\ line \in Nat /\ sub \in Nat
  /\ created \in Seq(Paths)
  /\ made \subseteq Paths
  /\ todo \in Seq(Paths)
  /\ undeleted \in Seq(Paths)
  /\ upgrading \in BOOLEAN

\* No file is lost: whatever command died before, a file that hub downloaded
\* completely is listed in the entry of its package, so that uninstall will
\* find it.  Only the file just downloaded is not listed yet.
FilesAccounted ==
  \A x \in Paths : \A p \in Packages :
    /\ disk[x] = File(p, TRUE)
    /\ ~(pc = "record" /\ p = pkg /\ x = Target)
    => p \in entries /\ x \in ToSet(record[p])

\* uninstall deletes the files of its own package only, and of directories
\* only such as an install made (this is what created_dirs is kept for) and
\* the installation directory, which it deletes whoever made it.  This needs
\* that no other package lists the file and the user did not replace it.
OwnNodesOnly ==
  [][\A x \in Paths :
       pc # "prompt" /\ Exists(x) /\ disk'[x].kind = "none" =>
         \/ IsFile(x) /\ disk[x].by = pkg
         \/ IsDir(x) /\ (disk[x].by # User \/ x \in InstallDirs)]_vars

\* When hub says "Done!" all files of all pages are there, whole, and listed.
InstallComplete ==
  [][StoreInstallDir =>
       \A n \in 1..Len(Pages[pkg]) : \A k \in 1..Len(Pages[pkg][n]) :
         LET x == installdir \o Pages[pkg][n][k] IN
           disk[x] = File(pkg, TRUE) /\ x \in ToSet(record'[pkg])]_vars

\* When hub says "Done!" the entry lists every directory this install made
\* ("After the files, store created directories in IDB").
CreatedDirsStored ==
  [][StoreInstallDir => made \subseteq ToSet(record'[pkg])]_vars

\* When uninstall drops the entry, the only paths of it still on the disk are
\* directories with something in them that the entry does not list.  One retry
\* is enough for this as long as directories made by install() are not three
\* levels deep in the installation directory, and the retry of an empty one does
\* not fail: uninstall() would not notice.
UninstallClears ==
  pc = "retry" /\ undeleted = <<>> =>
    \A x \in ToSet(record[pkg]) :
      Exists(x) => Below(x) \ ToSet(record[pkg]) # {}

\* Whatever fails, in this command or before it, no file listed in the entry is
\* on the disk when uninstall drops it: directories may be left, files not.
FilesCleared ==
  pc = "retry" /\ undeleted = <<>> => \A x \in ToSet(record[pkg]) : ~IsFile(x)

\* Every command returns to the prompt.
CommandReturns == pc # "prompt" ~> pc = "prompt"

\* The installation directory is the last line install() writes to an entry,
\* so it tells a completed install from one that died.
Complete(p) == record[p] # <<>> /\ Last(record[p]) \in InstallDirs

\* What the entries tell of each package, and the command that is running.
Registered ==
  [p \in Packages |-> IF p \notin entries THEN "absent"
                      ELSE IF Complete(p) THEN "installed" ELSE "partial"]

Running ==
  IF pc = "prompt" THEN [op |-> "none"]
  ELSE [op |-> IF pc \notin {"unlink", "retry"} THEN "install"
               ELSE IF upgrading THEN "upgrade" ELSE "remove",
        pkg |-> pkg]

\* The database of entries is the registry of PackageRegistry: each command
\* is one of its jobs and each step one of its steps, or a stutter.
Registry == INSTANCE PackageRegistry WITH state <- Registered, job <- Running

ImplementsRegistry == Registry!Spec
=============================================================================
