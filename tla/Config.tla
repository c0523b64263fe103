------------------------------- MODULE Config -------------------------------
(***************************************************************************)
(* The configuration of src/hub.c, two files made by hub configure, and    *)
(* the commands up to the point where they use what read_config() found:   *)
(* install asks a server and has a directory to install in, the others ask *)
(* a server or look into the database of installed packages.               *)
(*                                                                         *)
(* What is in a file, an environment variable or a string is a sequence of *)
(* tokens, the last of which stands for the last character.                *)
(***************************************************************************)
EXTENDS Naturals, SequencesExt

CONSTANTS
  Variables,  \* values the user gives the environment variables: functions
              \*   from Files to strings, <<>> for a variable that is not set
  Urls,       \* URLs given to hub get
  Faults      \* what may go wrong: "reset" the computer is switched off,
              \*   "full" the disk is full, "dos" a directory or a file cannot
              \*   be made

Files == {"PROGSDIR", "BASEURL"}
ASSUME ConfigAssumption == \A v \in Variables : DOMAIN v = Files

EndOfFile == "0x1a"

\* What configure() saves.
Default == [PROGSDIR |-> <<"A", ":">>, BASEURL |-> <<"http://", "api.msxhub.com", "/">>]

\* The path of a configuration file.
Path(file) == <<"A", ":", "\\HUB\\CONFIG\\", file>>

VARIABLES
  todo,        \* the steps left of the command that is running
  dirs,        \* which of the directories of hub there are
  disk,        \* the configuration files there are, as stored
  env,         \* the environment variables
  entry,       \* the package has an entry in the database
  buffer,      \* what has been written to the file being saved
  lost,        \* history: something written was lost, the disk being full
  said,        \* "Done! MSXHub configured properly."
  progsdir, baseurl,
  installdir,  \* history: where install() has begun to install, or <<>>
  asked        \* history: the URL the server's name was taken from, or <<>>

saved == <<dirs, disk, entry>>
writing == <<buffer, lost, said>>
memory == <<progsdir, baseurl, installdir, asked>>
vars == <<todo, saved, env, writing, memory>>

Nowhere == <<>>

Init ==
  /\ todo = <<>>
  /\ dirs = {} /\ disk = [file \in {} |-> <<>>] /\ entry = FALSE
  /\ env \in Variables
  /\ buffer = <<>> /\ lost = FALSE /\ said = FALSE
  /\ progsdir = <<>> /\ baseurl = <<>> /\ installdir = Nowhere /\ asked = Nowhere

-----------------------------------------------------------------------------
(* Commands                                                                *)

\* Mutant: the database is made last.
Configure_DatabaseLast ==
  << <<"make", "hub">>, <<"make", "config">>,
     <<"create", "PROGSDIR">>, <<"write", "PROGSDIR">>, <<"close", "PROGSDIR">>,
     <<"create", "BASEURL">>, <<"write", "BASEURL">>, <<"close", "BASEURL">>,
     <<"make", "idb">>, <<"say", "done">> >>

\* The steps of configure()
Configure ==
  << <<"make", "hub">>, <<"make", "config">>, <<"make", "idb">>,
     <<"create", "PROGSDIR">>, <<"write", "PROGSDIR">>, <<"close", "PROGSDIR">>,
     <<"create", "BASEURL">>, <<"write", "BASEURL">>, <<"close", "BASEURL">>,
     <<"say", "done">> >>

Install == << <<"entry", "absent">>, <<"read", "config">>, <<"parse", "baseurl">>, <<"begin", "install">> >>
Uninstall == << <<"entry", "present">> >>

\* What main() calls, where they do not die of their arguments.  categories,
\* list, info and search are alike.
Commands == {Configure, Install, Uninstall, Uninstall \o Install,
             << <<"read", "config">>, <<"parse", "baseurl">> >>,
             << <<"read", "config">>, <<"parse", "argument">> >>,
             << <<"read", "config">>, <<"look", "database">> >>}

\* A command is given, and the environment may have been changed before.
Run ==
  /\ todo = <<>>
  /\ todo' \in Commands
  /\ env' \in Variables
  /\ progsdir' = <<>> /\ baseurl' = <<>> /\ installdir' = Nowhere /\ asked' = Nowhere
  /\ buffer' = <<>> /\ lost' = FALSE /\ said' = FALSE
  /\ UNCHANGED saved

At(step) == todo # <<>> /\ Head(todo) = step
Continue == todo' = Tail(todo)
Die == todo' = <<>>

-----------------------------------------------------------------------------
(* configure() and save_config()                                           *)

\* create() of the main directory, of that for the configuration, which the
\* user must confirm if it is there, and of the one for the database.
MakeDirectory ==
  \E dir \in {"hub", "config", "idb"} :
    /\ At(<<"make", dir>>)
    /\ \/ Continue /\ dirs' = dirs \cup {dir}
       \/ dir = "config" /\ dir \in dirs /\ Die /\ UNCHANGED dirs
       \/ "dos" \in Faults /\ Die /\ UNCHANGED dirs
    /\ UNCHANGED <<disk, entry, env, writing, memory>>

\* The files when one holds contents
With(file, contents) ==
  [f \in DOMAIN disk \cup {file} |-> IF f = file THEN contents ELSE disk[f]]

\* create() of a configuration file, which empties it if it is there
CreateFile ==
  \E file \in Files :
    /\ At(<<"create", file>>)
    /\ \/ Continue /\ disk' = With(file, <<>>)
       \/ "dos" \in Faults /\ Die /\ UNCHANGED disk
    /\ buffer' = <<>>
    /\ UNCHANGED <<dirs, entry, env, lost, said, memory>>

Contents(file) == Append(Default[file], EndOfFile)

\* The two calls of write(), whose results are not looked at.  A full disk has
\* no room for the first byte, and for none after it.
WriteFile ==
  \E file \in Files :
    /\ At(<<"write", file>>)
    /\ Continue
    /\ \/ buffer' = Contents(file) /\ UNCHANGED lost
       \/ "full" \in Faults /\ lost' = TRUE /\ UNCHANGED buffer
    /\ UNCHANGED <<saved, env, said, memory>>

\* Mutant: the file is not closed.
CloseFile_Not ==
  \E file \in Files :
    /\ At(<<"close", file>>)
    /\ Continue
    /\ UNCHANGED <<saved, env, writing, memory>>

\* close(), with which the length of the file gets on the disk
CloseFile ==
  \E file \in Files :
    /\ At(<<"close", file>>)
    /\ Continue
    /\ disk' = With(file, buffer)
    /\ UNCHANGED <<dirs, entry, env, writing, memory>>

SayDone ==
  /\ At(<<"say", "done">>)
  /\ Continue
  /\ said' = TRUE
  /\ UNCHANGED <<saved, env, buffer, lost, memory>>

-----------------------------------------------------------------------------
(* get_config() and read_config()                                          *)

\* The last character read is replaced by the end of the string.  From an empty
\* file nothing is read, and the buffer still holds its path.
FromFile(file) == IF disk[file] = <<>> THEN Path(file) ELSE Front(disk[file])

\* Variables go before files.
Found(file) == env[file] # <<>> \/ file \in DOMAIN disk

\* Mutant: files go before variables.
get_config_FileFirst(file) == IF file \in DOMAIN disk THEN FromFile(file) ELSE env[file]

get_config(file) == IF env[file] # <<>> THEN env[file] ELSE FromFile(file)

ReadConfig ==
  /\ At(<<"read", "config">>)
  /\ IF \A file \in Files : Found(file)
     THEN /\ Continue
          /\ progsdir' = get_config("PROGSDIR")
          /\ baseurl' = get_config("BASEURL")
     ELSE Die /\ UNCHANGED <<progsdir, baseurl>>
  /\ UNCHANGED <<saved, env, writing, installdir, asked>>

-----------------------------------------------------------------------------
(* What the commands do with it                                            *)

\* What parse_url() does not die of
Supported(string) == string # <<>> /\ Head(string) \in {"http://", "/"}

\* init_unapi() and parse_url(); the server is asked.
Parse(url) ==
  /\ IF Supported(url) THEN Continue /\ asked' = url ELSE Die /\ UNCHANGED asked
  /\ UNCHANGED <<saved, env, writing, progsdir, baseurl, installdir>>

Ask ==
  \/ At(<<"parse", "baseurl">>) /\ Parse(baseurl)
  \/ At(<<"parse", "argument">>) /\ \E url \in Urls : Parse(url)

\* is_installed(), or open() of the entry and all of uninstall()
CheckEntry ==
  /\ \/ /\ At(<<"entry", "absent">>)
        /\ IF entry THEN Die ELSE Continue
        /\ UNCHANGED entry
     \/ /\ At(<<"entry", "present">>)
        /\ IF entry THEN Continue ELSE Die
        /\ entry' = FALSE
  /\ UNCHANGED <<dirs, disk, env, writing, memory>>

LookIntoDatabase ==
  /\ At(<<"look", "database">>)
  /\ Continue
  /\ UNCHANGED <<saved, env, writing, memory>>

\* There is no directory below a file.
BelowFile(dir) == \E file \in DOMAIN disk : dir = Path(file)

\* install() makes the directory, below PROGSDIR or the one it was given, and
\* an entry: that there is no database is not noticed.
BeginInstall ==
  /\ At(<<"begin", "install">>)
  /\ \E dir \in {progsdir, <<"C", ":">>} :
       IF BelowFile(dir)
       THEN Die /\ UNCHANGED <<entry, installdir>>
       ELSE /\ Continue
            /\ installdir' = dir
            /\ entry' = ("idb" \in dirs)
  /\ UNCHANGED <<dirs, disk, env, writing, progsdir, baseurl, asked>>

\* The computer is switched off: a file that was open is as it was created.
Reset ==
  /\ "reset" \in Faults
  /\ todo # <<>>
  /\ Die
  /\ UNCHANGED <<saved, env, writing, memory>>

Next ==
  \/ Run
  \/ MakeDirectory \/ CreateFile \/ WriteFile \/ CloseFile \/ SayDone
  \/ ReadConfig \/ Ask \/ CheckEntry \/ LookIntoDatabase \/ BeginInstall
  \/ Reset

Spec == Init /\ [][Next]_vars

-----------------------------------------------------------------------------
(* Properties                                                              *)

\* What hub is configured to: a variable, else what configure() saves
Meant(file) == IF env[file] # <<>> THEN env[file] ELSE Default[file]

\* install() installs below the directory configured or given, and a server is
\* asked only if it is the one configured or that of an URL given to hub get:
\* neither is ever made of what an interrupted or failed configure left in a
\* file.
UsesConfigured ==
  /\ installdir # Nowhere => installdir \in {Meant("PROGSDIR"), <<"C", ":">>}
  /\ asked # Nowhere => asked \in {Meant("BASEURL")} \cup Urls

\* Who has got past read_config() finds the database of installed packages, at
\* whatever point an earlier configure was interrupted, unless the environment
\* alone configures hub.
DatabaseReady ==
  progsdir # <<>> => "idb" \in dirs \/ \A file \in Files : env[file] # <<>>

\* When hub says that it is configured, both files hold what it will read,
\* unless the disk was full.
DoneIsConfigured ==
  said /\ ~lost => \A file \in Files : file \in DOMAIN disk /\ FromFile(file) = Default[file]
=============================================================================
