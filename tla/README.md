# A TLA+ model of MSXHub

MSXHub (`hub.com`) is a package manager for MSX computers: it downloads
packages over HTTP and keeps a database of what it installed.  It is written in
C for MSX-DOS 2 and an UNAPI TCP/IP stack.  This directory holds TLA+
specifications of it, TLC configurations that check them on small instances,
and proofs for the TLA+ proof system.  Line numbers are those of
`src/src/hub.c` unless another file is named.

## The system

| Part | State it keeps | Operations | Talks to |
|---|---|---|---|
| Package manager: `install` 1149, `uninstall` 1348, `upgrade` 1447 | the files it puts on the disk; the database `CONFIG\IDB`, one text file (an *entry*) per package; locals such as `created_dirs` and `undeleted_directories` | install, uninstall, upgrade | HTTP client (every list and file is one `http_get_content()`), MSX-DOS |
| HTTP session: `http_send` 390, redirects and the end of `http_get_content` 654 | connection number, `keepingconnectionalive`, `continue_using_keep_alive`, `keepalivehostname`, `trykeepalive`, `remote_ip` | request, redirect, retry on a new connection, keep or close | UNAPI TCP/IP, servers |
| HTTP transfer: `http_get_headers` 522, `tcp_get_databyte` 597, `http_get_databyte` 615, loops of `http_get_content` 715 | `data_buffer`, `headers_info` | read headers, take a body to a file, the variable or the screen | `tcp_get`, MSX-DOS files |
| TCP/IP calls: `init_unapi` 358, 103-323 | UNAPI registers, timers; the connections the stack has | query, connect, send, receive, close | UNAPI |
| Configuration: `configure` 1452, `save_config` 991, `get_config` 1016, `read_config` 1049 | directories of hub, `CONFIG\PROGSDIR`, `CONFIG\BASEURL`, environment variables | create, read | MSX-DOS |
| Helpers: `parse_url` 1058, `hexstr2ul` 889, `trim` 863, `strcicmp`, `include/morestr.c` | none | pure functions | - |
| Progress bar: 800-839 | block, bar and counters | divide, draw | transfer |
| Read-only commands: `list`, `search`, `info`, `categories`, `installed`, `get`, `help`, `version` | none | one request or one directory listing each | HTTP client, MSX-DOS |
| Not part of the model: assembler library, C runtime, Base64, `serv.py`, `boot.tcl`, disk image | | | |

MSX-DOS runs one program at a time, so no two commands interleave; the TCP/IP
stack, the system timer, the servers and the user go on beside it.  The hard
behaviours are these:

* **A command may stop anywhere.**  `die()` (949) is called for every failed
  request, timeout, disk error and the ESC key.  It exits at once; nothing is
  undone, no connection is closed.  The computer may also be reset while the
  entry or a configuration file is open.
* **The disk changes between commands**: the user saves and deletes files, and
  packages share directories.
* **TCP cuts the stream anywhere**, the peer closes a kept connection whenever
  it likes, servers redirect.
* **State is reused**: the receive buffer is filled over what it held, and the
  keep-alive flags, counters and the last address survive from one request to the next.
* **Waiting**: each call to the stack is repeated in a loop that looks at ESC
  and, in some, at the timer.
* **Fixed-size tables**: five directories put off, a variable of `maxdata`
  bytes, entries read in blocks, a few connections in the stack.

The file `PROJECT.json` lists these hazards at their lines with the properties about each.

## The modules

| Module | Models |
|---|---|
| `PackageRegistry` | what the package manager promises: packages are absent, partial or installed; one job at a time; every job ends |
| `Installer` | `install`, `uninstall`, `upgrade` on a disk and the database; implements `PackageRegistry` |
| `HttpFetch` | what `http_get_content` promises: for each request the whole contents or the end of the command |
| `HttpSession` | connections: reuse, retry, redirects |
| `HttpTransfer` | status, headers and bodies over a segmented stream |
| `HttpClient` | `HttpSession` and `HttpTransfer` together; implements `HttpFetch` |
| `Download` | the loop that takes a body to a file: timer, reserved length, progress bar |
| `TcpCalls` | the calls to the TCP/IP stack with their waiting loops, and its connections |
| `Config` | `configure`, `read_config` and what the commands do with the configuration |
| `Texts` | the parsers, and the two ends of a database entry |
| `MC...` | the instances TLC checks |
| `InstallerProofs`, `HttpSessionProofs`, `HttpTransferProofs`, `HttpClientProofs`, `TcpCallsProofs`, `DownloadProofs`, `ConfigProofs`, `TextsProofs` | theorems and proofs |

**Installer.**  A path is a tuple of names; `disk` tells for every path whether
it is nothing, a directory or a file, who made it and whether it is whole.
`entries` and `record` are `CONFIG\IDB`.  `pc` is the place a command has
reached, and every action is one disk operation of the code with what the code
does about its result: `MakeInstallDir` 1206, `OpenEntry` 1224, `GetPages` and
`GetList` 1232, `MakeSubdir` 1265 (one turn of the loop over backslashes, with
the `strstr` of 1285 as `InCreated`), `BeginFile`, `EndFile`, `RecordFile`
1293-1311, `StoreDir` 1319, `StoreInstallDir` 1336; `Unlink` 1393 (a line of
the entry), `RetryDir` 1426, `DropEntry` 1435, which in an upgrade goes on to
`install(package, "")`.  `Die` may end a command wherever it waits for the
network (and, with the fault `"unlink"`, where it deletes).  `RetryDir` is the
second attempt at a directory put off, of which `uninstall` only looks at one
error: with the fault `"retry"` it fails in silence.  A download is two
actions, `BeginFile` and `EndFile`, so that it can die in between; what happens
between them is the subject of the two HTTP modules.  What MSX-DOS does with a
path (`InDirectory`, `MayMakeDir`, `NotEmpty`) is modelled from the error codes
hub tests.  `made` is a history variable: the directories this install created.

The file names of a package are given by `Pages`; `NamePrefix` says which names
begin alike as text, which is all that `strstr` can tell apart.

**PackageRegistry** is the abstract specification.  `Installer` maps to it by
`state <- Registered`: absent without an entry, installed if the entry ends with an
installation directory (the last line `install()` writes), else partial; and
`job <- Running`: the running command.  `ImplementsRegistry` says that every behaviour of
`Installer` is one of `PackageRegistry`, liveness included.

**HttpSession.**  A connection is the server it reaches and whether the peer is
still there; `got` is the part of a request the peer has received.  `Check` is
the head of the loop in `http_send` (397-411), `Resolve` and `Open` are
`tcp_connect`, `SendLine` and `SendFails` one `tcp_send` and its error branch
(the same text after each line of the request: `continue` or `die`).
`Redirect`, `Refused` and `Accepted` are the three kinds of answers, and
`EndBody` is 787-793.

**HttpTransfer.**  A byte is a record; a header line is two bytes and CR LF, so
that it can be cut in the middle, which is all the code depends on.  `Receive`
overwrites the beginning of `data` and leaves the rest, as `TCP_RCV` does with
the buffer; `Ends` looks for a newline in all of `data`, since the loop at 539
does not look at `data_buffer->size`.  `WriteRest`, `Copy` and `EndCopy` are
the loop for a file (715-755), the other actions the loop by bytes (757-778)
with `tcp_get_databyte` and `http_get_databyte`.  Where the C code would read
or write outside of its buffer (a newline that never comes, null characters
read for ever) the model goes to `"lost"` and says no more.  `chunk_size--` for
the last chunk (642) is left out: `http_get_headers` sets the size again before
it is read.  Chunk extensions after `;` are left out.

`Kept` are the places of a line's bytes without the CRs, which is all that the
code copies to `header`; `Named` says that they are the two bytes of a name, and
`Value` is what follows it.  `ResponsesAssumption` says that servers send bytes.
`CanRead` says of a response that hub can take it in; no action depends on it,
the theorems about bodies assume it.

A first line that is no status 200 or redirect ends the command (`BadStatus`);
`Redirect` closes the connection, with whatever body the redirect has, and goes
to the location.

**HttpClient.**  The composition: the variables of both modules, `pc` of the
session and `tpc` of the transfer.  A step belongs to one of them, or to both
at once where `http_get_content()` goes over from one to the other: the last
line of a request is sent and the headers are awaited (`SendLine`), the empty
line is found (`Accept`), the answer refuses (`Refuse`) or redirects
(`Redirect`), the body ends (`EndBody`), the command dies.  `ServerAnswers` is
the server's side: it answers a request it has got whole, with one of the
responses of the *host the connection reaches* for the resource asked for.
`HttpFetch` is its abstract specification: its `Contents` of a resource are what
the hosts have that a request for it is to go to, which is the server hub asks and
those its redirects lead to (`Reached`), so that a request gone to another host, or
an answer taken for another, shows as wrong contents.  The
mapping gives `phase` (idle, asked or exit, from `pc`) and `content` (what the
destination holds when a transfer has ended).  `ImplementsFetch` includes
liveness: every request is delivered or fails.  It is the promise `Installer`
uses, where `http_get_content()` returns, or dies before or after the
destination was created.  `ClientAssumption` joins the assumptions of the two
modules and says that every server has something to serve.

**Download.**  The loop 715-755 for bodies of known length again, now with
numbers of bytes in place of bytes.  `Turn` is one turn of the loop,
`Ticked`, `Counted` and `Cleared` are the lines that count `n`; `Tick` and
`Arrive` happen between any two turns.  `ticks` is the distance of `SYSTIMER`
from `sys_timer_hold`, compared as the 16-bit values are.  `Draw` is
`progress_bar()`: the number of turns of its loop is `Turns`, in closed form.
`Preallocated` is the length the file gets from `preallocate()` (it seeks to
the last byte and writes it).  What `write()` returns is not looked at, here or in
`preallocate()`, so on a full disk `OpenFile` reserves less and `Write` stores any
part of its bytes: `stored` is where the file pointer has got to, `bytes_written` what hub
believes.  A screen of 36 columns has a bar of size 0, by
which `init_progress_bar` divides: any block may result.

**TcpCalls.**  `pc` is the call that hub is in, and an action one turn of its
loop.  `pool` has the state of each connection of the stack, `conn` is `*conn`.
`Connect`, `AwaitAnswer`, `Open` and `AwaitState` are `tcp_connect()` with
`getaddrinfo()`; `Send` and `SendTurn` (one piece), `SendEsc` and `SendError`
`tcp_send()`; `Get` and `AwaitData` `tcp_get()`.  `Aborted` and `Closed` are
`TCP_ABORT` and `TCP_CLOSE` as hub uses them, where number 0 stands for all
transient connections.  `Exit` may end a command at any place between two
calls and `Die` within one; `Start` begins the next, after other programs that
may have left connections open.  `handed` and `waited` are history variables.

**Config.**  Files, variables and URLs are sequences of tokens, the last of
which stands for the last character, since what goes wrong is a character at the
end (the `0x1a` that `get_config` cuts off) or a file that is empty.  A command
is a list of steps, `todo`, each a pair such as `<<"create", "BASEURL">>`, from which each action takes the first: what
`configure()` does in ten of them, and the others up to the point where they
have a server or a directory.  A file that has been written but not closed is
empty after a reset.

**Texts.**  Operators on sequences of characters, named as in the code.  The
state machine only types texts: TLC visits every text over a small alphabet up
to a length, and URLs put together from parts.  Each property compares what the
operators return with a definition of what it should be that does not go through
the code's steps.

The other modules are separate because they share little: a session does not
depend on what a body is, nor a transfer on how the connection came about, nor
either on how long a call waits.

## The runs

| Run | Instance | Shows |
|---|---|---|
| `Installer` | packages P (two pages, three files) and Q (one file), each in its own directory or both in `\P`, where they share a subdirectory; a directory and subdirectory that may exist before; a user who saves a file there and deletes anything between commands; downloads die anywhere | `TypeOK`, `FilesAccounted`, `UninstallClears`, `OwnNodesOnly`, `InstallComplete` |
| `InstallerFaults` | both packages in `\P`, every fault: dying, undeletable files, directories whose retried deletion fails, resets that lose lines, `create()` and `write()` that fail unnoticed | `FilesCleared`, `CommandReturns`, `ImplementsRegistry` |
| `InstallerTree` | one package with four nested directories; with the installation directory that makes the five that `uninstall` can put off | `UninstallClears`, `CreatedDirsStored` |
| `HttpSession` | two hosts, one with two ports; requests of three lines; ten redirects as in the code; the peer closes at any time, any network call fails | `TypeOK`, `RightHost`, `KeptToItsHost`, `WholeRequest`, `RequestEnds` |
| `HttpTransfer` | two responses on a connection that may be lost: with Content-Length (bodies of 0 and 4 bytes), cut between header lines and anywhere in the body, or of one chunk with the headers in one segment, a redirect with a body, a refusal; to each destination | `TypeOK`, `WholeBody`, `InSync`, `FramingKnown`, `TransferEnds` |
| `HttpTransferAnywhere` | two responses on one connection, with length or chunked, cut anywhere | `TakenInOrder` |
| `HttpClient` | two hosts with one resource that is there and one that may have moved, within the server or to the other, which has something else under the name of the first; a kept connection, answers that close it, a chunked one; the peer closes at any time | `NothingPending`, `ImplementsFetch` |
| `Download` | bodies of 0 to 5 bytes and perhaps one more than stated, in any segments; bars of 0, 2 and 3 marks; a disk that may be full; a server that may fall silent | `BarHonest`, `FileSize`, `PatientEnough`, `DownloadEnds` |
| `TcpCalls` | three connections, each free, of a resident program or left open; lines of one, two and three pieces; ESC at any time | `OneOpen`, `ConnectionToHave`, `SentInOrder`, `PatientEnough`, `WaitEnds`, `EscEnds` |
| `Config` | each variable set or not, resets, failing calls and a full disk | `UsesConfigured`, `DatabaseReady`, `DoneIsConfigured` |
| `Texts` | numbers of up to 4 digits where a long holds 3, header lines of up to 6 and lists of up to 7 characters, 92 URLs | `HexValue`, `HeaderSplit`, `UrlParts`, `FilesComeBack` |
| `HttpTransferTwoChunks` | a body of two chunks | `WholeBody` is violated: the CR LF after a chunk is read as a size of 0 (620) |

All runs but the last pass.  `PROJECT.json` quotes the comment that the last one contradicts (`findings`).

**The bounds.**  Two packages are the least that can share a directory, and two
pages with a nested file make every loop of `install` turn twice.  The number
of commands is not bounded: the state graph closes by itself.  The trees have
as many directories as the table of five has rows.  Two requests on a
connection are enough for what one may leave to the next, since everything a
request leaves is in the buffer, the flags and the stream; header lines and
bodies are as short as can be cut in every way that differs to the code.
`BufferSize` 16 (18 for the headers of `HttpClient`) holds the longest header
of the instances, as 1024 does that of the project's server; segments of any
length up to it arrive.  `MaxRedirects` is the code's in `HttpSession`, and 1
in `HttpClient`, which is enough to reach both its branches.

In `Download` lengths lie on both sides of 2, up to which nothing is reserved,
and of the sizes of the bar; the timeout of 4 ticks is longer than the
`BufferSize` of 3, as 1200 is than 1024, for `n` holds either.  `MaxLag` bounds
the ticks between two turns of a loop by less than the range of the timer:
after a whole turn of the 16-bit timer, eighteen minutes, the code would not notice
that it has moved.  In `TcpCalls` three connections can be one of a resident program, one
just closed and one more; the two ticks of its timeout make a wait that is over
at once differ from one that is not.  In `Texts` a block holds four
characters, so that lines end within, at and after the end of a block.

**Assumptions that the passing runs make.**  Each stands for something the code
does not handle.

* DNS queries succeed, in the HTTP modules.  `tcp_connect` (142) ignores what
  `getaddrinfo` returns, and after a failed query the request goes to the
  address of the host before: with the fault `"dns"`, `RightHost` is violated.
* At most five directories must be put off.  The sixth is announced as put off
  (1405), but not remembered (1406).
* No created directory's path is the beginning of the path of one created
  before.  `strstr` (1285) would take `\T\S` for recorded because `\T\ST` is;
  `InstallerTree` has two such directories in the harmless order.
* Directories are at most two levels deep below the installation directory.
  Three levels are retried parents first, and the upper two stay on the disk and in no
  entry; the comment at 1320 says so ("TODO iterate in reverse order").
* A directory's retried deletion does not fail, where `UninstallClears` is checked:
  `uninstall` does not notice (1428) and drops the entry.  In `InstallerFaults` it
  may, and `FilesCleared` is what remains.
* No two packages list the same file, and the user does not replace one: the
  second install overwrites the file and the uninstall of the first deletes it.
* Header lines are not cut: the part of a line in the next segment is not seen
  as its continuation (539), and a Content-Length would be missed.  The headers
  of a chunked response come in one segment: each segment resets
  `chunked_data_available` (535), and the read of a chunk size never ends
  without it.  `HttpTransferAnywhere` makes neither assumption.
* Writing a body to its file succeeds, in `HttpTransfer` and `HttpClient`; in
  `Download` it may fail, which hub does not notice.
* A body has a length or one chunk (`HttpTransferTwoChunks`).  Without either, only
  what came with its headers is stored (724).
* A body for a variable leaves room for its null character.  A longer one wraps around
  and overwrites the beginning (772).
* An "@" in a path comes with a user and a password; otherwise `parse_url` takes
  the host for a user (1071).  Users have no colon, as in HTTP.
* Names in a list fit in a block of the entry.
* In `Config` the disk may be full, and `configure` says "Done!" all the same
  (1009, 1520): `DoneIsConfigured` leaves that case out, `UsesConfigured` does not.  An
  empty file is read as its own path (1044: `read()` returns -1, and the null
  character goes to `buffer[-2]`), which is no URL and no directory, so the
  command dies; that is why `UsesConfigured` holds.

**Fairness.**  `Installer` has weak fairness of a running command: MSX-DOS runs
nothing else and each network call returns data, an error, or a timeout.  The
user has none, he may leave the computer alone.  `HttpSession`,
`HttpTransfer` and `HttpClient` have weak fairness of the client and the delivery of what was
sent; that a client waiting in vain gives up is what `Download` and `TcpCalls`
are about.  These have weak fairness of hub's loops and of the system timer, an
interrupt, and of nothing else.  Servers, peers that close, lost connections,
the TCP/IP stack and the user have none.  (`EscEnds` holds for as long as the key is
down, which is all that the code looks at.)

## What is proved

`tlapm` checks all proofs; they hold for all values of the constants that
satisfy the assumptions stated with them: the named `ASSUME`s of the modules,
which TLC evaluates in the runs, and the hypotheses of the theorems, which are
given here.

**The package manager** (`InstallerProofs`).

* `TypeCorrect`: `TypeOK`.  It is not inductive, because that a path written
  down is a path of the drive depends on the place in the server's list.
  `TypeInv` adds `Position`, which says what page, line and directory are at
  each `pc`.  From `ListingAssumption` (what the server lists is on the drive)
  and `PathsAssumption` (the drive is a tree).
* `NoFileLost`: `FilesAccounted`, if the faults are
  `"die"`, `"unlink"` and `"retry"` at most.  (With ignored write errors it is false.)
  The strengthening `Custody` says that during an uninstall every whole file of
  the package is on a line still to be read, and that an install after
  `OpenEntry` has an entry and before it has no files: this is why dropping the
  entry, or emptying it with `create()`, loses nothing.
* `RegistryImplemented`: `Installer` starts as `PackageRegistry` does and each
  of its steps is a step of it or a stutter, with every fault.  The invariant
  `Open` says that an install under way has an entry from `OpenEntry` on and
  none before, and that no line of an open entry is an installation directory,
  which is what `installed` is told by.  The hypothesis `Apart` keeps a package
  from putting a file or directory exactly where packages are installed; then a
  half-written entry would pass for a whole one.
* `AlwaysInstallComplete`: `InstallComplete`, unless `create()` or `write()` of
  the entry may fail unnoticed.  `Progress` says that all lines the install has
  passed are on the disk and in the entry.
* `AlwaysOwnNodesOnly`: `OwnNodesOnly`, with every fault, if no two packages and
  no user put a file where another may put something (`Separate`).  `Own` says
  what lines an entry and the two lists of directories may have: lines the
  server sent for this package.
* `AlwaysCreatedDirsStored`: `CreatedDirsStored`, unless the writes of the entry
  fail, if `strstr` takes no directory for an earlier one (`Harmless`).  `Kept`
  says that each directory made so far is in `created_dirs`, and each one there
  on the way to a line; `Tree` that what exists is in directories.
* `AlwaysUninstallClears`: `UninstallClears`, with every fault but `"retry"`, with
  which it is false.  `Listing` gives the
  order of an entry: files, then directories, parents before what is in them, the
  installation directory last.  `Clearing` says what is left when a line has been
  tried, and why a directory that could not be deleted at its line can be at its
  retry or not at all.  From `Apart`, `Distinct` (no file where another package
  has a directory), `Shallow` (two levels of directories) and `Roomy` (no more of
  them than `MaxUndeleted`); the last two are the limits of `uninstall()`
  listed above.  `InstallerTree` goes beyond `Roomy`: there only some
  of the directories must be put off at once.
* `AlwaysFilesCleared`: `FilesCleared`, with every fault and without hypotheses.
  `FilesAhead` says that a listed file that is still on the disk is on a line still to
  be read, since only a directory is ever put off.

**The session and the calls** (`HttpSessionProofs`, `TcpCallsProofs`,
`DownloadProofs`).

* `HttpSessionProofs!AlwaysTyped`: `TypeOK`, without hypotheses.
* `HttpSessionProofs!AlwaysRightHost` and `AlwaysKeptToItsHost`:
  `RightHost` and `KeptToItsHost`, if DNS queries succeed.  Each needs the
  other; `Session` adds what `keepalivehostname` is while a request is under
  way, and that it may be trusted only as long as `trykeepalive` is set.
* `HttpSessionProofs!AlwaysWholeRequest`: `WholeRequest`, with every fault, DNS
  too.  The invariant `Sent` says that the connection has received exactly the
  lines before `line` (so that a retry begins with an empty one), and all of
  them when headers are awaited.
* `TcpCallsProofs`: `OneOpen`, `ConnectionToHave`, `SentInOrder` and
  `PatientEnough`, for any number of connections, lines, steps and timeouts, from
  `CallsAssumption`.  `Connections` strengthens the first: nothing is open
  where `conn` is 0 or about to be set.  `Sending` relates the pointer, the rest and the
  length of a line.  `Waiting` says that `n` counts no more ticks than have
  passed.
* `DownloadProofs`: `FileSize`, `PatientEnough` and `BarHonest`, from
  `DownloadAssumption`.  `Length` says that the file is at least as long
  as what was stored and no longer than the larger of what was received and what was
  to be reserved; `Patience` that `n` is at most the
  ticks waited, plus the rest until the first segment; `Drawn` that
  marks times block plus what is not drawn is what was received as long as the bar is not
  full.  They need lemmas about division by the block, stated first.

**The transfer** (`HttpTransferProofs`).

* `AlwaysTyped`: `TypeOK`, without hypotheses; with it that a variable is never
  written past `maxdata`.  `TypeInv` adds that what is sent, buffered and stored
  are bytes.
* `AlwaysTakenInOrder`: `TakenInOrder` for any responses, cut anywhere and
  misread, if the connection lasts (`~Drops`).  `Order` says the same at every
  place of the loops, with `EndsAlike` (one sequence is the end of the other,
  byte by byte) in place of `IsSuffix`.
* `AlwaysWholeBody`, `AlwaysInSync` and `AlwaysFramingKnown`: `WholeBody`,
  `InSync` and `FramingKnown`, with connections that may be lost, for servers
  whose responses hub can read.  `CanRead` is the hypothesis, and says what is
  under "Assumptions" above: headers cut between lines; a length, or one chunk
  with the headers in one segment and a connection that is closed; and, if there are
  bodies for variables, no null characters and room for one more.  Status codes,
  locations, the bytes, their number, and how often hub asks and is redirected are
  any.  `Reading` is a count: hub has taken `p` bytes of the message
  (4 for each header line; the header and `data_fetched` bytes in the loop by
  bytes; the header and what was written in the other); the buffer holds
  those that follow, the stream is the rest, or was lost; the destination has the
  bytes of the body among the first `p`.  `Parsed` says what the header lines so
  far have told, and that no segment ends within one.

**The client** (`HttpClientProofs`).  The proofs of the session and of the
transfer are used again here through `INSTANCE`: `SP` is the session as it is,
`TP` the transfer with `pc <- Phase`, which takes it to be idle up to the moment
the server answers, since hub may be waiting by then.

* `AlwaysNothingPending`: `NothingPending`, if servers answer what hub can read
  (`CanRead`; `Readable` in `MCHttpClient` has TLC see that the servers of the
  run do).  `IInv` has `Sent` of the session and `Reading` of the transfer, and
  what relates them: `Places` says where the transfer is for every place of the
  session, `Asked` that a peer which has a whole request is on the connection hub waits at, `Fresh` that
  nothing is known of an answer that has not come, `Wanted` that what is answered
  is what was asked for.  Neither component could show the property: that the body has
  been taken to its end is a fact of the transfer; that a connection given up in the
  middle of an answer is closed before the next request, one of the session.
* `FetchImplemented`: the client starts as `HttpFetch` does and each of its
  steps is a step of it or a stutter, under the same hypothesis, if DNS queries
  succeed and locations are of servers there are.  It includes
  that the contents delivered are those of the resource asked for, at a
  server it has moved to, and at no other: the invariant `Whence` says that the
  request is at a host in `Reached`, and that what is being read is an answer of that
  host to it.  It rests on `RightHost`, proved of the composition.
* `ClientRightHost`, `ClientWholeRequest` and `ClientWholeBody`: `RightHost` and
  `KeptToItsHost` (if DNS queries succeed and locations are of servers there
  are), `WholeRequest` (without hypotheses) and `WholeBody` (with `CanRead`) hold
  of the composition.  It is no instance of either component: `trykeepalive` is
  cleared in the middle of an answer, and the headers are awaited before there is one.

**The configuration** (`ConfigProofs`), without hypotheses.

* `AlwaysUsesConfigured`, `AlwaysDatabaseReady` and `AlwaysDoneIsConfigured`:
  `UsesConfigured`, `DatabaseReady` and `DoneIsConfigured`, whatever call fails
  and wherever the computer is reset.  `Schedule` says what the order of
  `configure()`'s steps is good for (the directories before the files, each file
  written and closed before "Done!"); `Stored` that a file is empty or has all
  that was to be saved; `Read` that what was read is what was meant, or the path
  of a file, which is no URL and no directory.

**The header lines** (`TextsProofs`).

* `AlwaysHeaderSplit`: `HeaderSplit`, without hypotheses, for lines of any
  length and any alphabet.  `trim` looks for the first and the last character
  that is no space, and `parse_header` for the first colon; that there is a first and
  a last comes from the well-foundedness of `<`, not from induction over the text.

**Only model-checked**: liveness (`CommandReturns`, `RequestEnds`, `TransferEnds`,
`DownloadEnds`, `WaitEnds`, `EscEnds`) and the fairness in the two refinements
(`ImplementsRegistry`, `ImplementsFetch`), which are beyond the prover; and
`HexValue`, `UrlParts` and `FilesComeBack`, which are about folds over sequences
and would need induction over data.

## What is not modelled

Everything that keeps state is modelled.  What could be added is the loop that
fills `buffer` before it writes (759-770) in `HttpTransfer`, which shows only in
how much of a body is on the disk when a command dies.

Known and not covered by a property: a download that dies in its body leaves a
file no entry lists, of full length if `preallocate()` was called, and
directories whose names are lost with `created_dirs`; `uninstall` deletes an
empty installation directory even if the user had made it; `upgrade` installs
in the default directory whatever directory the package was in; a relative
redirect after an absolute one goes to the first server; ports are not compared
when a connection is reused; a request that follows a redirect on a kept
connection is first sent on connection 0, for `conn == 0` (406) compares a
pointer; the entry of an install that died makes `hub installed` list the
package and `hub install` refuse it; a file that is gone together with its
directory makes `uninstall` die, this time and every time (1402); the wait for
DNS has no timeout; an entry that could not be created (1228) does not keep `install`
from saying "Done!" for a package hub then knows nothing of.  They are in the
list of hazards where something could be stated about them.

Left out for good: `strcicmp`, `strncmpi`, `replace_char`, `basename`, the case
conversions and `gets` (single loops over a string); that `get_config` returns
a buffer of its own frame, and that `uninstall` and `get_str_until` copy into
buffers of fixed size (undefined behaviour that depends on the layout the compiler
chooses); help texts, paths of requests and the listing of entries; wording, debug output and layout, the assembler of the calls to MSX-DOS and
UNAPI, the C runtime and heap, Base64, and the development tools.

## Running

    tlc -workers 2 -config Installer.cfg MCInstaller
    tlapm HttpClientProofs.tla

Each `X.cfg` belongs to the MC module its name begins with.  A definition with a
name such as `Room_OneFewer` is a mutant: the definition `Room` with a
plausible bug, used to see that the properties notice it.
