# TNFSDRV in TLA+

TNFSDRV is a resident program for MS-DOS that maps a drive letter to a
directory of a TNFS server. DOS hands it every call for that drive through
INT 2Fh (AH=11h); it answers from a one-directory cache or by UDP requests sent
through a packet driver. This directory holds TLA+ modules of it, TLC
configurations that model-check them on small instances, and theorems checked
by TLAPS. Every definition is translated from the C and assembler sources under
`src/`; `PROJECT.json` maps each one to the lines it stands for.

## The system

```
 application ─INT 21h─▶ DOS ─INT 2Fh AH=11h─▶ handler.asm   guard, private stack
                                                  │ dispatch on AL
                                              redirector.c   one function per subfunction
                                                  │ fs.h
                                             fs_tnfsmin.c    directory cache, file operations
                                                  │ tnfs.h
                                                tnfs.c       numbered requests, retries
                                                  │ netw.h
                                              netw_pd.c      UDP over the packet driver
                                                  │ s_rx_buf, s_rx_len
                                           netw_pd_rcv.asm   upcall, in interrupt context
```

| component | source | state | operations | what interacts |
|---|---|---|---|---|
| Receive path | `netw_pd.c`, `netw_pd_rcv.asm` | one frame buffer `s_rx_buf`, one word `s_rx_len` (0 free, 0xFFFF awaiting, else a length), the start of the wait | `pd_receiver_` (AX=0, AX=1), `netw_open_rx`, `netw_clear_rx`, `netw_send`, `netw_recv` | interrupts against a polling foreground, with no lock |
| Network start-up | `netw_pd.c`, `netinit.c` | packet-driver handles, own and server MAC, IP and port | `netw_connect`, `pd_access_type`, `pd_release_type`, `arp_resolve`, `tnfsdrv_connect` | the packet driver's handle table; the receive buffer, used for ARP |
| TNFS exchange | `tnfs.c` | `tnfs_session_id`, `tnfs_request_id` (8 bits), `s_mounted`, one message buffer | `tnfs_prepareCommand`, `tnfs_sendReceive`, `tnfs_mount` | client, lossy network, server with a memory of its last reply |
| TNFS commands | `tnfs.c` | none of their own | `tnfs_opendirx` .. `tnfs_rename` | one exchange each |
| Directory cache | `fs_tnfsmin.c` | `s_active_path`, `s_active_valid`, `s_active_entries[32]`, `s_active_loaded_ticks` | `load_dir_cache`, `fs_resolve`, `cache_invalidate`, enumeration, attributes | every path call; other clients of the server |
| File operations | `fs_tnfsmin.c` | handle, position and size in DOS's SFT | open, create, read, write, close, seek | the server's handle table and its own offsets |
| Names | `fs_tnfsmin.c` | none | `is_8dot3`, `entry_to_fcb`, `tmpl_matches`, `fn1_split` | pure functions |
| INT 2Fh subfunctions | `redirector.c` | the CDS path, the search cursor in DOS's DTA | `do_mkdir` .. `do_seekend` | state that DOS keeps and brings back unchecked |
| INT 2Fh entry | `handler.asm` | `in_handler`, `saved_ss:saved_sp`, `arg_*`, `res_*`, the private stack | `new_int2f__` | nested calls from interrupt handlers |
| Debug ring buffer, DUMPBUF | `ringbuf.c`, `dumpbuf.c` | `rbuf` | `rb_putc`; DUMPBUF's snapshot and copy loop | two programs on one buffer |
| Configuration | `config.c` | a record filled once | `config_load`, `apply_section`, `apply_key` | the checks of `main` |
| Installation | `main.c` | the drive table entry, the INT 2Fh vector | `main`, `init_cds` | DOS, earlier starts of the program |
| PDREL | `pdrel.c` | none | `release_type` from the command line | handles a broken start left behind |
| Attic | `attic/` | - | not built | - |

### What makes it hard, and what makes it correct

* **Receive path.** A frame arrives between any two instructions of the
  foreground. Correct: the buffer has one owner at a time; what `netw_recv`
  returns is one whole frame, for us, received since the last clear; a wait
  lasts as long as it says, and ends.
* **Exchange.** Requests and replies are lost, answered late, answered twice;
  the sequence number is 8 bits wide; the machine and the server restart.
  Correct: an accepted reply answers the request made; each request is executed
  at most once and in order; every exchange ends.
* **Start-up.** Six calls can fail while one packet-driver handle is held or two;
  Ctrl-C may end the program anywhere; frames of any kind take the one buffer in
  which the ARP reply is awaited; the program may be started again. Correct: a
  start that fails leaves nothing behind, one that succeeds has all it needs,
  there is at most one, and each start ends.
* **Cache.** One directory is cached, and names are indexes into it that DOS
  brings back later; a load has three requests that fail one at a time; the
  array has 32 places; the clock has 16 bits. Correct: a valid cache shows the
  server's tree; a search finds everything; a stale listing is served for the
  TTL at most.
* **Files.** A handle, a position and a size are copied into the SFT and come
  back in later calls; replies are lost after the server acted. Correct: a
  handle stands for the file asked for and for no other; DOS's position and the
  server's stay in step; a transfer cut into many requests, any of them lost,
  is one step on the file as DOS sees it.
* **Names.** A name is filtered, upper-cased, cut off, padded to an FCB name, and
  comes back inside a path that is translated in three places. Correct: a
  search shows what the pattern means, and a name shown opens, and deletes, the
  file it was shown for.
* **Entry.** One private stack, one set of static variables, and interrupts
  enabled from the stack switch to IRET. Correct: the C code is never entered
  twice, and a call keeps its frame and its results.
* **Ring buffer.** DUMPBUF reads while its own DOS calls make the resident part
  log. Correct: the dump is the log as it was when the dump was taken.

`PROJECT.json` lists these as hazards, each at its line, with the properties
that cover it.

## Modules

| module | stands for | built on |
|---|---|---|
| `RxMailbox` | what the receive path promises: a one-place mailbox of whole frames | |
| `NetwRx` | the receive path | refines `RxMailbox` |
| `NetwRxProofs` | its theorems | `NetwRx` |
| `AtMostOnceCall` | what an exchange promises: in-order, at-most-once calls | |
| `TnfsExchange` | `tnfs_sendReceive`, `tnfs_mount`, with network and server | refines `AtMostOnceCall`; takes the mailbox for its receive buffer |
| `TnfsExchangeProofs` | its theorems | `TnfsExchange` |
| `DirCache` | the directory cache, as operators on server tree and cache | |
| `Redirector` | the INT 2Fh subfunctions, one action each | extends `DirCache` |
| `Int2F`, `Int2FProofs` | the entry code of `handler.asm`; its theorems | |
| `RingBuf`, `RingBufProofs` | ring buffer and DUMPBUF; their theorems | |
| `DosFile` | what READ and WRITE promise of an open file: each is one step | |
| `FileTransfer` | the chunk loops of `fs_read` and `fs_write` under `do_read`, `do_write`, `do_seekend` | refines `DosFile` |
| `FileTransferProofs` | its theorems | `FileTransfer` |
| `Names` | names and paths between DOS and the server, as sequences of characters | |
| `NamesProofs` | its theorems | `Names` |
| `Config` | `config.c`: how a file and a profile become settings | |
| `Startup` | `main`, `tnfsdrv_connect`, `netw_connect`, `arp_resolve`, started several times | extends `Config` |
| `StartupProofs` | its theorems | `Startup` |
| `MCNetwRx`, `MCTnfsExchange`, `MCRedirector`, `MCRingBuf`, `MCStartup`, `MCNames` | the instances TLC checks | |

The layers are stacked by what they promise rather than multiplied: `NetwRx`
is shown to implement the mailbox that `TnfsExchange` has as `box`;
`TnfsExchange` is shown to execute a request at most once and to report
"answered" only for one that was executed, and `Redirector` has a request as
something executed or not and answered or not, with "answered" implying
"executed"; `FileTransfer` takes requests the same way; `Redirector` has names as
model values, and `Names` shows what becomes of their characters; `Startup` ends
in the state the others begin in: an IP handle, a server, a session; `Int2F` is
what allows each subfunction of `Redirector` to be one action.

### NetwRx

`rxLen` is `s_rx_len` with its lengths taken as one value, `rxBuf` is `s_rx_buf`
as two halves, so that a torn frame can be seen. `drv[s]` is a delivery inside
the packet driver: `GrantBuffer` and `RefuseFrame` are the AX=0 upcall,
`CopyFirstHalf` and `CopySecondHalf` the driver's copy, `FrameDelivered` the
AX=1 upcall. Two slots let a second frame come in the middle of a first. The
foreground is one process with a program counter: `idle → clear` is
`netw_open_rx`, `clear → send` is `netw_clear_rx`, `send → poll` is `netw_send`
and the start of `netw_recv`, `poll ↔ look` its loop, `parse` the filters, and
`head`, `tail` the two halves of the copy out of the buffer. `old` and `waited`
are history: whether the frame was granted before the last clear, and how long
the wait really was.

`Preempts` says whether the foreground can run while a delivery is in progress.
Packet drivers of NE2000-like cards copy inside one interrupt (`FALSE`); one
that enables interrupts, or uses DMA, does not (`TRUE`).

### TnfsExchange

`BeginExchange` numbers a request (`tnfs_prepareCommand`) and empties the
buffer; `Send` is `netw_clear_rx` and `netw_send`; `NoAnswer` a failed send or a
timeout, which retries or gives up; `StaleReply` and `Accept` the header check.
`Reboot` starts the program again with sequence numbers from 0 and the same
local port. Frames are records with the number `id` of the request they belong
to, which the program does not see. History: `lastExec` and `nExec`, the
latest request the server executed and the number of executions, so that executing
one twice shows. The network loses frames, and frames come
too late, but it does not reorder them: `netw_pd.c` resolves the server's own
address by ARP, so it is on the same Ethernet segment. The server (external)
keeps per session the last reply and repeats it for a repeated sequence number.

`WithinWindow` is an assumption on that environment: no frame stays in flight,
and the server is not out of reach, for as long as the sequence numbers take to
come round (256 requests; `SeqMod` in the model). Without it no finite sequence
number can work.

### DirCache and Redirector

A DOS call runs to its end before another starts, so a subfunction is one
action, with a *fault* as its input: a set of requests all of whose replies are
lost, and whether the server executed them. `Loads` gives the outcomes of
`load_dir_cache` (a hit; a failed OPENDIRX; a READDIRX that broke off and left
part of the listing; a CLOSEDIR that failed; a full load), `Resolves` those of
`fs_resolve`, with its STAT fallback. The server's tree `srv` follows POSIX rules
(external). A name is 8.3 or not visible; `Bare` are the names without a dot,
which the server leaves out of a listing for the pattern `*.*` when they are files;
a template is the set of names it matches; a listing comes in any order; a
transfer is one unit (`MaxSize` bounds positions, those of a READ behind the end
too).

`dta`, `sft` and `cwd` are what DOS keeps between calls. The clock `now` counts ticks;
what the code reads of it is `BiosTicks`, the low word of a count that returns to 0
at midnight (`DayTicks`), so a midnight makes the word fall back. History: `dta[s].want`
and `.found` (the names that matched at FINDFIRST; the names returned, in order, so
that one returned twice shows), `.intact`
(whether the array had room for the whole directory, as it is on the server, and
still holds the entries the cursor counts), `sft[t].asked`
(the path DOS named), `fds[h].opened` (the path the client sent), `cache.foreign`,
`cache.late` (whether a listing that was `Overdue` by the real time was served).

### FileTransfer

`Begin` is the call of `fs_read` or `fs_write`, `Lseek` its first request, `ReadChunk`
and `WriteChunk` one turn of the loop, `ReturnRead` and `ReturnWrite` what `do_read`
and `do_write` make of the result. A request is executed or not and answered or
not; an unanswered one ends the loop, an LSEEK's result is not looked at. `data`,
`len` and `offset` are the server's (external). `before` is history: what DOS saw when the
call began, which is what the refinement of `DosFile` shows until it returns.
`astray` is history too: whether the LSEEK of the latest call was lost, in
which case `DosFile` allows the transfer anywhere.

### Names

A state is the server's files, the array with its names and attributes, the search
in DOS's DTA, and the last OPEN and DELETE with the path DOS gave and the path that
was sent. `Lists` is what `load_dir_cache` makes of the names, cut off at `CacheMax`
(`DIR_CACHE_MAX`); `Resolved` is `fs_resolve`, whose STAT fallback adds a name while
there is room; `WithAttr` is SETATTR, which changes the array and nothing else;
`PathSent` looks at the attributes of the first entry of the name, as `do_open` and
`fs_open` do. `FindDir`, `Split` and `ToTnfsPath` are the three translations of a path.
What a pattern means to DOS (`Globs`), which names want a place in the array
(`Shorts`), which survive the way there and back (`Faithful`) and which of these can
be opened in any case (`Openable`) is said of names, without use of the array, as
reference for the properties. The server's names are
case-sensitive, as on Linux. DOS names directories that exist (`PlacesAssumption`), and
no name or pattern has a blank in it (`BlankAssumption`): `is_8dot3` lets blanks pass,
but in an FCB a blank stands for nothing, so a name that ends in one cannot be told
from the name without it.

### Config and Startup

A line of the file is what the parser makes of it: a section, a key with its
value, or nothing. `Meaning` is the reference: the last acceptable setting of the
profile, else of `[default]`, else the built-in one; it shares with the scan
what a key accepts and stores, not how the file is gone through.

`Startup` has one program counter for the program being started; each position
up to `tsr` is a call that can fail. `pd`, `mounted`, `cds` and `chain` stay when a
program goes, `image` is what stays in memory with a resident one. `Deliver` puts a
frame in the receive buffer as in `NetwRx`, here as one step. `Break` is Ctrl-C,
`PdRel` the tool for what it leaves behind. After a Ctrl-C between the vector and
residency the INT 2Fh chain leads into free memory; the model starts nothing then.

### Int2F

A call is a record on the stack of nested calls: in the C code, done, with the
guard cleared, or back on its caller's stack. Interrupts are off from INT to the
instruction after STI, so entry is one step, and the guard is set in it. On the
way out they are on: `ClearGuard`, `RestoreStack` and `Return` are steps of their
own. `saved`, `res` say *whose* frame and results the variables hold.

### RingBuf

`RbPutc` is `rb_putc`; `LogIfEnabled` and `LogAlways` are its two kinds of callers.
DUMPBUF is `DumpStop` (clears `enabled`), `DumpSnapshot`, `DumpOpen`, `DumpOne`,
`DumpEnd`, and the resident program logs between any two of them.

## Runs

Passing runs:

| run | question | instance |
|---|---|---|
| `NetwRx` | Can interleaved deliveries tear, lose ownership of, or pass off an old frame? Does the path implement the mailbox? Does every wait end, and none too early? | 2 deliveries, 3 frames (1 for others), timeout of 2 ticks, 8-tick timer, 11-tick day, every start of the clock |
| `TnfsExchange` | Is an accepted reply the right one, and a request executed at most once? Does every exchange return? | 2 commands, sequence numbers modulo 3, 2 attempts, 2 sessions, 5 requests, 1 reboot, 2 frames in flight each way |
| `RedirectorTree` | Does the cache stay coherent, does a search return each name and none twice, does CHDIR go to directories only? | a two-level tree with the same name in two directories and one long name, array of 2; lost replies of CLOSEDIR, MKDIR, RMDIR, UNLINK, RENAME |
| `RedirectorFiles` | Do handles stand for the right file and for one opener, do transfers stay in step, and does SPOPEN create only what does not exist? | 2 files, 2 SFT entries, 2 server handles; lost OPENDIRX, OPEN, READ and WRITE replies, CLOSE not executed |
| `RedirectorShared` | With other clients, a full array and time: types, coherence up to foreign changes, the TTL across turns of the clock and midnight | array of 1 for two files, TTL of 1 tick, 4-tick timer, 5-tick day, 6 ticks |
| `Int2F` | Are the C code, the saved stack and the results safe from nested calls? | 6 calls, nested at every step |
| `RingBuf` | Is a dump the beginning of the log as it was at the snapshot? | ring of 3, 5 characters logged, 2 dumps |
| `Startup` | Do the settings mean what the file says? Are handles, session, drive and vector consistent on every way out, is there one resident program at most, and does every start end? | 3 starts, 2 profiles, 37 files, 2 hosts, 5 kinds of frames, 3 ARP tries of 1 tick |
| `FileTransfer` | Is a transfer of any length one step to DOS, complete if answered, and does it end? | files and transfers of up to 3 units of 2 values, chunks of 2, positions modulo 5 |
| `Names` | Does a search show what the pattern means, and do shown names open and delete what they were shown for? | names of up to 2+1 characters over a, A and dot, and longer ones; 1 to 3 files in a directory, 1 in the root, or a directory beside a file; array of 2; 4 patterns |

Runs that show a disagreement between code and documentation (each is one entry
under `findings`, with the sentence it contradicts):

| run | what happens |
|---|---|
| `RedirectorAppend` | the size in a reopened file's SFT is the old one, so a seek to the end stops short |
| `FileTransferShort` | a server that writes less than it was sent: WRITE reports all of it |

Limits of the passing runs that are worth knowing, each listed as a hazard:

* `BufferExclusive` fails with `Preempts = TRUE`: `netw_clear_rx` and the filters store 0
  over the mark "awaiting", and the buffer is granted a second time
  (`netw_pd_rcv.asm:21` says the mark prevents it).
* A wait that midnight comes into ends at once: the BIOS count returns to 0 in the
  middle of a turn of the 16-bit timer (0x1800B0 ticks a day), and the difference is
  then most of an hour. `netw_pd.c:42` has only the wrap-around in mind. `NeverEarly`
  is about the other waits, `waited <= clock`.
* The TTL is kept up to two limits, which `Overdue` leaves out: a midnight takes what
  the word loses by it (0xB0 ticks, ten seconds) off the age of a listing loaded before
  it, and the age of a listing comes round after a whole turn of the word (an hour),
  when an old listing is served as fresh. FINDNEXT goes on in a listing whatever its age.
* DUMPBUF's flag does not stop the log calls of `netw_pd.c` (`dumpbuf.c:6` says that
  it disables logging); `DumpIsTheBeginning` holds all the same, thanks to the
  snapshot.
* A late reply to an earlier request is not accepted, but it ends the current
  exchange with an error, retries left or not (`tnfs.c:151`).
* A search goes on in the wrong listing when a call in between put another
  directory in the one cache (`fs.h:101` promises a match or the end);
  `SearchComplete` is about searches to which that did not happen.
* SPOPEN of a file that exists truncates it when a request of the resolve is lost or
  the array has no room for the directory, or the cache is older than a change of
  another client; `SpOpenKeepsFiles` is about the other cases, and so is
  `ChdirToDirectory` as far as other clients go.
* A call of INT 2Fh that comes after the guard is cleared and before the caller's
  stack is restored is accepted (`handler.asm:548`), against `handler.asm:26`.
* A file with a lower-case letter in its name on a case-sensitive server is shown
  by a search in upper case, and OPEN of it reports success without a handle; so
  it is with a name that ends in a dot, and two names that differ in case only
  are shown twice. `OpensWhatItShows` is about the others (`Faithful`).
* A directory with more than 32 short names is not shown whole (`fs_tnfsmin.c:371`):
  `ShowsMatches` then says only that what is shown is there, and no more often than on
  the server.
* `OpensWhatItShows` has three exceptions, in which OPEN of a file that exists may be
  refused: the array has no room for the short names of its directory and this one,
  so that the STAT fallback has none either (`fs_tnfsmin.c:459`); a directory beside
  the file has its name in another case, and comes first in the array
  (`redirector.c:306`); a SETATTR has made the name read-only, and it is opened to be
  written (`redirector.c:311`).
* `OneResident` rests on a packet driver that has one handle per type. Nothing in
  `main` looks for a first program.
* `init_cds` takes the drive whatever it was before, and goes on when another
  redirector forbids it (`main.c:97`): the program is then resident without a
  drive, which `ResidentReady` allows ("of the drives its own at most").
* The comment at `fs_tnfsmin.c:129` says that `N:\APAC` without a wildcard is the
  directory `/APAC`; the code takes it for an entry of `/`, and `FindDir` with it.
* `README.md:79` of the repository shows a key `drive`, which `config.c` does not know.

### Why the bounds are enough

* `NetwRx` has no bound: its constants are small, its behaviours unlimited. Two
  slots suffice for "granted twice"; an 8-tick timer wraps in the middle of a wait,
  and the clock starts at every value. As on a PC, midnight comes in the middle of a
  turn of the timer, at more than the timeout from either end.
* `TnfsExchange`: with `SeqMod` 3 and 5 requests the numbers come round while old
  frames are about; 2 attempts are the least that make a retry; 2 sessions let a
  repeated MOUNT or a reboot create a second one.
* `Redirector*`: a cache array of 1 or 2 is full, and cut off, with the trees
  given; two levels are needed for a cache of another directory; two SFT entries
  and two server handles for sharing and for exhaustion. The runs split what
  what does not interact (directories, files, other clients) and limit the faults
  to those the question is about; `Uses` names the calls a run makes. In
  `RedirectorShared` the 4-tick word comes round and the 5-tick day ends within 6 ticks,
  so a listing grows older than the TTL on both sides of either; elsewhere time stands
  still.
* `Startup`: three starts make a second program meet a resident one and a third
  meet what a broken one left; three ARP tries are the code's, one tick of waiting
  is enough for an answer and a time-out to race. The files are built around
  one that works, each with what makes a check or a scan go another way.
* `FileTransfer`: three units over chunks of two make a full chunk and a short one,
  and a transfer that ends with a full chunk; five positions let a seek to
  before the beginning wrap. `ShortWrites` is on only in the run that is about them.
* `Names`: two characters before the dot and one after stand for 8 and 3, with
  names one too long on either side; an array of 2 is filled by a listing, overfilled
  by one, and filled by a STAT. `NamesProofs` has any lengths and any array.
* `MaxCalls`, `MaxLogged`, `MaxDumps`, `MaxReq`, `MaxReboots`, `MaxSid`, `MaxQueue`,
  `MaxNow`, `MaxSize`, `Starts` only stop otherwise endless behaviour; a run that reaches
  one stops, so deadlock is not an error in those runs.
  (A program whose MOUNT failed exits, too.)
  `NetwRx`, `FileTransfer` and `Names` never stop and their runs check for deadlock.

### Fairness

* `NetwRx`: weak fairness of a delivery under way (an interrupt handler
  ends), weak fairness of `Tick` (the timer interrupts), strong fairness of
  the foreground, which is enabled again and again between interrupts. No
  frame need ever arrive. With them `WaitEnds` holds because the deadline is
  tested on every turn of the loop, also after a frame that was dropped.
* `TnfsExchange`: weak fairness of the client's own steps inside an exchange,
  justified by `WaitEnds`; nothing is assumed of network and server.
* `Startup`: weak fairness of the program's own steps and of the timer. Frames may
  come without end in place of the answer. `StartEnds` also holds for a start that
  is never stopped by Ctrl-C.
* `FileTransfer`: weak fairness of the steps inside a call, justified by `ExchangeEnds`;
  the server may answer any count, or never.

`Redirector`, `Int2F`, `Names` and `RingBuf` check safety only.

## What is proved

The theorems hold for every value of the constants that the modules' assumptions
allow (number of slots and frames, widths of timers and sequence numbers,
retries, sizes, bounds).

* **`NetwRxProofs`**, assuming `~Preempts`: `TypeCorrect`, `BufferIsExclusive`
  (`BufferExclusive`), `ReturnsAreWholeAndFresh` (`WholeAndFresh`), `ImplementsMailbox`.
  None of these is inductive alone. The invariant ties `rxLen` to the deliveries:
  "awaiting" when and only when exactly one delivery is in progress, both halves of
  the buffer equal when it is full, the copied half of a delivery equal to its frame,
  and no delivery in progress unless the foreground stands still. `~Preempts` is
  needed: without it TLC finds `BufferExclusive` violated. `NeverGivesUpEarly`
  (`NeverEarly`) needs neither that nor anything about the length of the day. Its
  invariant: as long as midnight has not come into the wait, the low word of the clock
  is `start + waited`, less a turn of the timer when that is due.
* **`TnfsExchangeProofs`**: `TypeCorrect`, `AnswersMatch` (`AcceptedAnswersRequest`)
  and `ImplementsAtMostOnce` (`AtMostOnceSpec`), with any number of retries, sessions,
  and restarts of the machine or the server, without further assumption on the
  constants. The invariant works at two levels. Within a session: every frame that
  carries the session in use has the number that `prepareCommand` gave its request,
  counted back from the next one, and all frames lie in the window in which those
  numbers differ (this is where `WithinWindow` is needed); requests travel in order
  and are never older than the last one executed; a session that remembers a
  pending request's number remembers that request. Between sessions: a session on
  offer in a reply to MOUNT is carried by no other frame and is offered
  once, because the server creates a new one for every copy of the request. So
  what an earlier life of the machine left in flight is in no session that a later
  life adopts, although its sequence numbers start from 0 again.
* **`Int2FProofs`**: `TypeCorrect`, `NotReentered` (`CNotReentered`),
  `OwnUntilCleared` (`KeepsItsOwn`). The inductive part, `Guarded`: a call is
  in the C code exactly while the guard is set, and it is then the innermost.
* **`RingBufProofs`**: `TypeCorrect`, `DumpCorrect` (`DumpIsTheBeginning`). The
  invariant: the buffer holds the beginning of the log at `0 .. head - 1`, and a
  dump has copied exactly `0 .. cursor - 1`, up to its snapshot.

* **`StartupProofs`**: `TypeCorrect`, `HandlesAreOwned` (`HandlesOwned`),
  `ResidentIsReady` (`ResidentReady`), `AtMostOneResident` (`OneResident`),
  `FailureIsClean` (`FailedLeavesNothing`), for any number of starts, files, hosts and
  frames. The invariant says what a program has at each position between `load` and
  `tsr`: which handles, the right address once ARP is over, a session after the
  mount, the vector after `vector`, and nothing of what comes later. That at most
  one is resident follows from each having the one IP handle.
  `ConfigurationIsMeant` (`ConfigMeans`) holds for every file that is a sequence of
  lines (`FilesAssumption`). It is an induction over the lines: after `n` of them the
  scan is in the section exactly if line `n` stands under its heading, and its values
  are those of the last acceptable assignments so far. That the recursive function
  `scan` exists at all is proved by the same induction.
* **`FileTransferProofs`**, assuming `~ShortWrites`: `TypeCorrect`, `ImplementsDosFile`
  (`DosFileSpec`), `AnsweredIsComplete` (`CompleteIfAnswered`), for every chunk size,
  length and width. The invariant describes the loop in the middle of a call in
  terms of what DOS saw at its beginning: a READ has filled the buffer with the units
  from where it began up to `total`, and stands at that offset; a WRITE has laid that
  much of the buffer over the old contents, perhaps one chunk more than it counts
  once a reply is lost. With short writes the units go to the wrong places.

* **`RedirectorProofs`**, about `DirCache` and `Redirector` together, for every
  tree, array size, number of SFT entries and searches, and every fault: `TypeCorrect`,
  `CacheIsCoherent` (`CacheCoherent`), `SearchIsComplete` (`SearchComplete`),
  `HandleIsOfFile` (`HandleOfFile`), `NoHandleIsShared` (`HandlesNotShared`),
  `ChdirIsToDirectory` (`ChdirToDirectory`), `SpOpenKeeps` (`SpOpenKeepsFiles`);
  `ServedWithinTtl` (`WithinTtl`); and `TransfersAreInStep` (`TransfersInStep`), where
  every fault executes LSEEK. The invariant has three parts. The server's
  tree is one: what exists is in a directory. The cache is a listing of its
  directory: every entry has the attributes and the size the server gave it, a whole
  listing has every visible name and none twice; the names a search has returned stand
  before its cursor, and those it has still to find behind it. A handle in an SFT
  entry, unless it is `NoFd`, is the server's open file of the path the entry was opened
  for; and a file that the server has open is a file of the tree, or detached from it. The last is what carries
  HandleOfFile over a RENAME. What load and resolve return, with any requests lost,
  is said once in lemmas on `Loads` and `Resolves` that all actions share.
  `ServedWithinTtl` is arithmetic of the clock word, for any day and width: the word's
  difference falls short of the real age by whole turns of the word and what each
  midnight takes off (`WordDifference`), so within a turn a listing that passes for fresh is
  older than its TTL by the midnights' share at most (`HitInTime`).

* **`NamesProofs`**, for every alphabet, length of base and extension, tree of the server
  and spelling of a directory: `TypeCorrect`, `SearchShowsMatches` (`ShowsMatches`),
  `OpensTheFileShown` (`OpensWhatItShows`), `OpenAndDeleteNameTheSame`
  (`OpenAndDeleteAgree`). The work is in lemmas about the operators. A path is taken
  apart where it was put together (`PathFacts`), and what OPEN makes of its two parts is
  what DELETE makes of the whole (`SplitFacts`); a name comes back from an FCB as it
  went in (`ThereAndBack`); the names that `is_8dot3` keeps are the short ones
  (`KeptIsShort`); and the FCB template of a pattern takes a name exactly where the
  pattern covers it (`GlobMatches`). The invariant of a search, `Progress`: for some
  order of the directory, cut off at the size of the array, what was shown is what
  matches below the cursor, once each. That maps what was shown into the wanted names
  one to one, and onto them when the directory fits. For OPEN it is counted: if the
  short names of the directory and the one asked for are no more than the array's
  places, the listing was not cut off, and either it has the name or there is room for
  it (`OpenableFacts`); and the first entry of that name is no directory.

What takes an induction (the scan of the configuration, the trees of `Redirector`, the
first dot of a name) is proved over sets of numbers, `LeastNumber`: a set of numbers
has a least one because the intervals `0 .. n` are well-founded under inclusion.

Model-checked only: liveness (`WaitEnds`,
`ExchangeEnds`, `StartEnds`, `TransferEnds`), which is out of the prover's reach, as is
anything about `ENABLED`. Every other property of a passing run is a theorem, some of
them under the hypotheses given above. No module declares a RECURSIVE operator.

## What is not modelled

* Message layouts and lengths: a request is a command, a session and a number.
  Hence the hazard of a reply shorter than its header is listed and not covered,
  and so it is with a READDIRX reply without entries.
* The batches in which READDIRX returns a listing, and the directory handles of the
  server: a CLOSEDIR that is not executed leaves one open there, which
  `fs_tnfsmin.c:5` says never happens.
* Time inside a DOS call of `Redirector`; `Tick` comes between calls.
* In `Redirector`, a failed LSEEK together with a transfer: `FileTransfer` has it.
* Wildcards in the path of DELETE and RENAME, which are sent to the server as they are.
* Lines of TNFSDRV.CFG as characters: trimming, numbers as text, and texts too
  long for their fields.
* The layout of a CDS entry and `calc_resident_paras`; what a call finds at an INT 2Fh
  vector whose program is gone.
* `tnfs_umount`, `tnfs_remount` and the TNFS commands that nothing calls.
* QUALIFY, DISKSPACE and the EXEC notification change nothing.
* `attic/`, which is not part of the build.

## Order of work

Done, in this order: receive path; exchange; cache and subfunctions; entry code;
ring buffer; start-up with configuration and installation; chunked transfers;
names; the proofs above. To come:

1. The batches of READDIRX with the server's directory handles.
