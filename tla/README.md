# Verification of sam-aarch64

TLA+ models of sam-aarch64, an ARMv8-A assembler and editor that runs on a SAM
Coupé and boots machines over the network. The repository holds each algorithm
twice: a Go *authority* under `tools/`, which its tests compare with GNU
binutils and with captured traffic, and a Z80 *port* under `src/` of the
repository. The models follow the authority; where a port is modelled, a module
says so. Paths below are relative to the repository root.

* [1 Inventory](#1-inventory)
* [2 Modules and runs](#2-modules-and-runs)
* [3 Proofs](#3-proofs)
* [4 What the runs found](#4-what-the-runs-found)
* [5 Not modelled](#5-not-modelled)
* [6 Plan](#6-plan)

To check a run: `tlc -config X.cfg M`, to check the proofs: `tlapm MProofs.tla`.
`PROJECT.json` lists runs, properties, theorems, hazards, and for every
definition the lines it stands for. A definition whose comment begins with
*Mutant:* is not part of the model: it is a bug the property named for it in
`PROJECT.json` must detect when it takes the place of the definition below it.

## 1 Inventory

| Component | State | Operations | Made right by | Modelled |
|---|---|---|---|---|
| Page pool (`pagepool.go`, `pagepool.asm`, `pool_boot.asm`) | owner tag per 16 KiB page | reserve, alloc, free, alloc run, free run | a page has one holder; a run is all or nothing; port = authority | `PagePool` |
| Spill manager (`spill.go`) | document blocks, LRU clock, backend | new, read, free block; alloc/free working pages | no block lost, shared or stale whichever step of an eviction fails | `SpillManager` |
| TFTP client and transfers (`tftp/`, `client/`, `server/`) | transfer, windows, acknowledged block | RRQ, OACK, DATA, ACK, timeout | the stored file is the file; both ends agree on the end; it ends | `TftpTransfer`, `TftpPort` |
| Netboot server (`server.go`, `dhcp/`) | leases; one transfer, one client endpoint | DISCOVER, REQUEST, RRQ, WRQ, ACK of several hosts interleaved | one address per host; another host's datagrams leave a transfer alone | `NetbootServer` |
| Serve program (`serve/serve.go`, `raw_sink.go`) | one receiver with its sector sink, one transfer, free records, claims | WRQ, RRQ, DATA, ACK, final validation | a client whose transfer ended well has its file, or has it on a record that was free | `ServePush` |
| TCP connection (`tcp/`) and HTTP provisioning (`http/`) | sequence numbers, window buffer, sinks, results | SYN, segments, FIN, GET, next file | bytes in order and once; verified means the store has the pinned bytes; it ends | `TcpConn`, `HttpProvision` |
| Edit model (`editmodel/`) | blocks of lines, id table, undo and redo stacks | insert, delete, undo, redo, save and open | text and undo are exact over splits and merges | `EditModel` |
| Assembler front end (`frontend/`) | conditional frames, macros, `.set` values, line position; sections | preprocess, lay out sections | the lines that count go on once; addresses fixed in advance lie clear of the image | `FrontEnd` (without lexer and parser) |
| Assembler back end (`assemble/`) | symbols, literal pool, addresses, image | two passes, NOP insertion, ADRP rewriting | the passes agree; what a name means in the source is what the image uses | `AsmRecords`, `Assembler` |
| Work-item registry (`tools/registry`) | three files, id ledger, lock; a copy per process | eleven writing commands, `ready`, the gate column | no lost update, no reused id, a queue in dependency order | `RegistryData`, `Registry` |
| TLS 1.3 client (`tls/`) | handshake stage, keys, record buffer | flight, reassembly, application data | order of messages; no data before Finished | not yet |
| BDOS storage (`bdos/`, `allocator.go`, `manifest.go`) | records, manifest | allocate, split, locate | a file is looked for where it was put | not yet |
| Z80 assembler session (`main_loop.asm`, `trampoline.asm`, `spill.asm`) | page runs, page registers, 16-block registry | assemble, re-assemble, paged calls, spill | runs are freed once; registers come back | not yet |
| Monitor (`tools/autonomous-loop`) | files | poll, nudge | no missed merge | not yet |
| Lexer and parser, encoders, disassembler, formats, compression, cryptography, drivers, test tools | none, or a device's | functions of their input | exhaustive and round-trip tests | section 5 |

How they interact. The editor keeps its document in DOC pages of the pool
through the spill manager, which takes its pages from the same table the
assembler takes its IN, OUT and scratch runs from: calls, one thread. The
assembler goes from lines to records to an image; its passes communicate through
the result of the first, and section layout predicts what they will do. The network programs are event loops: one received frame,
or one timeout of the caller's, is one call, and between calls anything may
happen on the wire. The registry is a command-line program over shared files:
any number of processes run at once and are kept apart by a file lock alone.

The hard behaviours are therefore partial failures *inside* one call (an
eviction that succeeded before the load that failed), data indexed twice (block
number and file offset, id and block, address and place in the source), limits
of tables and 8-bit registers; for the network loss, duplication, reordering,
retransmission and a second client; and for the registry two processes between
their reads and their writes, and a kill between two writes. `hazards` in
`PROJECT.json` gives each at its line with the properties that would notice.

## 2 Modules and runs

### Page pool and spilling

`PageTable` is `page_owner[]` with Pool's methods as predicates and updates of a
table. `PagePool` makes an action of each exported method and puts the Z80
routines, 8-bit sums and all, beside them as functions of the same table.
`SpillManager` composes the same updates into `Manager`'s methods. A method of
the manager is one step (it has one caller), but it passes through several
memories: `Evicted`, then the page claimed, loaded, discarded or undone; an
action for each way it can end says which of the inner steps failed. The
backend (`store`) is external and every call of it may fail. `DocStore` is what
the editor relies on: ids never issued twice, a block reads as it was written,
and a call that fails changes nothing. The refinement maps a block to its live
payload while resident and to the backend's copy while spilled.

* **page_pool** — 7 entries, 6 pages present, pages 0 and 3 reserved (so that
  runs must straddle and stop at the last page), runs up to 3: the port and the
  authority choose the same run and accept the same releases
  (`PortRunsAgree`), for register values on both sides of every 8-bit edge;
  pages pass only from Free to one holder and back (`HandoutsAreFresh`).
* **spill_manager** — 3 pages, one reserved, two payloads (symmetric), up to
  3 blocks and 5 touches, with and without a backend: one block more than
  there are pages, so every allocation path evicts, with one payload on each
  side of the backend. The touches allow a block to be spilled, reloaded and
  spilled again, where a stale copy would be read. Checks ownership of pages
  (`DocPagesOwned`), exactness of the backend (`BackendExact`), that only the
  least recently used block is evicted, and none while a page is free
  (`LazySpill`), and `DocSpec`. That working
  pages are pinned and what a manager without a backend refuses is proved only.

### TFTP

`TftpClient` is the client (`client.go` over `clientloop.go` and `client.go` of
`tftp/`) and the wire. Block `i` of the file is the token `i`, the last one is
the short block; a stranger's DATA carries the token 0. `net` is the set of
datagrams in flight: a receipt may leave its datagram there, an action loses
any, nothing orders them. Two servers reuse the client:

* `TftpTransfer` — `ServerXfer` under `ServerLoop` and `Server.OnFrame`. State:
  `armed` (`xfer != nil`), `next`, `sent`, `winAcked`, `winFinal`, `sdone`,
  `justOACKed`. The constant `Windowed` says how it is driven: block by block
  (`FirstData`, `OnACK`) or a window at a time (`FirstWindow`, `OnACKWindow`,
  RFC 7440). Run **tftp_transfer**: block by block, three blocks, all faults, a
  stranger, a timer that may fire at any moment. What is stored is a prefix of
  the file, the end is declared when all of it is there, the sender is at most
  one block ahead. `CopiesFile`: each step is a step or a stutter of `FileCopy`.
  Liveness: `Completes`. Run **tftp_window**: four blocks, window 2, so that a
  window slides, ends short, and straddles a restart; `EdgeConfirmed` is about
  acknowledgements that cross each other or a restarted transfer. Safety only.
  (`EdgeNeverRetreats` is proved, not run.) There is one client here, and port 69
  gets its read requests only; what else may come there is in `NetbootServer`.
* `TftpPort` — the sender of `netboot_server.asm`, which counts blocks and file
  offset apart.

Three blocks give a first, a middle and a short one, and stale acknowledgements
of two different blocks; the fourth lets a window of two slide. Numbers do not
wrap within a file: `FileAssumption` bounds the file below 2^16 blocks, above
what a record holds. `FileLen` exceeding the window matters, which is why both
are there.

*Fairness.* The server has no timer. `FairSpec` asks: weak fairness of the
client's timer and of its ARP reply, which the caller's receive timeout
(`OnTimeout`) justifies; strong fairness of each receipt, that is, a datagram
sent over and over arrives in the end. Without the second no protocol completes;
it is asked of receipts only, each by block number, never of the client's or the
server's own choices. Loss and duplication stay unfair and unbounded.

### Several hosts

`NetbootServer` is `Server.OnFrame` without ARP: `OnRequest` (a lease for each
MAC, `leases` and `nextIdx`), `OnRRQ` (a read request replaces `client` and
`xfer`, a miss drops the transfer), `OnNoReadRequest` (a write request or a
malformed one, from any machine: it clears `justOACKed` and is dropped),
`FirstData` (any datagram to the transfer port after an OACK) and `OnACK`. The
hosts are boot ROMs: they boot, ask for their files in turn, may decline a
transfer after its OACK or be told a file is missing, and take DATA as
`ClientXfer` does. `net` holds every datagram ever sent, so loss, delay,
repetition and any order are all covered, and so are the acknowledgements of a
host's earlier requests.

Run **netboot_server**: two boot ROMs and a laptop that is none, a pool of two
addresses of which the second wraps the byte, five requests (a serial-directory
probe that misses, a file asked for twice, one of three blocks, one of two with a
last block of 512 bytes or more). `AddressesHold`: one address per host, never
shared while the pool suffices, and the laptop uses none up. `EachGetsItsFile`:
what a host stores is its own file, in order, to the last block.
`NobodyElseMovesIt`: the one transfer is never more than a block ahead of its own
client, and done only when that client has the file, or when it had sent nothing
and something that was no read request had come to port 69: an exception the code
makes (section 4), and the only one. The last two properties rest on
`PortsDiffer`, that requests come from different UDP ports: the server knows a
client by nothing else.

### Reads and pushes of the SD card

`ServePush` is `OnFrame` of `serve.go`: `startWrite` and `recvData` for pushes,
`StartTransfer`, `FirstData` and `OnACK` of `ServerLoop` for reads, and the order
in which a datagram to the transfer port is offered to the receiver, to
`justFirst` and to the transfer. A pushed image goes through `RawSink` into
sectors, a flat file is kept as it came. The clients are an ordinary TFTP `put`
or `get`, each with a port of its own; `net` holds every datagram ever sent. A
file is a sequence of units with a token each, a block some of them, a sector
some others, so that what is stored can be compared unit by unit.

Run **serve_push** lets any three of six clients take part (`Casts`; four at once
need more than five minutes): pushers of an image of the right size whose blocks
straddle sectors and whose last block is empty, of an image that is one unit short
and that padding would complete, and of a flat file; readers with options, without
(the transfer then starts with DATA 1, in blocks of the default size), and of a
name that is not there. Three is where two clients of one kind and one of the
other interfere. There are two free records, so a third push finds none, and each
of the three record strategies.

* `EndedIsWhole` — a reader has a prefix of its file and, at the end, all of it; a
  pusher told of success has its file on a record. The second is stated for files
  that are acceptable; for the others see section 4.
* `KeepsTheShelf` — `RecordShelf` is the promise to whoever else uses the card: a
  taken record is never written again, and a record gets one client's whole,
  acceptable file.

### HTTP provisioning

`TcpConn` is `Conn` with its streaming sink, as functions of the connection's
state: `Connect`, `OnSegment` (SYN-ACK, data, FIN, what is ignored) and `Send`,
over a sequence space of `SeqSpace`. There is no retransmission and no
reordering buffer, in the code and so in the model. `HttpProvision` is the rest:
`BodySinkWrite` drops what comes before the end of the header, chunk by chunk;
`OnFrame` dispatches on the fetcher's phase; `OnStreamFrame` ends a file with a
verdict in `res` and `NextFile` empties the store's file for the next. What was
hashed stands for the hash. The server and the network are external: any stretch
of the response to a request that arrived may be received at any time, so
segments are recut, lost, repeated, reordered, and left over from earlier files;
`una` is how far the server believes the client to be.

Run **http_provision**: three fetches of two names (the second fetch of a name
empties what the first had stored), a response that fits a window, an empty
one, and one whose header ends across two windows before a body that looks like
the end of a header; sequence numbers wrap in all of them (space 32, initial
numbers 29 and 30). `BytesInOrder`, `VerdictIsRight` (verified exactly when the
pinned bytes were sent; only if, when the header exceeds a window),
`VerifiedIsStored`, and `Completes`: if all that the client sends arrives
(`reliable`), the plan is worked through. *Fairness*: weak for the ARP reply and
for the caller's `Next`; strong for the server's retransmission of its SYN-ACK
and of what follows `una`, which is what TCP does at the other end. Nothing is
asked of the client but to handle what arrives.

### Edit model

`EditModel` models every method that changes `Document`, and `Serialize` then
`Load`. A line is its id and its length: splits, merges and lookups depend on
nothing else. `TextDocument` is the editor's promise: a sequence of lines, undo
that restores the previous document, ids included, and redo that restores what
undo left. The implementation keeps inverse edits, not documents, so the
refinement mapping rebuilds the history by un-making the journal's entries from
the current lines. Run **edit_model**: lines of 2 and 5 bytes in blocks of 8
that merge below 3 (so that two long lines overflow, one short line merges, and
a split can leave unequal halves), a journal of 2, and 4 ids. Also `LocExact`
(the id table) and `JournalIsLive` (no `Undo` or `Redo` can panic).

### Assembler

`FrontEnd` holds what `frontend/` does before and after its parser, as functions.
`Preprocess` walks lines: frames of `.if`, `.else`, `.endif`, macros with at most
one parameter, includes, `.set` of a literal, and where the lexer will say that a
line stands. `Flatten` sorts records into the sections of a layout, sizes each on
its own, chains their starts, and keeps of the sections past the second their
labels only, as `.equ` of an address. A line is the record it parses to;
`AsmRecords` has those and their expressions.

`Assembler` composes the stages: the preprocessor one line a step (`ReadLine`),
`Read` and `LayOut` (a step each), then `Pass1`, `Pass2WithMap` and
`Pass2WithErrata`, one record a step. Records may also be
handed straight to the back end (`opts.parsed`), as its callers do.
`res` is `Pass1Result` (its maps under their names, shortened), `pending` the
pool entries since the last flush, `image` the output as chunks of code, data,
padding and pool words, each with its address, its record and the address or
value it encodes. An instruction is a class (of the errata predicates) and its
operand; encodings are left out. `Pass1` and `Pass2` compute sizes apart, as
the code does; in particular pass 2 lays the pool out word by word from where
it stands and compares with the address pass 1 noted. `Flatten` computes them a
third time.

Run **assembler** takes four kinds of source (`MCInputs`):

* all programs of up to five records over a byte that misaligns, alignment,
  `.org`, `.set`, `.skip`, `.ltorg` and either a label with literals of both
  widths and of shared and distinct expressions (`LiteralRecords`, the label
  defined once) or numeric labels with references both ways (`LocalRecords`):
  five suffice for a literal shared over a misaligning byte, two flushes and a
  value-symbol;
* up to five instructions of the errata classes with alignment, near the end of
  a page of 16 bytes: enough for an inserted NOP that moves an ADRP;
* up to four records over four sections, after a value-symbol and an eight-byte
  literal: code and data that misalign, a section whose records ask for more
  alignment than its layout, labels in each;
* up to five lines that nest and misplace conditionals, macros and an include
  which sets a symbol and defines a macro with a conditional in it; or four
  lines inside a conditional on what the included file set.

The checks:

* `SourceIsRead` — a line is assembled, once, if and only if every conditional
  around it is on its side, told from the source alone; errors name its file,
  and a line number that is right after every return from an include or a macro.
* `NothingOverlapsTheImage` — the addresses `Flatten` computes for the sections
  that leave no bytes lie above everything that the passes go on to emit.
* `LayoutAgrees` — every address pass 1 handed out divides the image as its
  record divides the source, without gaps, up to the announced size. Records
  before the `.org` that sets the origin have addresses below it and take no
  room; the property leaves them out.
* `LdrFindsItsWord` — the slot an `ldr =` names was emitted, has its width and
  alignment, and holds the value of its expression.
* `RefsFollowSource` — `1f` and `1b`, looked up by address, are the nearest in
  the source.
* `HazardsSeparated`, `NoVulnerableADRP` — what the two workarounds achieve,
  after the layout they themselves disturb.

All but the first two and the last are about sources in which no label has the
name of another, or of a value-symbol before it (`NamesOnce`); see section 4.

### Work-item registry

`RegistryData` holds the pure parts as functions of the items and the queue:
umbrella statuses, expansion of a dependency on an umbrella to its leaves,
topological repair of the queue, validation, minting, `ready` and the gate
column. An id is the sequence of its numbers, `<<48, 3>>` for `i48c`; a record
keeps status, dependencies, kind, owner, PRs, parent and whether it has a
description. `Registry` runs processes over the files: each command takes the
lock if the table `mutatingCommands` names it (`Begin`, or `GiveUp` after the
timeout), reads items, questions and queue one file at a time, changes its copy
(an action per command), writes the ledger at once when it mints an id, and
after derive, reconcile and validate writes the three files one at a time. A
process may be killed between any two steps; the system then releases its lock.

Run **registry**: two processes, any two of the eleven commands, one kill, up to
four items and a question, from five starting registries (`MCRegistry` says what
each is for). `IdsAreMintedOnce`, `FilesAreValid`, `UmbrellasFollowChildren`,
`QueueFollowsItems`, `RankingIsKept`, `RefusedForCause`, `HeadWaitsForNoEntry`,
`GatesMirrorReady`, `NoUpdateIsLost`. The code writes out twice what satisfies a
dependency, for `ready` and for the gate column, and so does `RegistryData`
(`DepSatisfied`, `GateSatisfied`). `stale` marks a process whose copy another
write has overtaken and `raced` that `set-owner`, which takes no lock, was running
together with another command; `torn` marks the time between a kill in the midst
of a commit and the next commit. They are history variables that no step reads.

`CHECK_DEADLOCK FALSE` is set where a system stops by itself: a program
assembled, a file stored, an id supply used up.

## 3 Proofs

Everything below is proved by TLAPS for every value of the constants that
satisfies the modules' named assumptions, which TLC evaluates in the runs.

* `PageProofs`, the pool — `PortAlwaysAgrees`, `HandoutsAlwaysFresh`,
  `RefusedOnlyWithoutRun`. The table is typed (`TableTyped`); the rest is
  arithmetic of intervals: when `NPages < 256` the 8-bit count `NPages - n + 1`
  and the sum `s + n` lose no carry, so the port's set of start positions is
  the authority's. `MaxPages <= 255` is needed and is the code's own limit
  (`PP_FAIL` is 255).
* `PageProofs`, the manager — all properties of the run, among them
  `ManagerImplementsDocStore`, and two more: working pages stay pinned, and a
  manager without a backend refuses only when no page is Free. No checked
  invariant is inductive alone: a page that is freed twice, or a copy left
  behind, shows in another part of the state first. The invariant (`Sound`) is a
  predicate on a *memory*: types, resident blocks placed on pages of their own
  tagged DOC, no other page so tagged, the backend holding the spilled blocks and
  no other, stamps distinct and not ahead of the clock. Each lemma takes one
  inner step of a call (evict, claim, load, undo, free) from a sound memory to a
  sound memory; each action is a composition of these. Refinement then follows
  action by action, since a sound memory determines `Contents`.
* `TftpTransferProofs` — both ways of driving the server at once. The *wire
  invariant* says of every datagram in flight, not of the last one, that DATA
  from the server carries its own number's token and that ACKs do not exceed what
  has been stored; so duplicates and delays are covered, the client stores a
  prefix and only goes forward. The server keeps that invariant and stays
  behind the client. Block by block: between an RRQ and the packet after it
  nothing is outstanding, from then on exactly block `next`, and
  `next - 1 <= acked`. In windows: while a transfer streams, either the final
  block has been sent or the window ends before it (`winAcked + Win <
  FileLen`), so an acknowledgement of the last block is always recognised as
  final, although `maxSent` is computed in 16 bits. Proved: type correctness, the
  prefix, agreement on the end, the sender's bound in each mode, and that the
  whole system implements `FileCopy` (safety).
* `ServePushProofs` — `EndedWellIsWhole` and `ImplementsTheShelf`, for every cast
  of clients, file, block and sector size and strategy of claiming records. No
  property here is inductive alone, since a client's end depends on what its
  server did several datagrams before. The invariant: every DATA ever sent is the
  block it is numbered as; the receiver holds exactly the blocks it has
  acknowledged, and behind it the sectors already written and the sink's buffer
  joined are that same prefix; an acknowledgement of a file's short block is sent
  only once the push has been settled; a record being filled is free until it
  is claimed. `PushAssumption` asks for positive block and sector sizes, an
  image size of whole sectors, and that pushers and readers are different clients.
* `NetbootServerProofs` — all three properties, for any number of hosts,
  requests, files and addresses. Leases: the MAC that came `i`-th has the
  address `Addr(i)`, and `Addr` is injective below the size of the pool, from
  arithmetic modulo the byte. Transfers: every datagram ever sent *tells* the
  truth about the request it belongs to (`WireInv`), a property that the hosts'
  steps keep because they only go forward (`Forward`), and the server's transfer
  is that of one request at most one block ahead of its host (`Serving`). While it
  has sent nothing, either the handoff stands or what is no read request is on
  record as sent (`NothingSent`), which is the exception of `NobodyElseMovesIt`.
  `PortsDiffer` ties an acknowledgement to the request it is about.
* `HttpProvisionProofs` — all three safety properties of the run.
  `VerdictsAreAboutTheStore` needs nothing of the connection: what has been
  hashed is what the store holds for the file being fetched, and a verdict
  compares that. `BytesArriveInOrder` and `VerdictsAreRight` need it all. The
  connection is described by a position in the response (`StreamAt`): `rcvNxt`
  is its image in the sequence space, what lies before it has gone to the sink
  or stands in the window buffer (`BufferAt`), and what the sink had has passed
  the header as far as `Passed` says, chunk by chunk. The network may deliver
  any stretch of the response again; that only the right one is accepted rests on
  arithmetic modulo `SeqSpace` and on `ServerAssumption`, that no response is as
  long as the sequence space. `PortAssumption` gives each fetch its own
  connection, which is how segments of an earlier one are told apart.
* `EditModelProofs` — all three properties of the run, for every block capacity,
  merge bound, journal length and set of line lengths. `Sound`: no two lines
  share an id, no two blocks a pointer, and the table maps each id to its
  block; each of insert, split, absorb and merge is shown to keep it and to change
  the text by one line or not at all (`Grown`). The journal is described by the
  documents it stands for (`History`): a sequence of documents, each one line
  more or less than the next as its entry says, whose last is the text, with all
  ids below `nextID`; one such chain for undo and one for redo. From it follow
  that neither stack's top can panic, and that rebuilding documents from inverse
  edits, as the refinement mapping does, gives back exactly the chain, whatever
  splits and merges lay between and wherever the journal was cut. `Filled`, the
  re-blocking of `Load`, is a recursive function; that it exists, and that it
  keeps text and ids, is proved too.
* `AssemblerProofs` — five of the properties of the run, for every source, every
  layout and page size, and programs of any length. `WellFormed` holds for every
  source: the records are records, pool entries and notes of pass 1 refer to each
  other correctly, and the image is a run of chunks without a gap, each of which
  is one its record asks for. It takes in that pass 2, which lays a pool out word
  by word, ends where the arithmetic of pass 1 said (`PlacedIs`), so "pool flush
  mismatch" never happens; that `Flatten` and the insertion of NOPs make programs
  of programs (`FlattenTyped`, `WithNopsIs`); and it is enough for
  `AssemblerADRPsSafe`. The other four are about both passes at once and need
  `InStep`. While pass 1 walks there is an address for each record so far (`Laid`):
  they ascend, each kind moves on from its own as it should (`Moved`), flushes and
  loads are noted at addresses of records of their kind, no two of them at one,
  every pool entry has its slot in a flush or waits for one, and the numeric labels
  are listed in source order. While pass 2 walks all of the source is so laid out
  (`LaidOut`), pass 2 stands at the address of its record, what has been emitted
  for a record lies between its address and the next, every slot flushed and every
  instruction passed has its chunk (`Lock`). Two things are in the way of a plain
  equality. Until the `.org` that sets the origin, pass 1 stands at 0 and pass 2 at
  the origin (`Early`): nothing that takes room can stand there, since it would have
  moved pass 1. And padding by a negative count takes pass 1 back over addresses
  already given (`Back`); pass 2 cannot emit it, so such a source never ends well,
  and the invariant says no more than that it lies ahead (`BackAhead`). From `Lock`
  at the end of the source each property follows about the finished image: numeric
  labels, for instance, because an address looked up ascends with the source and
  the word itself takes room (`AddressFinds`). For `AssemblerHazards` also that the
  workaround finds every pair the source leaves bare (`PairIsFound`), and that with
  a NOP before each no pair is bare (`NopsSeparate`, `AssemblerSpaced`).
* `RegistryProofs` — type correctness and all properties of the run, for any
  number of processes, commands and kills. As long as
  `set-owner` has not interfered, at most one process is past its `Begin` and it
  holds the lock, so what it has read is what the files hold and nobody writes
  between its read and its write. Items and questions are two files: between the
  two writes the new items lie beside the old questions, and that pair is valid
  because a command only adds questions or, when it deletes one, has removed
  every reference to it (`ValidWithOtherQuestions`). An id is fresh because it
  exceeds the greatest in the ledger and the files, and the ledger, which is
  written before anything is validated, only grows. `GoodCopy` says what a
  command may make of its copy: records of the right shape whose parents form a
  forest, only ids that the ledger has or the command mints, a queue without
  repetition; each action of `Mutate` is shown to keep it (`MutateEdits`).
  `OrderInv` follows a commit
  through its three writes: the copy that is being written has derived umbrellas
  and a queue in order; from the first write until the last the queue on disk is
  that of older items, and when the process is killed there `torn` says so until
  the next commit, of either kind, has written its queue. That derived
  statuses agree with the children is no matter of unfolding: `DerivedStatus` is a
  recursive function, and its equation has a solution because the items that
  count as closed are the least set closed under the rule
  (`ClosedItems`, `StatusExists`), so no bound on the nesting is needed.
  The repair of the queue is a depth-first walk, a function of a stack. Every
  state of the walk is shown to end (`WalkEnds`, by the number of entries not
  yet entered and the length of the stack), so the recursive definition has a
  value, and `WalkInv` gives what it is: every entry once, and, unless the
  prerequisites run in a circle, each behind its own. So the queue of every
  commit lists exactly the pullable items (`QueueAlwaysFollows`), a refusal
  alone on the registry is never the repair's fault (`RefusalsHaveCause`), and
  `Ready` and `Gate` agree on the entries (`GateMirrors`).
  That the walk keeps the ranking (`RankingAlwaysKept`) needs to know why an entry
  is on its stack. When `x` stands before `y` in the list the walk starts from,
  what is to be done about `y` in its own place comes after `x` (`WaitsForX`); so
  when `y` has been left and `x` has not, something that needs `y` has been left or
  lies on the stack (`CalledFor`), and when `x` is left in turn, that entry has
  come or needs `x` as well (`Excused`). `RankedInv` carries this from the edit to
  the write of the queue, where it is compared with the queue on disk. It holds
  for circles too, which the validator refuses only afterwards.
  `SeedsAssumption` says that the starting files are as an earlier commit left
  them: valid records with well-formed ids, a queue in order that is empty only
  without pullable items, derived umbrellas.

The library's induction theorems take an operator, which the installed provers
cannot instantiate. Where a proof needs induction over data it takes the least
counterexample instead: the set of numbers for which a statement fails is a
subset of `Nat`, `NatLessThanWellFounded` and `WFMin` give its least element, and
the step refutes it (`Climb`). That recursive functions exist comes the same
way. Arithmetic modulo a variable is done with quotients picked as witnesses.

Only model-checked: liveness (both `Completes`), which needs fairness and
`ENABLED`; and two properties of `Assembler`. `SourceIsRead` defines which lines
are in a conditional from the whole file, by counting, and the preprocessor keeps
a stack of frames through macros and included files: it would need an induction
over the nesting of expansions as well as over lines. `NothingOverlapsTheImage`
compares the sizes `Flatten` computes, in folds over each section and each label
of all of them, with a later pass over other records.

## 4 What the runs found

Two runs end in a counterexample to what the repository says of itself:

* **tftp_port_copy** — the Z80 server answers a duplicated acknowledgement with
  the right number over the wrong bytes; the client stores them. Its comment
  says that it mirrors `serverloop.go`, which sends the same block again.
* **registry_set_owner** — `set-owner` rewrites the registry's files without
  taking the lock that `lock.go` says every such command runs under; it writes
  its older copy over another command's commit.

Not backed by a run, met while modelling, and kept out of the checked instances
by the bounds or qualifications named here:

* a server that grants a window larger than one (`Server.OnFrame` streams one
  block per acknowledgement to a client that is silent until its window is full;
  `Win = 1` in the lock-step run);
* after a late repeat of the RRQ the windowed sender can repeat one window for
  ever (no liveness is claimed with `Windowed`);
* a client of a push whose ERROR is lost repeats its final block and is answered
  as if it had succeeded (`serve.go:450`; of pushers, `EndedIsWhole` is about
  acceptable files);
* `Server.OnFrame` clears `justOACKed` for every datagram to port 69 before it looks
  at it (`server.go:115`). A host has stored block 1, its ACK 1 is on the wire, and
  its repeated read request has armed a fresh transfer; another machine's write
  request clears the flag and is dropped; the late ACK 1 finds an empty buffer,
  which counts as "the short final block" (`serverxfer.go:149`), and the transfer is
  done after one block. What the host stores stays right (`EachGetsItsFile`); until
  it asks again it is sent nothing more. `NobodyElseMovesIt` excepts this case,
  and is violated by it, in fifteen states, when the exception is taken out;
* the same in `serve.go`: a request of another host, a push for example, takes
  `justFirst` away from a read that has its OACK and has sent nothing
  (`serve.go:367`). An acknowledgement of
  block 1 that an earlier transfer of the same client left on the wire is then
  taken for that of the short block (`len(s.sent) < s.blksize`, `serverxfer.go:148`):
  `Done` reports a transfer "completed" of which nothing was sent, and the read
  stalls. `EndedIsWhole` speaks of what the client has, which stays right;
* the first datagram to the transfer port after an OACK, whosever it is, starts
  the stream (`server.go:128`), possibly before the client adopted the block
  size: then a last block of 512 bytes or more never ends its fetch;
* the NOP inserted for 835769 may use up padding that had kept a load and a
  multiply-accumulate apart, and one re-layout does not look again
  (`HazardsSeparated` admits pairs that padding separates in the source);
* a label with the name of another, or of an earlier value-symbol, is accepted, and
  the last one wins (`pass1.go:176`): sizes that pass 1 had computed with the first
  are then computed with the last by pass 2 (properties with `NamesOnce` except
  such sources);
* `ldr x0, =.` twice shares one slot, evaluated where it was first seen
  (`LdrFindsItsWord` excepts expressions that depend on the place);
* an edit block that is over capacity is split once, at half its lines, and may
  leave a half that is still over it;
* the Z80 sender ends a transfer on any acknowledgement after its short block;
* the gate column shows ⏳ for an item that waits for an umbrella whose child
  waits for an open question, although `gen.go:400` says that such an item has
  "no question at the root" (`rootQuestions` walks plain dependencies only);
* `preprocess.go:29-34` says that parse errors still point at the original
  source: a line after a consumed `.if`, `.else`, `.endif` or macro definition is
  reported too low, until the next line directive (`SourceIsRead` says what
  holds);
* a NOP inserted for 835769, or a literal outside the code section, is not counted
  in the addresses `Flatten` has fixed (`NothingOverlapsTheImage` excepts both);
* a layout of one section makes `Flatten` panic (`flatten.go:267` takes
  `sections[1]`), and a file that includes itself is read without end.

## 5 Not modelled

* Cryptography, instruction encodings and decodings, compression, file formats:
  functions without state on inputs too large to enumerate; the repository
  tests them exhaustively or against binutils.
* Device drivers (Ethernet, SD, EEPROM): the hardware is not in the repository.
* Text: lexing, parsing, rendering. A line of `FrontEnd` is the record it parses
  to, and what its lexer does to line numbers is counted by the preprocessor.
* In modelled components: windowed transfers with several hosts at once; ARP, and
  DHCP options; the names written into the record list; the
  compact input of the assembler (pre-assembled runs, header label tables) and
  addresses above 2^63; a corrupt document file; `http.Client` and a fetch
  without a sink; the registry's texts, references and rendered views.

## 6 Plan

In order of what matters most:

1. `Storage`: `Card.Allocate` fills what is left of claimed records first, while
   `ServePlan` splits a file by full records from their start: for which cards the
   manifest finds each file where the allocator has put it.
2. `TlsClient`: the order of the flight and reassembly over any segmentation, on
   `TcpConn`.
3. `SpillZ80` (registry of 16 blocks that leaks a page when full, 16-bit clock
   that wraps, one-shot failure latch) shown to implement `DocStore` below its
   limits; `AssembleRuns`, the IN and OUT runs over a session of assemblies.
4. Proofs: `NothingOverlapsTheImage`, from `Laid` and an account of `Flatten`'s
   walks in its terms.
5. The compact input (`.tbn`) of `Assembler`.
6. The Z80 port's shared client endpoint, for reads and pushes at once.
7. `Monitor`: missed merges between polls; `Trampoline`: page registers over
   nested paged calls; `SdPush`.
