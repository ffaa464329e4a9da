# TLA+ models of RUSTEE

RUSTEE is a trusted OS in Rust: a kernel that runs Trusted Applications (TAs)
for clients of the normal world (REE), the TA runtime, encrypted storage in
files of the REE, and the transport between the two worlds. This directory
holds models of its parts, the TLC instances that check them and TLAPS proofs
of properties of the kernel, its tables, the runtime library and storage.
`PROJECT.json` maps each definition to its lines of source and lists runs,
mutants, findings, hazards and theorems.

## 1. Inventory

| Part | State | Operations | What is hard |
|---|---|---|---|
| Kernel commands (`rustee-os/lib.rs`) | session and instance tables, `yielding`, `current_instance`, `current_pta`, cancelled ids | open, rpc_complete, invoke, close, cancel, on_panic, emit_ree_notices | an open yields for LOAD_TA while other commands run; entry points fail or panic half way through a handler; one lock per instance |
| Tables (`session.rs`, `instance.rs`) | slot vectors, wrapping counters | alloc, get, take, poison | full table, wrap of ids |
| PTAs, loader (`pta.rs`, `loader.rs`, `elf.rs`, `header.rs`) | registry | open, invoke, close; parse and verify | panic inside a PTA |
| TA runtime (`rustee-utee`) | handle slots, enumerators, cancellation flag and mask, sessions of the TA | TEE_* functions | handles without generation, full slots, cancel ids shared by all callers |
| Storage (`rustee-storage`) | `dir.v1`, object files, handles | create, open, write, truncate, delete, rename | two files per update, failing file operations, restart between them, stale handles |
| Supplicant (`rustee-supplicant`) | open descriptors, files | file, time and LOAD_TA requests | a file update is many requests; answers get lost; it restarts |
| Client (`gp-client`), driver (`rustee_virt.c`) | the one outstanding call, a pool that only grows | enter, reply to RPC | error exits while a call is outstanding, a full pool |
| Guest loop, HAL (`rustee-guest`, `rustee-hal-virt`) | `waiting`, stream buffers, bounce pools | receive ENTER / RPC_REPLY, dispatch, COMPLETE | a message of the wrong kind while waiting |
| Virtio (`virtio.rs`) | split ring | add, poll | 16-bit indices wrap |
| Crypto (`rustee-crypto`, `arith.rs`) | none | big integers, ciphers | carries, signs, stale limbs |

Interactions: a client enters through the driver and the vsock stream; the guest
loop decodes the command and calls `Kernel::handle`; an open of a TA that is not
loaded returns an RPC, which travels back to the supplicant and comes in again
as `rpc_complete`; TA code calls the kernel through the runtime; storage reaches
its files through supplicant RPCs.

The properties each part should have: the kernel counts sessions exactly, never
runs a dead TA, frees its locks on every path, kills exactly what a panic must
kill, and answers every call; the tables are maps; storage never shows replaced
contents and keeps acknowledged ones; the transport delivers one answer per call
and tells its caller what became of the call; the runtime's tables agree with
what the kernel gave it, and its functions compute what the API says; the ring
never hands out a descriptor the device holds.

## 2. Modules

| Module | Content |
|---|---|
| `Kernel` | The kernel: state, actions, properties, refinement mapping |
| `SessionService` | Abstract: what clients may see of session ids |
| `KernelInv` | The inductive invariant |
| `KernelTypes`, `KernelLocks` | Proofs about the kernel: types and id ranges; locks |
| `KernelSteps`, `KernelSessions` | What each step does to the two tables; proofs about sessions, instances, panics, cancellation, and the refinement of `SessionService` |
| `MCKernel` | TAs, images and parameter lists of the TLC instances |
| `IdTable`, `SlotTable`, `SlotProofs` | A map from ids; the slot vector that implements it; the proof that it does |
| `Storage` | ReeFs over unreliable file operations |
| `StorageSteps`, `StorageProofs` | The invariant of storage and its preservation; theorems about storage |
| `RpcFs` | A whole-file operation as chunked requests to the supplicant |
| `MCStorage` | The instance of both storage layers |
| `Transport` | Client or driver, vsock stream, guest loop, call gate, bounce pools |
| `Virtq`, `PacketFifo` | A split ring with its device; abstract: a bounded FIFO |
| `UteeClient`, `UteeEnum`, `UteeTime`, `UteeHeap` | Parts of the TA runtime: sessions and cancel ids; object and property enumerators; persistent time; the heap |
| `BigInt`, `UteeArith` | Big integers limb by limb; the calls a TA makes, against integer arithmetic |
| `UteeProofs` | Proofs about the session table, object enumerators, time and heap |
| `MCUtee` | The instance of the runtime's parts |

### Kernel

The variables are the fields of `Kernel`, plus `call`, the entry point of a TA or
PTA that is running, `out`, the last answer, and `notices_ok`, whether the
notices for REE-provided entropy went out. `Kernel::handle` takes `&mut self` and
runs on one CPU, so a command is one action up to the point where it calls
foreign code. There it ends with `call` set; `...Returns` is the rest of the
handler and `TaPanics`/`PtaPanics` abandon it, as unwinding does. Helpers keep
the names of the functions: `MapParams`, `AddSession`, `BindSession`,
`InstantiateAndBind`, `ReleaseInstance`, `PoisonInstance`.

A TA image is its header flags and whether it exports entry points. A parameter
list is the number of memory references that map and how the next one fails. The
two tables are maps from id; `SlotTable` shows that the vectors implement that.

`on_panic` is called by the host build and the tests. In the guest build
(`GuestBuild`) TEE_Panic and the panic handler spin for ever.
`PanicPoisonsItsInstanceOnly` is about every step in which a TA panics and the
kernel gets control back: the instance that ran is Dead afterwards, its sessions
and no others are, nothing else changes, and the answer is TARGET_DEAD.

### SlotTable

A vector searched from the front and a counter of `Wrap` values (2^32 in the code).
`alloc` does not look whether the id is in use: the model assumes that no entry
lives through a whole turn of the counter (`age`), and the refinement of
`IdTable` is relative to that.

### Storage

Files are their decrypted contents, or Missing, or Torn. A step is one file
update together with the reads and local code before it. With `Faults`, a read
may fail; a write may fail and leave the old, the new or a torn file; a removal
may silently not happen; and the guest may restart, which ends the call and
loses the handles. `may` and `calm` are history variables for the properties.
Authenticated encryption is taken as: a file decrypts exactly under the file id
and version it was written with. The REE putting back older files is out, as the
repository promises nothing there.

`RpcFs` justifies the step: it takes one such update apart into open or create,
writes of `CHUNK` bytes, truncate and close, each a request that fails before,
within or after its effect, with the retries of `RpcFs::write` and of ReeFs
(`Attempted`). The supplicant keeps a table of descriptors, which a restart
empties while the guest still holds a number. `FileCallsExact` says that Ok means
what `WriteEnds` in `Storage` takes it to mean. The `FsClient` between the two
exists only in the tests and is marked external. `orphans` counts the descriptors
nobody can close any more. In `MCStorage` a behaviour runs one of the two layers.

### Transport

The host is either the client library over `StreamTransport` or the Linux driver
(`kind`), with one context at a time, which it may drop and open again. A PDU
(header, frame, window of the bounce pool) travels as three packets; the guest
takes them from its receive queue (`GuestPoll`), collects bytes in `conn`, and
`take_pdu` cuts out a message when all of it is there. Then the call gate and the
main loop act as one step, since the guest is a single polling thread: dispatch,
park on an RPC (`waiting`), resume, or `fail_halt`. What it sends leaves through
the transmit queue, `Virtq`, with its own device steps. Host and guest have a pool
each, and a window is copied with each message, so stale contents show up as
another call's message. The kernel is reduced to success, a refusal (of any
command, at any time), or a LOAD_TA request in the middle of an open; `Kernel` has
the other half of that exchange.

`Fail` sends, receives or connects of a behaviour fail, after any number of the
three packets. A context that went away leaves packets of its socket behind.
`runs` counts how often the kernel got each call, `served` holds the calls it
answered with success, and `res` is what the caller saw; `ResultTellsExecution`
relates them. Its exceptions are cases where the code does not deliver:

- `invoke` and `close_session` of the library do not look at the answer, so their
  Ok means that the kernel got the call, not that it did what it was asked;
- `register_shm` does not look either, and the guest rejects it;
- the allocator of the client grows into the window at `RPC_COOKIE`, although
  the comment at `proto_cmd.rs:46` rules that out, and a LOAD_TA then overwrites
  the message of the call it serves;
- the driver takes any COMPLETE for its own after a failed receive, and never
  answers an RPC.

The driver is documented to return COMMS when the guest asks for an RPC, so that
the open fails is no finding. `NextCallIsServed` is about the call after it: the
driver lets it in, and the guest, still parked on the first one, halts
(`transport_rpc`).

### TA runtime and big integers

The parts keep their state in different fields of `Core` and do not call each
other, so `MCUtee` runs one part per behaviour.

- `UteeClient`: open, invoke, close; the table of `SESSION_SLOTS` entries; cancel
  ids that wrap past 0. `open_ta_session` returns a handle even if the table had
  no room; the model marks that (`crowded`) and the use of the handle panics.
- `UteeEnum`: enumerators as slots without generation. Objects change between
  `start` and `next`. The table `PROPS` and the arms of each getter are sets of
  names; `EnumeratedPropertyReadable` relates them. Binary blocks go through a
  buffer of 256 bytes, which a version or description of a TA may exceed
  (`binary_of`, for every choice of the strings that do).
- `UteeTime`: set and get, with a clock that also moves back; `PerSecond` in the
  place of 1000 and `MaxSecond` of the largest u32.
- `UteeHeap`: the arena as a function from addresses to bytes; malloc, realloc,
  free and writes of the TA. Freed memory is never used again.
- `BigInt`: sign, count, limbs of `Bits` bits in a buffer of fixed length, with
  whatever was there before above the count. A function that may index out of
  bounds, which panics, has a set of results, empty where it does. `Tmp` is the
  length of the temporaries (`[0u32; 130]`, 128 limbs) and of the largest number.
  `UteeArith` performs one call on all pairs of operands, up to that length, and
  compares with `Integers`.

`ArithIsExact` says how much room each function needs to be exact, and that it is
exact, and does not panic, with that room: `add` of equal signs needs a limb more
than the longer operand in its destination, carry or not, and otherwise keeps the
old contents; `add_mod`, and `sub_mod` of opposite signs, need it in their
temporary, so they are exact only for operands shorter than the maximum; `modulo` and its users need a
destination that holds the unreduced number, since `div` copies it there, and a
divisor that can be shifted up to it within a temporary (`Reducible`), so `exp_mod`,
which multiplies in temporaries, works up to half the maximum. The extended gcd
and `relative_prime` are called with numbers that are not negative; `to_s32`
refuses the smallest number. `is_probable_prime` is a test of Fermat: the property
is that primes pass, within the same room, and that what passes is 2 or an odd
number that satisfies the congruence for each base, not that it is prime.

So `arith.rs:1` ("maxBigIntSize = 4096", which is 128 limbs, the length of a
temporary) holds for storing numbers but not for all functions: without its
conditions `ArithIsExact` fails, for example, at 0 + 200 modulo 251 in the instance,
where the sum does not go into the temporary and `add_mod` returns 0.

## 3. Runs

| Run | Shows |
|---|---|
| `kernel` | safety of the kernel, with cancellation, panics, failing entry points, full tables and failing memory references (485 k states) |
| `kernel_live` | every call into a TA ends, every LOAD_TA ends, a cancelled one without effect, and the kernel implements `SessionService` (67 k states) |
| `kernel_guest_panic` | violation: in the guest build a TA panic never returns, although the documentation says that the kernel survives |
| `kernel_map_failure` | violation: a memory reference with an unknown cookie drops the address space of the instance, and close then runs code of the TA |
| `kernel_pta_panic` | violation: a panic in `open` or `close` of a PTA does not halt the kernel as documented |
| `slot_table` | the slot vector implements the id map through several wraps of a counter of 8 values |
| `storage` | storage under faults and restarts, and file operations under lost requests, lost answers and restarts of either side (481 k states) |
| `storage_second_create` | violation: creating a second object makes both unreadable |
| `storage_rename` | violation: a rename that returns Ok has lost the object |
| `transport` | what a caller is told is what happened, the guest halts only after an unanswered RPC, every undisturbed call returns, and the transmit queue is a FIFO (356 k states) |
| `transport_rpc` | violation: after an open that ended with the documented COMMS, the next call of the driver halts the guest and waits |
| `utee` | session table, enumerators, properties, time, heap and arithmetic of the TA runtime (80 k states) |

The properties are described where they are defined, each with the code it is
about; the findings in `PROJECT.json` quote the text that the code contradicts.

Bounds. The kernel instance has a PTA, a single-instance TA for one session, a
shared one, and one with an instance per session; tables of two entries and
three ids. Two entries make tables fill up; three ids let an id be spent or
freed and a later one used. `kernel_live` drops a TA and the failing parameters, for
the cost of the liveness check, and has two cancel ids, which tell a cancelled
open from another; the safety run with two ids (1.06 M states) also passes. `SlotTable` has three slots and two owners, so a wrapped id meets
a free slot between used ones. `Storage` has two object ids, file ids, contents
and handles, and versions up to 2, so that objects collide in the directory and
handles go stale; the instance with versions up to 3 and directories of at most
2 entries (3.8 M states, eleven minutes) also passes. `RpcFs` has two paths and
blobs of exactly one chunk and of one and a half, so a shorter one replaces a
longer one and a read ends on a chunk boundary. `Transport` has rings of two
descriptors with indices modulo 4, which wrap several times within a call; two
calls, two sockets and one failure, so that a later call, on the same or a new
connection, meets what a failed one left behind; pools of six units, which two
calls exhaust and grow into the RPC window; and one shared region, so that the
second does not fit. The runtime has tables of two entries, three objects, a
clock that passes the largest time, and limbs of two bits with operands of up to
four limbs, the length of a temporary, of every sign and around the limb
boundaries; destinations of two, four and nine limbs are shorter than, equal to
and longer than a temporary, the last also long enough for a product; moduli take
one to four limbs. Both ways of `shl_words`, with room and without, occur.

Fairness in `kernel_live`: an entry point that runs eventually returns or
panics (weak fairness; the kernel is single-threaded and a TA that computes for
ever stops it, which the code does not claim to prevent), and the reply to LOAD_TA
is handed in if the kernel is ready for it again and again (strong fairness: the
client library answers each RPC on the stream before it reads the next message,
while other commands take the kernel in between). In `transport`: weak fairness of
`Progress`, the steps of a thread that is inside a call, of the device and of the
guest's polling loop together; nobody has to start a call and nothing has to
fail. A single condition suffices because each of these steps moves a finite
amount of data on. Deadlock is checked in the kernel, table and storage runs. A
behaviour of `transport` ends when its calls are used up or the guest has halted,
and one of `utee` after its one arithmetic call or with a full heap.

## 4. Proofs

Every theorem holds for all values of the constants that satisfy the named
assumption of its module, which TLC evaluates in the runs: `KernelAssumption`,
`SlotAssumption`, `FileAssumption` and those of the runtime's parts. They ask
that sizes are numbers and that the values standing for "nothing there" are not
ordinary values.

### Kernel

| Theorem | Property | Module |
|---|---|---|
| `TypeCorrect` | `TypeOK` | `KernelTypes` |
| `RunsLiveInstancesOnly` | `RunningInstanceIsLive` | `KernelLocks` |
| `LocksAreReleased` | `NothingHeldWhenIdle` | `KernelLocks` |
| `SessionsHaveInstances` | `ReadySessionHasLiveInstance` | `KernelSessions` |
| `CountsAreExact` | `SessionCountExact` | `KernelSessions` |
| `SinglesAreSingle` | `OneLiveSingle` | `KernelSessions` |
| `OneSessionEach` | `OneSessionUnlessMulti` | `KernelSessions` |
| `PanicsAreContained` | `PanicPoisonsItsInstanceOnly` | `KernelSessions` |
| `CancelledLoadsEnd` | `CancelledLoadHasNoEffect` | `KernelSessions` |
| `KernelImplementsService` | `ImplementsService` | `KernelSessions` |

All rest on `IInv` in `KernelInv`, which is built up in three layers, each proved
inductive given the ones before. TLC checked it on the `kernel` instance first.

- `TypeInv`. `TypeOK` alone is not inductive: ids stay in range because an open
  reserves one when it is let in (`IdBounds`), and the handlers after an entry
  point index the instance they left (`CallHasInstance`).
- `LockHolders`: a locked Live instance is the one whose entry point runs, a Dead
  one stays locked, and `current_instance` and `current_pta` are set exactly
  during the calls that set them. Without the clause on Dead instances a panic
  could unlock what a later invoke enters.
- `SessionInv`, `OneLiveSingle`, `WaitingForFirst`. The exact count says nothing
  once a guest TA spins in close, after its session left the table and before the
  count went down, so `CountCovers` keeps the inequality that is left. `create`
  and `destroy` run with a count of 0 (`NoSessionAtEnds`), so dropping the
  instance orphans no session. `SessionLimits` counts the session being opened:
  the test for a second one comes before the entry point, the count after it. A
  waiting open has no live single instance (`WaitingForFirst`), which is why the
  reply may create one without looking again.

Each operation has a lemma for its outcome, stated on the instance it touches.
`KernelSteps` sorts the steps by what they do to the two tables (nothing, one
session added or taken, one instance made, changed, dropped or poisoned), and
`KernelSessions` proves the invariant once per kind of change rather than once per
action. The refinement maps each kind to a step of `SessionService` or to a
stutter.

### Slot table

`SlotTypes` and `TableIsMap` (`SlotProofs`): `TypeOK`, and the vector implements
`IdTable`. The invariant says that ids in the vector are distinct, and that the
counter is `age` steps past the id of each entry, so that it cannot come back to
an id in use while entries are `Young`. That is the assumption of the model, not
something the code checks; with it `Wrap` and `Cap` are arbitrary.

### Storage

`StorageTyped`, `NothingStale`, `AckedWritesOpen` and `CalmObjectsOpen`
(`StorageProofs`) are `TypeOK`, `NoStaleData`, `AckedWriteOpens` and
`OnlyObjectOpens`. `FileAssumption` says that Missing and Torn differ and are
neither a directory nor an object, and that the id `Zero` names no file.

`StorageInv` has the types, `DirOk` of the directory, and `CallOk`. The directory
that `store_dir` writes may have several entries for one object, so `DirOk` says
that only the first has a file (`Doubles`) and that what any entry shows is among
the contents its object may have (`Fresh`). `CallOk` says what an interrupted
call has in hand: its object file is written, the contents are allowed, and the
rest of a directory that delete and rename are about to write is part of the old
one and names no file of the deleted object. Failure, tearing and restart need no
clause of their own: they only lose parts of what is there.

For `OnlyObjectOpens` there is a second invariant, `CalmOk`, for the behaviours in
which nothing failed: each file has one owner among directory, handles and call
(`OneOwner`), and the directory has no object twice. Handles are included because a
stale handle can still write.

`position` and `store_dir` search and rebuild sequences. The lemmas about them
(`PositionFinds`, `StoreDirIs`, `UpsertIs`, `Removed`) describe the result by
index, so the rest of the proof needs no induction over sequences.

### TA runtime

| Theorem | Property | Argument |
|---|---|---|
| `TableHasTheSessions` | `SessionTableExact` | no id is in the table twice, crowded or not; while it was never crowded, entries in use and open sessions correspond |
| `EnumeratorsGiveSnapshots` | `EnumeratesSnapshot` | an enumerator holds the list it was started with and has given its first `idx` objects; a free slot has forgotten all |
| `TimeIsExact` | `PersistentTimeExact` | milliseconds stay below `PerSecond`; carry and borrow against the clock in milliseconds, which may move back |
| `HeapIsKept` | `HeapKeepsContents` | blocks with their headers are apart and below `used`, and each header has its magic and length, which realloc and free rely on |

All four are in `UteeProofs`.

### Only model-checked

- Liveness, of the kernel and of the transport: fairness and ENABLED are out of
  the prover's reach.
- `ArithIsExact`: the big integers are folds and recursion over limbs, and what
  they compute for every length needs induction over data.
- `EnumeratedPropertyReadable`: a fact about the fixed table of properties and getters, all
  of which the run visits.
- `RpcFs`, `Transport` and `Virtq` with their refinement of `PacketFifo`: not
  proved yet.
- The documented statements that the violation runs refute.

## 5. Not modelled

- Byte formats of ELF, signed images and messages; ciphers, hashes, signatures,
  the Montgomery form of big integers: pure functions over bytes.
- Page tables, boot heap, UART and PCI set-up, the TrustZone stub, sample TAs:
  straight-line register access, stubs and examples.
- The C entry points of the runtime and its conversion of parameters between C
  unions and Rust enums; the cancellation mask and flag of a TA.
- Fast SMCCC queries, the loopback transport of the tests, the entropy device:
  a request and its answer, or a busy wait.
- Two threads in one driver context: the driver does not lock, so that is a data
  race on its pool, with no documented outcome to check.
- Directory listing, time and name checks of the supplicant, which change no
  state; file requests over the wire, whose guest side does not exist.

## 6. Plan

Proofs: `FileCallsExact` and `DescriptorsClosed` of `RpcFs`; the ring as a FIFO
(`Virtq`); `ResultTellsExecution` of `Transport` if the stream of packets can be
described by index.
