# Sharun Dream's: a verification project

Sharun Dream's is a TERA game server in C++: a process with a main thread, acceptor
threads for game and HTTP clients, a pool of HTTP workers, two overlapping pools of
database workers, a packet cipher, and plugins that handle opcodes. It is small, and
nearly everything that is hard about it lies between its threads or at the ends of its
integers and buffers. This directory holds TLA+ modules translated from its source, the
TLC configurations that check them on small instances, and proofs (TLAPS) of what
matters most for every value of the constants.

    tlc -config MCHttpD.cfg MCHttpD        # model-check a run
    tlapm HttpProofs.tla                   # check the proofs of a module

Contents: [the system](#the-system) - [modules](#modules-and-the-code) -
[what is abstracted](#what-is-abstracted) - [runs](#runs-and-bounds) -
[fairness](#fairness) - [proofs](#proofs) - [what the checks found](#what-the-checks-found) -
[plan](#plan).

## The system

`main` (main.cpp) loads the settings and the opcode files, starts the database workers,
makes the listening connexions and the HTTP workers, and only then loads the plugins. It
then reads commands until it is told to stop; it deletes the network, closes the worker
pools (`Fixed_thread_Close`), and deletes what is left.

| component | state | operations | what makes it correct |
|---|---|---|---|
| worker pool registry (Fixed_Thread.cpp) | a mutex made by the first user, a doubly linked list of workers, the list of cleanups | `Fixed_thread_Add`, `_Del`, `_Signal`, `_Cleanup`, `_Close`, `_Close_Add` | the mutex excludes; the list holds the registered workers in order; nobody uses a freed entry; shutdown ends |
| threads (thread.cpp, pthread_sub.cpp) | per thread `run`, `id`, a condition variable without predicate; a global list | `start`, `wait`, `signal`, `join`, `internal_delete` | no wake-up that matters is lost; join ends |
| HTTP request queue (HttpD.cpp) | `httpd_queue` under the pool's mutex | `HttpD_Add`, the loop of `HttpD_Thread`, `HttpD_Cleanup` | every request has one owner, is served once, in order, eventually |
| HTTP answering (http.cpp) | one request | `HTTP_Work`, `HTTP_Transform_*`, `HTTP_Direct` | a reply is of one page; placeholders are replaced by what they stand for; it ends |
| connexions and acceptors (connexion.cpp, network.cpp) | a global list of `connexion_list` objects, their sockets | constructor, destructor, `HttpD`, `GameD`, `start`, `stop`, `connexions_cleanup` | the list is exact; a connexion has one owner; nobody uses a deleted one |
| game link (connexion.cpp) | two 128-byte keys, then packets in a byte stream | `Recv`, `Recv(packet)`, the game part of `GameD` | the packets read are the packets sent; the cipher stays in step |
| stream cipher (Cryptor.cpp) | three generators with two positions each, the rest of a key word | `ApplyCryptor` | the key byte used depends on the place in the stream alone |
| packet (packet.cpp) | `size`, `size_max`, `pos`, `pos_switch` as ushorts, a buffer | read, write, seek, swap, strings, head, clone | accesses stay inside the buffer |
| database workers and client (MySQL.cpp, DB.cpp) | two queues, two registries, queries | `MySQL_Add`, `MySQL_Thread`, `MySQL_Work`, `Query_*` | a query has one place and comes back with its answer |
| opcode tables and plugins (OpCode.cpp, Plugins.cpp) | per client version: names, ids, handlers, the id that detects it | `load`, `Set_Recv`, `Recv`, `Plugin_Scan` | a packet reaches the handler of its name |
| settings (settings.cpp, config.ini) | the settings, the last value read | the loop over the words of config.ini | a setting is what the file gives it |
| lifecycle (main.cpp, thread.cpp, DB_internal.cpp, network.cpp) | the global list of `thread_list` objects, the threads and listeners there are | start of every thread, the command loop, SIGINT, shutdown, `thread_L_cleanup` | the list is exact; queries have workers; the end comes after the last use |
| session keys and SHA (Session.cpp, Sha.cpp) | four keys, a buffer of digests, a block of the hash | `Session`, `ShiftKey`, `XorKey`, `GenerateKey`, `Input`, `PadMessage` | both ends make the same keys, of all the bytes of the four |
| texts (char16_t.cpp, utils.cpp) | one text in memory | lengths, conversions, comparison, search, copies | a conversion stays in its memory; a text arrives as it was sent |
| login handler (C_LOGIN_ARBITER.cpp) | the accounts | SELECT, INSERT until there is one | one account a name; it ends |

How they interact: acceptors hand requests to the HTTP workers through the queue; both use
the list of connexions, which main empties at shutdown. GameD ends in `opcodes::Recv`, whose
handler asks the database through a queue and sleeps on the query; main fills the opcode
tables at the same time. Every pool is a client of the registry, and main joins the workers.

What is hard, at the lines where it bites, is the list of hazards in `PROJECT.json`. The
pattern behind most of them is one of four: a wake-up that is lost because the condition
variable has no predicate; a list read or changed without its lock; an object used after
another thread deleted it; and an unchecked size, result or order of calls.

Not modelled at all, with reasons in `PROJECT.json`: the player record, GameD.cpp (a copy of
HttpD.cpp nobody calls), the thread counter (numbers nobody reads), build scripts and assets.

## Modules and the code

    FixedThread          registry, threads, shutdown of one pool
      HttpD              EXTENDS FixedThread: the queue and the requests; implements
        WorkQueue        the abstract queue (INSTANCE ... WITH in HttpD)
    HttpReply            one HTTP request
                                                  HttpProofs (of the three)
    MySQL                two overlapping pools, their queues, clients, shutdown
                                                  MySQLProofs
    Lifecycle            EXTENDS Settings: config.ini, the threads made of it, the end
                                                  LifecycleProofs (of both)
    Connexions           the list of connexions, acceptors, a worker, shutdown
                                                  ConnexionsProofs
    GameLink             one game client          GameLinkProofs
    Session              EXTENDS Sha and Cryptor: the keys of a session, then its data
      Sha                the blocks and the padding of the hash
      Cryptor            the cipher               SessionProofs (of the three)
    Packet               the packet class
    Text                 conversions of texts (with Packet in MCPacket)
                                                  PacketProofs (of both)
    Dispatch             opcode tables, plugins, the login handler
                                                  DispatchProofs

`PROJECT.json` maps each definition to the lines it stands for. The correspondence in short:

* **FixedThread.** `init`, `onClose`, `mtx`, `head`, `tail`, `next`, `prev` are the fields of
  `Fixed_thread_W_t` and of its nodes (a node has its worker's name), `run` and the program
  counters those of `thread_list`. One action per step that another thread can see: the
  test of `init`, its assignment and the initialisation of the mutex are three; linking
  under the mutex is one; the walk of `Fixed_thread_Signal` is one step per read or signal;
  `join` is its write of `run`, its signal, its read of `id` and its end. `seen` is what a
  walker read from a node. `broken`, `crash`, `ticket`, `clock` and `missed` are history:
  whether the mutex has been reinitialised while in use, where an invalid access happened,
  the order of registration, and which wake-ups a worker missed between its unlock and its
  wait. They do not influence the behaviour, except that nothing happens after a crash.
* **HttpD** adds `queue`, what callers carry and workers hold, and the allocated requests.
  Each of its steps is a step of FixedThread (`HttpDIsAPool`, proved), so what holds of the
  pool holds here. `HTTP_Work` is the step that serves and deletes a request.
* **WorkQueue** is what HttpD.cpp promises: requests are accepted at the back, taken from
  the front by one worker each, and finished. The mapping closes it when the mutex is
  broken.
* **MySQL** takes the registries as sequences and each section of the slow mutex as one
  step; the fast mutex is held over several steps and is a variable. Which of the workers are
  started is an initial choice. Test, assignment and initialisation of the mutex are three
  steps as in FixedThread; an initialisation while somebody holds the mutex, or may be in its
  section, sets `broken`. Fast workers register
  in the slow pool, clear that entry's thread, and register in the fast pool; the loop looks
  at both queues, takes from the fast one and then from the slow one (and drops what it took
  when both had something), works, writes the result, signals. `rows` are connections with
  an answer still open. A client's job goes through add, walk, wait, read, delete.
* **Connexions** has the list as a record of `connexions`, `connexions_last` and the two
  links, changed by `new` and `delete` as the constructor and destructor change it, the
  destructor's omission included (it never moves `connexions_last`). The constructor's write
  through it into a deleted object, and the destructor's between deleted neighbours, either end
  the process (`crash`) or are lost. Acceptors, a worker and
  main are program counters over it. Which ports coincide and whether HTTP has workers are
  initial choices.
* **HttpReply** has a page by the status it is sent with; any page may be missing, not
  readable, or deleted at any moment. The head with its type, the length and each piece of the
  body are sent in a step each, and the client may be gone at any of them: the first send that
  fails closes the socket, and the code goes on; `Conn->Send` sends all or nothing. Texts are sequences of placeholders and
  tags; one that grows for ever is followed up to `MaxText` tokens.
* **Settings** reads config.ini as `fscanf(" %s = %[^\n]s")` does: a line is a name, with a
  value, with "=" alone or without either, and with "# " before it or not. A word without "="
  leaves `val` as it is and is a name all the same; a name with "=" alone gets the whole next
  line, which then sets nothing. **Lifecycle** has one action per loop turn of
  `database::start` and `network::start` and per step of `thread_list::start`; threads are
  numbered in the order they are made, and the `thread_list` objects have addresses that are
  used again. `list` is thread_L with the links of its objects, changed as constructor and
  destructor change it. What a thread does while it serves is in the other modules. `failed`,
  `lost`, `strayed` and `behind` are history.
* **Sha** keeps the bytes given to the processing of blocks instead of computing it; **Session**
  has a byte as the set of the unknowns it is the sum of, which makes XOR the difference of
  sets, and a digest as its number with the unknowns its message rests on. It EXTENDS
  Cryptor, whose positions are the decryptor's: its first key goes through it.
* **Text** has a text, its zero and what follows it as a memory outside which reads are
  faults; each loop of char16_t.cpp is an action, a unit or a character at a time, and the
  result of one conversion is the text of the next.
* **GameLink**: the client sends its stream at any pace and may go; `recv` returns any part.
  A packet claims any size, as the code checks none: one below the head's makes `Recv(packet)`
  take what has come for the whole packet and moves the cipher back. A head that came in
  pieces, or a cipher out of step, makes the size read any of `Sizes`. Without a socket the
  count of bytes runs down until it overflows.
* **Cryptor**: positions and clocking exactly, key bytes by their number in the stream; the
  carry of a sum is either bit. A call may ask for a negative number of bytes: then `changeLen`
  grows past the word kept (`part`), and the next calls use its bytes again or bytes that are
  none. `back` counts these bytes.
* **Packet**: all sizes are ushorts of width `Limit`; the buffer is its length `room`.
  `faults` records accesses outside: writes, reads, the strings that `read_C` and `read_S` look
  for the end of, the copies of `get_header`, a buffer freed in use. `odd` has the kinds of calls
  that came before.
* **Dispatch**: main loads files and plugins step by step while GameD looks up a packet
  table by table. The two writes of `Set_Recv` into a table (`detect`, then `Recv[j]`) race
  with the reads, so they come in either order. A file can end the server by its name or its ids
  (no dot, a version too long, an id beyond the tables), or be one file too many. `OpCode_Gen`
  is the generated table of names, with two names. The login handler asks a database in which
  every query may fail.

## What is abstracted

Data: payloads, names, key bytes, SQL texts and wording are left out or are members of small
sets. Bytes of packets are left out: what is read from a buffer is any value. The Windows
branches are not modelled. Undefined behaviour is a choice or ends the run: an invalid access
sets `crash`, `fault`, `faults` or `invalid`, and except in Packet nothing happens after it. Three
writes into deleted objects, of a constructor behind `connexions_last` or `thread_L_last`, of
`start` and of a destructor, may set `crash` or may do no harm that the program sees, and then
it goes on with `lost` or `strayed` set. GameLink stops in "undefined" where bytes are written
without a bound or the count of them overflows; the bytes of ChangeData that a negative call of
the cipher makes it read from outside are `NoKey`. A mutex reinitialised in use sets `broken`,
and the properties of locking speak of what holds until then.

A `send` that takes only a part is counted as one that takes all: connexion.cpp:158 returns its
result, and http.cpp only compares it with zero, so nothing else happens than that the client
misses bytes. The mutex of the list of cleanups (Fixed_Thread.cpp:24-27) is taken as initialised
once; its second initialisation by pools that register at the same moment is not followed,
though it is of the same kind as that of a pool's own mutex, which is.

The processing of a block in Sha, and the sums of the cipher, are left out: a value is known by
what it was made of. Two digests of different messages are taken to differ.

Not in the models though near them: the teardown of the connexions' mutex (taken as always
there), SQL texts and the numbers in rows, the comparison of passwords, the request line and
path of HTTP (the outcome of that parsing is an initial choice), socket options, the settings
that no thread or listener depends on, and `Send(packet)` and `Seek`, which nobody calls. A
player that logs in is made and kept nowhere. Lifecycle has all the threads but not what they
do while they serve; no module composes all of them.

## Runs and bounds

| run | states | bounds | shows |
|---|---|---|---|
| `httpd` | 285,794 | 2 workers, 1 listener, 2 request addresses; symmetry | the pool and its queue through registration, service and shutdown: exclusion, the list, the only faults and hangs, ownership of requests, no stranded request but by a lost signal, refinement of WorkQueue |
| `httpd_live` | 51,033 | the same, without symmetry, main running | every request is taken, or a worker lost its signal, and then the next caller rescues it |
| `mysql` | 1,603,973 | `TwoServers`: a fast and a slow worker with 2 clients, or two fast workers with one at a time; 2 jobs, slow queries (one at a time) and queries read by row; symmetry, `Orderly`, `View` | a client that wakes finds its answer, where a query can be, which are dropped, when a connection is blocked, the fast queue is used under its mutex until that is initialised again, only slow queries end the process |
| `mysql_live` | 42,525 | 1 fast, 1 slow, each started or not, 1 client, 1 job | fast queries return and shutdown ends, with the exceptions stated |
| `mysql_null_entry` | 1,676 | as `mysql_live` | violated: see below |
| `connexions` | 756,294 | 2 clients' addresses, 3 listeners, 1 worker; symmetry | the list, owners, use after delete, who is served on a shared port |
| `http_reply` | 555,282 | 2 pages, 6 settings, all combinations of missing pages; texts up to `MaxText` = 20, bodies of `Chunks` = 2 pieces | a reply is of one page, whether the client stays or not, replacement keeps the meaning, requests end |
| `gamelink` | 75,286 | keys of 3 bytes, heads of 4, packets that claim 0, 2, 4, 5, 7 | framing under every fragmentation, packets that claim less than their head, when GameD is free again and when it never is |
| `session` | 608,631 | keys of 5 bytes, generators of 2, 3 and 4 words filled by digests of 12 bytes, blocks of 8, hashes of messages of 0 to 17 bytes, 16 bytes of data after the keys, calls of down to -4 bytes (`MaxBack`) | both ends' keys, the padding at every place of a block, every cut of the stream into calls |
| `lifecycle` | 382,259 | every config.ini of up to two of thirteen lines, 7 addresses | the settings, the list of threads, workers for queries, shutdown |
| `packet` | 329,988 | ushorts below 8, lengths 0, 3, 7, offsets from -10 to 2; texts of up to 3 units of one, two and three bytes, rows with characters cut off | every sequence of calls, every chain of conversions |
| `dispatch` | 669,178 | 3 files of 5 texts, room for 2, 2 plugins, 2 ids, 2 rows | lookup during and after loading, accounts, the end of a packet |

Why these are enough to be interesting. Addresses are reused, so two of them suffice to
confuse an old object with a new one; two workers suffice for every race of the registry (the
middle of the list, its two ends and a third party are reached through the listener and
main), and the theorems below cover any number. One client of the database cannot race with
itself, so there are two; the two fast workers that race for the mutex need only one to see a
queue that is not empty. `View` leaves `missed` out, which no invariant of that run reads. Packet's width is far below 65536 but wraps with every length in
`Lens`, and 0 and the largest length are among them; PacketProofs has any width. The
session's data is longer than every lag and buffer, so that all positions wrap, and the
three buffers are filled by a whole number of digests, as in the code. Two lines of config.ini
are the least with which a value can stray, and enough for two workers of a kind, for every
listener and for the two ports to coincide; seven addresses are more than the threads of any
such file, so that none is short. `Wrap` = 7 carries into the upper half of the length.
`Files = 3` with `MaxList = 2` overflows the table.

`Orderly` is a state constraint of the MySQL runs: a state in which a client was woken before
its answer, by a spurious wake-up, in which two workers raced on the fast queue, or in which a
mutex was initialised again while held, is checked but not continued, since afterwards a
client deletes a job that a worker still has, or no lock holds, and every access is undefined. Without it the queue also grows without
bound. Symmetry is only used in runs without liveness properties. Deadlock checking is off
where the system really stops: at the end of shutdown, after a crash, or after the last
packet.

Each property has a mutant in `PROJECT.json`: an operator beside the one it replaces,
marked "Mutant", with a plausible mistake, for which the run finds the property violated.

## Fairness

Threads that can run do (weak fairness of each thread's steps). A thread that waits for a
mutex gets it if it is free again and again (strong fairness of the lock steps): nobody
holds these mutexes for ever, but pthread mutexes are not queues and the workers take theirs
in a loop. There is no fairness for spurious wake-ups, arrivals, clients that go, failing
queries, deletions of files, or the stop command. `httpd_live` (RunningSpec) follows
behaviours in which main stays in its command loop, and
`mysql_live` orderly ones. In `gamelink` a client that stays sends all it has to send. In
`dispatch` main and GameD each go on.

## Proofs

All proofs are checked by TLAPS for arbitrary constants (any number of threads, requests,
queries, bytes; any width), from the named assumptions of the modules alone. Besides telling
apart what the code tells apart (a null pointer from an address, a fast worker from a slow
one) these are: the addresses of connexions and of `thread_list` objects are finite in number
(`ConnsAssumption`, `AddressesAssumption`; without it a list may have no last element),
the sizes of a key and of a head are greater than zero, the sizes packets claim are any
numbers, a key is shorter than a generator's buffers
(`BufLenAssumption`: 128 and 680 in the code), and the settings have the types of settings.hpp.

**HttpProofs**, first of the pool: `IInv` = TypeOK, LockInv, ListInv, StopInv, WakeInv.
Exclusion is not inductive by itself: LockInv says which program counters own the mutex and
that they own it until it breaks; ListInv says that links, ends and tickets agree (the order
of registration makes the list acyclic without a closure operator), and which nodes the
walkers and join hold; StopInv relates `run` to where main is; WakeInv says who has missed
what. Theorems: `TypeCorrect`, `MutualExclusionHolds`, `RegistryHolds`, `FaultsHolds`,
`HangsHolds`. Then of the queue: `HttpDIsAPool` (HttpSpec implements the pool's Spec) makes
`IInv` available; `HInv` adds where every request is (ReqInv) and what a walk still has to
signal (WalkInv). Theorems: `HttpTypeCorrect`, `OneOwnerHolds`, `WorkIsSoundHolds`,
`StrandedHolds`, and `WorkQueueImplemented`, the refinement, step by step.

Last of the answer. ReplyIsOfOnePage rests on `LineInv`: how many status lines there are (a
witness), that what follows them is of the last of these, and that this is the line of the
page being sent unless the socket was closed. ChangeKeepsTheMeaning needs to know of a
placeholder that it means what it is replaced by, which the definition of the meaning, six
rounds of replacement, gives only if round five changes nothing in the replacement: `SameLed`
shows by induction from the other end that what the page leads to after m replacements is
done after 6 - m rounds, and `LeadInv` that every placeholder in the text is something the
page leads to. That the meaning of a text is that of its parts is an induction over the
recursive function in FlattenSeq (`FlattenJoined`). Pages and settings are any texts; a page
has a token, since "text" stands for nothing as well. Theorems: `ReplyIsOfOnePageInvariant`,
`ChangeKeepsTheMeaningInvariant`.

**ConnexionsProofs.** OneOwner and OnlyAbortAndListCrash rest on `OwnersInv`, which holds until
main begins to delete: who has a connexion has one that is alive, no two have the same, every
one is had, and an acceptor that has not started will start once. What is left are the writes
of constructor and destructor, and that a neighbour is deleted only where the list is `lost`
follows from ListInv. ListIsExact rests on
`ListInv`: the objects can be put into a sequence, of which the four pointers of the list are
what they should be, except that `connexions_last` may be left on a deleted object. The
sequence is a witness, not a variable; `new` appends to it and `delete` closes the gap. That
the operator `Chain`, which follows `next`, returns all of the sequence is an induction over
its length (`ChainIsAll`).

**MySQLProofs.** `LockInv` says where a fast worker holds the fast queue's mutex, unless one is
broken: an initialisation sets `broken` wherever the mutex may be held, so a worker that passes
it undisturbed finds it free. With it `RacedInv` leaves two workers that remove at once only a
slow one, or a broken mutex; both are FastQueueIsSafe. `JobsInv`
follows every query: whose it is (MineInv), what can be in the queues (QueueInv) and with a
worker (GotInv), what was dropped, what was answered and which connection still has its rows;
it holds as long as no client is woken early and no two workers are at the front of the queue
(`Orderly`), as does AnswerIsReal itself. `PlaceInv` is the other half of QueryHasOnePlace:
JobsInv has a query in at most one place, PlaceInv in at least one, until the workers are
stopped. OnlySlowQueriesCrash needs in addition that registries only grow while the server
runs and that each walk is at an entry (WalkInv), and that nobody walks the slow pool without
a slow query (SlowInv).

**DispatchProofs.** DispatchIsExact relates two loops that run at once: the plugins being
loaded into the tables, and a packet looked up in them. `MainInv` says what the tables that
`Set_Recv` has passed contain, whichever of its two writes comes first, and that all tables
detect the login packet once a plugin that handles it is loaded; `LookupInv` that the tables
the packet has passed do not detect it. RecvInv, a part of MainInv, gives
NullOnlyBetweenWrites. AccountOnlyForNewName is nearly inductive by itself.

**LifecycleProofs.** `GivenInv` carries SettingsAreTheFile through the file: the lines read so
far have given each setting its value. Of the threads: who holds a `thread_list` and that it
is alive and his (OwnersInv), who was told to go (ToldInv), that an acceptor's socket is open
while the server starts (AcceptInv), how many fast workers there are against what the settings
ask for (FastInv), and at the end who still runs (EndInv). The list has the sequence of
ConnexionsProofs, and `Linked` besides, which holds even when an object is behind a deleted
one; `FailedInv` shows that this takes a worker that could not connect. EndsClean follows from these:
while nobody is left behind, only the three writes that `FailedInv` accounts for can meet a
deleted object.

**SessionProofs.** Of the cipher: InStream says that four times the words made is the offset
of the stream plus the rest kept in `changeLen`, less what negative calls took `back`. From it `ChunksHold` (the key byte depends on
the place alone), `PositionsHold` (both positions of a generator keep their distance, though
they wrap separately; no run checks it), and by a lemma on the majority formula
`TwoMoveHolds`: for every word at least two generators move. `SessionIsACryptor` shows that
the cipher of a session behaves as Cryptor's own specification, so that these hold in a
session, with the keys going through it first. Of the hash: `ShaInv` says that the blocks and
the block being filled are the message so far and that the two halves of the length count it;
with divisors that are not known, the arithmetic of PadMessage is what takes the space. Of the
keys: `KeyInv` says where in its stream the decryptor is in each phase, what the two keys are
byte by byte after the shifts and XORs, and that what has been filled of a generator's buffer
is bytes of digests that rest on the whole key, no two the same; with ShaInv, `SecretsAgree`.

**GameLinkProofs.** `FramesHold`: as long as keys and heads come in one piece, for keys of any
size, packets that claim any size and any fragmentation of bodies; what it promises ends with
the first packet that claims less than its head (`InStep`), and says so. The invariant follows
the exchange: how many keys have been read, how much of the body, where the frame began.
`StarvedStays` is the safety half of ClientIsServed: a packet whose client has gone is waited
for in the loop, step after step, until the count overflows.

**PacketProofs.** Exact (without clones `size <= size_max = room`) and Regular (without any
odd call the positions are inside) give `BufferHolds` and `AccessesHold`, whose statement is the
conjunction of what is known of writes, of reads and strings, of the copies of `get_header` and
`full_size`, and of a packet that was filled.

Of texts (the same module): texts and rows are any sequences of units other than zero, and
what is behind them any units. `TextInv` says where each loop is against the zero of its
memory (CountInv, CopyInv) and what it has written: units that are copied, narrowed or
widened, and in the conversions to UTF-8 the encoding of the units read so far; and for a
search, that no place it has passed was one (SearchInv). `CharacterIs` shows that each of the
65,536 units comes back from the bytes it is written as, and `NextCharacter`, with the lemmas
on the recursive function `Encoding`, that the reader is at the beginning of a character after
each. Theorems: `ConversionsStayInsideInvariant`, `TextSurvivesInvariant`,
`SearchNeverMissesInvariant`.

Inductions over the length of a list are done on sets of numbers, by the well-foundedness of
the naturals (`SetInduction`), since the library's theorems that take an operator cannot be
instantiated here.

Only model-checked: liveness (RequestsAreTaken, FastQueriesReturn, CleanupEnds,
the rest of ClientIsServed, RequestEnds, PacketEnds), which needs fairness and ENABLED, out of the
prover's reach. Every safety property of a run is stated by a theorem.

## What the checks found

`mysql_null_entry` is a disagreement between the code and its comment. A fast worker is
entered in the slow pool, that entry's thread is cleared, and only then is the worker entered
in the fast pool; the comment at MySQL.cpp:126 says "Dont kill thread, already done with
MySQL_thread_l1". If shutdown comes in between, the fast pool is empty, and
`Fixed_thread_Cleanup` of the slow pool calls `join` through the null pointer.

Other behaviours are part of what the properties state, as exceptions that the code leaves
open; TLC reaches each of them.

* A signal between a worker's unlock and its wait is lost: a request, a query or the stop
  command can be slept through (StrandedOnlyByLostSignal, FastQueriesReturn,
  HangsOnlyOnLostStop).
* `Fixed_thread_Signal` and `join` can use a node or thread deleted during shutdown
  (FaultsOnlyInShutdown). `Fixed_thread_Close` and a worker registering in its second pool
  can wait for each other (CleanupEnds).
* A slow query is freed twice, signals a cleared entry, and makes its worker drop a fast
  query taken in the same turn (OnlySlowQueriesCrash, QueryHasOnePlace).
* Two workers that register at the same moment may both initialise the pool's mutex, the later
  one while the other holds it: the queue and the list have no lock any more (MutualExclusion,
  FastQueueIsSafe). A slow worker looks at the fast queue without one.
* `connexions_last` is left on a deleted connexion; the next constructor writes into it, and
  the next connexion is not in the list (ListIsExact, OnlyAbortAndListCrash). After a failed key
  exchange GameD goes on with the deleted connexion (OnlyAbortAndListCrash).
* A game client that goes inside a packet keeps the only game acceptor for ever, or until a
  count overflows (ClientIsServed). A packet that claims a size below four is not refused: the
  cipher is applied to a negative number of bytes and reuses or invents key bytes, and bytes
  that have come are written without a bound (FramesAgree, ChunksDoNotMatter).
* A string, a clone, a wrapping size or a received head may be followed by writes outside a
  packet's buffer (AccessesStayInside); `write_C` and `write_S` move `pos` twice. A string that
  does not end in the packet is read past it, and a head's size copied from past it.
* A page that cannot be opened is followed by the next page with a second status line
  (ReplyIsOfOnePage); settings that lead back to themselves never end (RequestEnds).
* A packet that arrives while plugins are loaded may be ignored, taken for another version of
  the client, or call a null handler (DispatchIsExact, NullOnlyBetweenWrites). A SELECT that
  fails once makes AutoAccount add a second account if the database accepts it; an INSERT
  that is refused is repeated for ever, and without a database worker the login sleeps for
  ever, with the game acceptor (AccountOnlyForNewName, PacketEnds). The last is the case with
  the configuration file that comes with the code: it writes `DataBase_Login` where
  settings.cpp:80 reads `DataBase.Login`, and without it DB_internal.cpp:27 starts no worker
  although `is_MySQL_threaded` holds.

* config.ini: the keys with `_` for `.` are ignored; a name in a comment is assigned the value
  of the line before it; a line "Name =" takes the next line for its value; the line for the HTTP port sets the bridge's, settings.cpp:88
  (SettingsAreTheFile).
* SIGINT sets `main_run`, but main waits in `scanf` and sees it only after another line
  (`Input`). Shutdown joins the registered workers and nobody else: an acceptor or a worker
  that is still connecting meets a deleted `thread_list`, or a deleted Sharun (EndsClean).
  `thread_L_last` is left on a deleted object, as `connexions_last` is, and `start` writes
  `detached` into an object its thread may have deleted; both need a worker that cannot
  connect (ThreadListIsExact, EndsClean).
* `unicode_to_utf8_length` counts wrongly and passes the end of its text; `str_n_str8_16`
  leaves an empty text without a zero; `bytedump` copies eight bytes of anything
  (ConversionsStayInside). `strcpy16_8` loses the end of a text with characters of several
  bytes (TextSurvives). The comparisons compare half of the bytes (SearchNeverMisses).
* With one port for game and HTTP the browser test closes every game client's socket
  (SharedPortTakesNoPlayer).

More were met while reading and have no run: connexion.hpp:33 says of `Send(packet*)`
"Auto-delete packet !", which connexion.cpp:145-152 does not do; Sharun.hpp:24-29 promises
that plugins of another version are not loaded, which Plugins.cpp:45-62 does not look at; and
every login that succeeds leaves a player that nobody holds.

## Plan

Done: the modules above, and proofs of the safety of all of them.
FixedThread and HttpD came first with their proofs, then MySQL, Connexions, Cryptor, GameLink,
Packet, HttpReply, Dispatch; then Settings and Lifecycle, Sha and Session, Text, and a client
that leaves in HttpReply; then the proofs for Connexions, MySQL, Dispatch, Lifecycle, Session,
Text and HttpReply.

Next, in this order:

1. *A composition* of Connexions with HttpD, in which the request's connexion is deleted by
   `connexions_cleanup` while it is queued; and of Dispatch with MySQL's client.
2. *The connexions' mutex*, made by its first user, destroyed by the cleanup and made again.
