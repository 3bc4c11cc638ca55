-------------------------- MODULE LifecycleProofs --------------------------
(***************************************************************************)
(* Proofs about the settings, the threads made of them and their end, for  *)
(* any config.ini, and any number of threads and addresses.                *)
(***************************************************************************)
EXTENDS Lifecycle, Integers, SequenceTheorems, FiniteSetTheorems, WellFoundedInduction, TLAPS

Names    == DOMAIN Default
Lines    == [name : STRING, form : Forms, val : Nat, hash : BOOLEAN]
Kinds    == {"fast", "slow", "http", "game", "httpd"}
ThreadPC == {"none", "made", "connect", "register", "work", "told", "late", "accept", "log",
             "gone"}
Starting == {"settings", "opcodes", "database", "fast", "slow", "game", "httpd", "bridge",
             "http", "input"}
Ending   == {"cleanup", "unlink", "delete", "return", "done"}
Links    == [Addresses -> Addresses \cup {NULL}]
ListType == [first : Addresses \cup {NULL}, last : Addresses \cup {NULL},
             next : Links, prev : Links]

(* The types of the settings; of the threads, whose newest one is not      *)
(* started until main leaves it; and of the list.                          *)
SettingTypes ==
  /\ file \in Seq(Lines) /\ at \in 0..Len(file) /\ val \in Nat /\ set \in [Names -> Nat]
ThreadTypes ==
  /\ kind \in Seq(Kinds) /\ addr \in Seq(Addresses) /\ tpc \in Seq(ThreadPC)
  /\ Len(addr) = Len(kind) /\ Len(tpc) = Len(kind)
MainTypes ==
  /\ mpc \in Starting \cup {"stop", "close"} \cup Ending /\ left \in Nat
  /\ step \in {"none", "create", "detach"}
  /\ step # "none" => mpc \in {"fast", "slow", "httpd", "bridge", "http"} /\ kind # <<>>
  /\ step = "create" => tpc[Newest] = "made"
HeapTypes == list \in ListType /\ alive \subseteq Addresses
Types     == SettingTypes /\ ThreadTypes /\ MainTypes /\ HeapTypes

(* The lines that were read have given each setting its value. *)
GivenInv ==
  file # <<>> =>
    /\ \A name \in Names \ {"Net.Ports.Httpd", "Net.Ports.Bridge"} :
         (\A i \in Naming(name) : Plain(i)) =>
           \/ set[name] = Default[name] /\ \A i \in 1..at : file[i].name # name
           \/ \E i \in 1..at : /\ file[i].name = name /\ set[name] = Value(name, file[i].val)
                               /\ \A j \in 1..at : file[j].name = name => j <= i
    /\ set["Net.Ports.Httpd"] = Default["Net.Ports.Httpd"]

(* Until shutdown is over, a thread that has not done with its thread_list *)
(* has one of its own.                                                     *)
Holds(t) == tpc[t] \notin {"log", "gone"}
OwnersInv == ~Ended =>
  /\ \A t \in Threads : Holds(t) => addr[t] \in alive
  /\ \A t, u \in Threads : Holds(t) /\ Holds(u) /\ addr[t] = addr[u] => t = u

(* Only Fixed_thread_Close tells a worker to go. *)
ToldInv ==
  /\ \A t \in Threads : tpc[t] = "told" => mpc = "close"
  /\ Ended => \A t \in Threads : ~Registered(t)

(* What is always true of the pointers, even of those of an object behind  *)
(* a deleted one: the first object is there, and next has its inverse; a   *)
(* new object has no neighbours.                                           *)
Clean == \A o \in Addresses \ alive : list.next[o] = NULL /\ list.prev[o] = NULL
Linked ==
  /\ Clean
  /\ list.first # NULL => list.first \in alive /\ list.last # NULL
  /\ \A o \in alive : list.prev[o] = NULL <=> o = list.first
  /\ \A o \in alive : list.next[o] # NULL => /\ list.next[o] \in alive
                                             /\ list.prev[list.next[o]] = o

(* The acceptors: one of a kind, and none whose socket is closed before    *)
(* the network is stopped.                                                 *)
Accepting == {"game", "httpd"}
AcceptInv ==
  /\ mpc \in {"settings", "opcodes", "database"} => kind = <<>>
  /\ mpc \in {"fast", "slow", "game"} => \A t \in Threads : kind[t] \notin Accepting
  /\ mpc = "httpd" => \A t \in Threads : kind[t] # "httpd"
  /\ \A t, u \in Threads : kind[t] = kind[u] /\ kind[t] \in Accepting => t = u
  /\ \A t \in Threads : tpc[t] = "accept" => kind[t] \in Accepting
  /\ mpc \in Starting => \A t \in Threads : tpc[t] = "accept" => kind[t] \in open
  /\ step = "create" /\ kind[Newest] \in Accepting => kind[Newest] \in open

(* While the server starts, only a worker that fails leaves the list with  *)
(* an end that is not there.                                               *)
FailedInv ==
  /\ mpc \in Starting /\ failed = {} =>
       /\ \A t \in Threads : Holds(t)
       /\ list.first = NULL \/ list.last \in alive
  /\ lost \/ strayed => failed # {}

(* The fast workers that were made, and what can become of them. *)
FastWorkers == {t \in Threads : kind[t] = "fast"}
FastInv ==
  /\ is_MySQL_threaded /\ set["DataBase.Login"] # 0 =>
       /\ mpc = "fast" => Cardinality(FastWorkers) + left = set["Thread.DataBase.Fast"]
       /\ mpc \in {"slow", "game", "httpd", "bridge", "http", "input"} =>
            Cardinality(FastWorkers) = set["Thread.DataBase.Fast"]
  /\ mpc \in Starting => \A t \in FastWorkers :
       tpc[t] \in {"made", "connect", "register", "work", "none", "gone"}

(* At the end: who still runs was there when the cleanup began, and        *)
(* without them nobody but main changes the list.                          *)
Excused == \/ crash = "none" \/ behind # {}
           \/ crash \in {"insert", "detach", "unlink"} /\ failed # {}
EndInv ==
  /\ Ended => Running \subseteq behind
  /\ ~sharun => Ended
  /\ Excused
  /\ mpc = "unlink" /\ behind = {} => target \in alive
  /\ mpc \in {"delete", "return", "done"} /\ behind = {} /\ ~lost => alive = {}

---------------------------------------------------------------------------
(* The settings. *)

LEMMA DefaultNames ==
  /\ Names = {"DataBase.Login", "Thread.DataBase.Fast", "Thread.DataBase.Slow", "Thread.Httpd",
              "Net.Ports.Game", "Net.Ports.Httpd", "Net.Ports.Bridge"}
  /\ Default \in [Names -> Nat]
BY DEF Names, Default

LEMMA InitSettings == SettingsInit => SettingTypes /\ GivenInv
<1> SUFFICES ASSUME SettingsInit PROVE SettingTypes /\ GivenInv
  OBVIOUS
<1>1. file \in Seq(Lines) /\ val \in Nat /\ at = 0 /\ set = Default
  BY SettingsAssumption DEF SettingsInit, Lines
<1>2. SettingTypes
  BY <1>1, DefaultNames, LenProperties DEF SettingTypes
<1>3. GivenInv
  BY <1>1 DEF GivenInv
<1>4. QED
  BY <1>2, <1>3

(* What the reading of a line does: it and what it swallows are read. *)
LEMMA ReadLineEffect ==
  ASSUME SettingTypes, ReadLine
  PROVE  /\ at \in Nat /\ Len(file) \in Nat /\ at + 1 \in 1..Len(file) /\ file' = file
         /\ at' \in (at + 1)..Len(file)
         /\ at' = at + 1 \/ (at' = at + 2 /\ file[at + 1].form = "empty")
         /\ val' \in Nat /\ set' \in [Names -> Nat]
         /\ \A name \in Names :
              set'[name] = IF Stored(file[at + 1].name) = name
                           THEN Value(file[at + 1].name, val') ELSE set[name]
         /\ file[at + 1].form = "value" => val' = file[at + 1].val
<1> DEFINE line == file[at + 1]
<1>1. at \in Nat /\ Len(file) \in Nat /\ at + 1 \in 1..Len(file) /\ file' = file
  BY LenProperties DEF ReadLine, SettingTypes
<1>2. line \in Lines
  BY <1>1, ElementOfSeq DEF SettingTypes
<1>3. /\ at' = IF Swallows THEN at + 2 ELSE at + 1
      /\ val' = CASE line.form = "value" -> line.val [] Swallows -> 0 [] OTHER -> val
      /\ set' = Assign(set, line.name, val')
  BY DEF ReadLine
<1>4. val' \in Nat /\ (line.form = "value" => val' = line.val)
  <2>1. line.form = "value" => ~Swallows
    BY DEF Swallows
  <2>2. val \in Nat /\ line.val \in Nat
    BY <1>2 DEF SettingTypes, Lines
  <2>3. QED
    BY <1>3, <2>1, <2>2
<1>5. /\ at' \in (at + 1)..Len(file)
      /\ at' = at + 1 \/ (at' = at + 2 /\ line.form = "empty")
  BY <1>1, <1>3 DEF Swallows
<1> HIDE DEF line
<1>6. Value(line.name, val') \in Nat
  BY <1>4 DEF Value
<1>7. /\ set' \in [Names -> Nat]
      /\ \A name \in Names : set'[name] = IF Stored(line.name) = name
                                           THEN Value(line.name, val') ELSE set[name]
  BY <1>3, <1>6 DEF Assign, SettingTypes, Names
<1>8. QED
  BY <1>1, <1>4, <1>5, <1>7 DEF line

LEMMA ReadLineTypes ==
  ASSUME SettingTypes, ReadLine
  PROVE  SettingTypes'
<1>1. at' \in 0..Len(file)
  BY ReadLineEffect
<1>2. QED
  BY <1>1, ReadLineEffect DEF SettingTypes

LEMMA ReadLineStep ==
  ASSUME SettingTypes, GivenInv, ReadLine
  PROVE  GivenInv'
<1> DEFINE n == at + 1
           line == file[n]
<1>1. /\ at \in Nat /\ Len(file) \in Nat /\ n \in 1..Len(file) /\ file' = file
      /\ at' \in n..Len(file) /\ (at' = n \/ (at' = n + 1 /\ line.form = "empty"))
      /\ \A name \in Names : set'[name] = IF Stored(line.name) = name
                                           THEN Value(line.name, val') ELSE set[name]
      /\ line.form = "value" => val' = line.val
  BY ReadLineEffect
<1>2. n = at + 1
  OBVIOUS
<1> HIDE DEF n
<1>3. SUFFICES ASSUME file # <<>> PROVE GivenInv'
  BY <1>1 DEF GivenInv
<1>4. ASSUME NEW name \in Names \ {"Net.Ports.Httpd", "Net.Ports.Bridge"},
             \A i \in Naming(name) : Plain(i)
      PROVE  \/ set'[name] = Default[name] /\ \A i \in 1..at' : file[i].name # name
             \/ \E i \in 1..at' :
                  /\ file[i].name = name /\ set'[name] = Value(name, file[i].val)
                  /\ \A j \in 1..at' : file[j].name = name => j <= i
  <2>1. Stored(line.name) = name <=> line.name = name
    BY <1>4 DEF Stored
  <2>2. \A i \in 1..at' : file[i].name = name => i \in 1..at \/ i = n
    <3>1. SUFFICES ASSUME NEW i \in 1..at', file[i].name = name, i \notin 1..at, i # n
                   PROVE  FALSE
      OBVIOUS
    <3>2. i = n + 1 /\ line.form = "empty" /\ i \in 1..Len(file)
      BY <1>1, <1>2, <3>1
    <3>3. Plain(i)
      BY <1>4, <3>1, <3>2 DEF Naming
    <3>4. i > 1 /\ i - 1 = n
      BY <1>1, <3>2
    <3>5. QED
      BY <3>2, <3>3, <3>4 DEF Plain
  <2>3. CASE line.name = name
    <3>1. line.form = "value"
      BY <1>1, <1>4, <2>3 DEF Naming, Plain
    <3>2. set'[name] = Value(name, line.val)
      BY <1>1, <2>1, <2>3, <3>1
    <3>3. n \in 1..at' /\ \A j \in 1..at' : file[j].name = name => j <= n
      BY <1>1, <1>2, <2>2
    <3>4. QED
      BY <2>3, <3>2, <3>3
  <2>4. CASE line.name # name
    <3>1. set'[name] = set[name]
      BY <1>1, <2>1, <2>4
    <3>2. \A i \in 1..at' : file[i].name = name => i \in 1..at
      BY <2>2, <2>4
    <3>3. \/ set[name] = Default[name] /\ \A i \in 1..at : file[i].name # name
          \/ \E i \in 1..at : /\ file[i].name = name /\ set[name] = Value(name, file[i].val)
                              /\ \A j \in 1..at : file[j].name = name => j <= i
      BY <1>3, <1>4 DEF GivenInv
    <3>4. 1..at \subseteq 1..at'
      BY <1>1, <1>2
    <3> HIDE DEF line
    <3>5. QED
      BY <3>1, <3>2, <3>3, <3>4
  <2>5. QED
    BY <2>3, <2>4
<1>5. set'["Net.Ports.Httpd"] = set["Net.Ports.Httpd"]
  BY <1>1, DefaultNames DEF Stored
<1>6. QED
  BY <1>1, <1>3, <1>4, <1>5 DEF GivenInv, Naming, Plain

LEMMA CloseFileTypes ==
  ASSUME SettingTypes, CloseFile
  PROVE  SettingTypes' /\ GivenInv'
<1>1. file' = <<>> /\ at' = 0 /\ val' = 0 /\ set' = set
  BY DEF CloseFile
<1>2. QED
  BY <1>1, EmptySeq DEF SettingTypes, GivenInv

LEMMA SameSettings ==
  ASSUME UNCHANGED settingsVars
  PROVE  (SettingTypes => SettingTypes') /\ (GivenInv => GivenInv')
BY DEF settingsVars, SettingTypes, GivenInv, Naming, Plain

LEMMA SettingsAreTheFileHolds == SettingTypes /\ GivenInv => SettingsAreTheFile
<1> SUFFICES ASSUME SettingTypes, GivenInv, Loaded, file # <<>> PROVE SettingsAreTheFile
  BY DEF SettingsAreTheFile
<1>1. at = Len(file) /\ Len(file) \in Nat
  BY LenProperties DEF Loaded, SettingTypes
<1>2. ASSUME NEW name \in Names \ {"Net.Ports.Httpd", "Net.Ports.Bridge"},
             \A i \in Naming(name) : Plain(i)
      PROVE  set[name] = Given(name)
  <2>1. CASE set[name] = Default[name] /\ \A i \in 1..at : file[i].name # name
    <3>1. Naming(name) = {}
      BY <1>1, <2>1 DEF Naming
    <3>2. QED
      BY <2>1, <3>1 DEF Given
  <2>2. ASSUME NEW i \in 1..at, file[i].name = name, set[name] = Value(name, file[i].val),
               \A j \in 1..at : file[j].name = name => j <= i
        PROVE  set[name] = Given(name)
    <3>1. i \in Naming(name) /\ \A j \in Naming(name) : j <= i
      BY <1>1, <2>2 DEF Naming
    <3>2. \A k \in Naming(name) : (\A j \in Naming(name) : j <= k) => k = i
      BY <1>1, <3>1 DEF Naming
    <3>3. (CHOOSE k \in Naming(name) : \A j \in Naming(name) : j <= k) = i
      BY <3>1, <3>2
    <3>4. Given(name) = Value(name,
            file[CHOOSE k \in Naming(name) : \A j \in Naming(name) : j <= k].val)
      BY <3>1 DEF Given
    <3>5. QED
      BY <2>2, <3>3, <3>4
  <2>3. QED
    BY <1>2, <2>1, <2>2 DEF GivenInv
<1>3. set["Net.Ports.Httpd"] = Default["Net.Ports.Httpd"]
  BY DEF GivenInv
<1>4. QED
  BY <1>2, <1>3 DEF SettingsAreTheFile, Names

---------------------------------------------------------------------------
(* What a new thread, a thread's step and the two ends of a thread_list do *)
(* to the threads and the list.                                            *)

LEMMA NewThread ==
  ASSUME ThreadTypes, NEW k \in Kinds, New(k)
  PROVE  /\ ThreadTypes' /\ kind' # <<>>
         /\ Len(kind) \in Nat /\ Newest' = Len(kind) + 1
         /\ Newest' \notin Threads /\ Threads' = Threads \cup {Newest'}
         /\ \A t \in Threads : kind'[t] = kind[t] /\ addr'[t] = addr[t] /\ tpc'[t] = tpc[t]
         /\ kind'[Newest'] = k /\ tpc'[Newest'] = "made"
         /\ addr'[Newest'] \in Addresses \ alive /\ alive' = alive \cup {addr'[Newest']}
<1>1. PICK o \in Addresses :
        /\ Fresh(o) /\ alive' = alive \cup {o}
        /\ kind' = Append(kind, k) /\ addr' = Append(addr, o) /\ tpc' = Append(tpc, "made")
  BY DEF New
<1>2. Len(kind) \in Nat /\ Len(addr) = Len(kind) /\ Len(tpc) = Len(kind)
  BY LenProperties DEF ThreadTypes
<1>3. "made" \in ThreadPC
  BY DEF ThreadPC
<1>4. /\ kind' \in Seq(Kinds) /\ Len(kind') = Len(kind) + 1 /\ kind'[Len(kind) + 1] = k
      /\ \A t \in 1..Len(kind) : kind'[t] = kind[t]
  BY <1>1, AppendProperties DEF ThreadTypes
<1>5. /\ addr' \in Seq(Addresses) /\ Len(addr') = Len(addr) + 1 /\ addr'[Len(addr) + 1] = o
      /\ \A t \in 1..Len(addr) : addr'[t] = addr[t]
  BY <1>1, AppendProperties DEF ThreadTypes
<1>6. /\ tpc' \in Seq(ThreadPC) /\ Len(tpc') = Len(tpc) + 1 /\ tpc'[Len(tpc) + 1] = "made"
      /\ \A t \in 1..Len(tpc) : tpc'[t] = tpc[t]
  BY <1>1, <1>3, AppendProperties DEF ThreadTypes
<1>7. o \in Addresses \ alive
  BY <1>1 DEF Fresh
<1>8. Threads' = Threads \cup {Newest'} /\ Newest' = Len(kind) + 1 /\ Newest' \notin Threads
  BY <1>2, <1>4 DEF Threads, Newest
<1>9. kind' # <<>>
  BY <1>2, <1>4, EmptySeq
<1>10. QED
  BY <1>1, <1>2, <1>4, <1>5, <1>6, <1>7, <1>8, <1>9 DEF ThreadTypes, Threads

LEMMA ThreadGoes ==
  ASSUME ThreadTypes, NEW t \in Threads, NEW to \in ThreadPC, Goes(t, to),
         UNCHANGED <<kind, addr>>
  PROVE  /\ ThreadTypes' /\ Threads' = Threads /\ Newest' = Newest
         /\ \A u \in Threads : tpc'[u] = IF u = t THEN to ELSE tpc[u]
<1>1. t \in 1..Len(tpc)
  BY DEF ThreadTypes, Threads
<1>2. tpc' = [tpc EXCEPT ![t] = to]
  BY DEF Goes
<1>3. /\ tpc' \in Seq(ThreadPC) /\ Len(tpc') = Len(tpc)
      /\ \A u \in 1..Len(tpc) : tpc'[u] = IF u = t THEN to ELSE tpc[u]
  BY <1>1, <1>2, ExceptSeq DEF ThreadTypes
<1>4. QED
  BY <1>3 DEF ThreadTypes, Threads, Newest

LEMMA ThreadElements ==
  ASSUME ThreadTypes
  PROVE  /\ \A t \in Threads : kind[t] \in Kinds /\ addr[t] \in Addresses /\ tpc[t] \in ThreadPC
         /\ kind # <<>> => Newest \in Threads
         /\ kind = <<>> => Threads = {}
         /\ Len(kind) \in Nat
<1>1. \A t \in Threads : kind[t] \in Kinds /\ addr[t] \in Addresses /\ tpc[t] \in ThreadPC
  BY ElementOfSeq DEF ThreadTypes, Threads
<1>2. kind # <<>> => Len(kind) \in Nat \ {0}
  BY EmptySeq DEF ThreadTypes
<1>3. kind = <<>> => Len(kind) = 0
  BY EmptySeq
<1>4. QED
  BY <1>1, <1>2, <1>3 DEF Threads, Newest

LEMMA NewTypes ==
  ASSUME HeapTypes, NEW k, New(k)
  PROVE  HeapTypes'
<1>1. PICK o \in Addresses : alive' = alive \cup {o} /\ list' = Inserted(list, o)
  BY DEF New
<1>2. CASE list.first = NULL
  BY <1>1, <1>2 DEF Inserted, HeapTypes, ListType
<1>3. CASE list.first # NULL
  <2>1. list' = [list EXCEPT !.last = o, !.next = Write(list.next, list.last, o),
                             !.prev = [list.prev EXCEPT ![o] = list.last]]
    BY <1>1, <1>3 DEF Inserted, HeapTypes, ListType
  <2>2. Write(list.next, list.last, o) \in Links
    BY DEF Write, HeapTypes, ListType, Links
  <2>3. [list.prev EXCEPT ![o] = list.last] \in Links
    BY DEF HeapTypes, ListType, Links
  <2>4. QED
    BY <1>1, <2>1, <2>2, <2>3 DEF HeapTypes, ListType
<1>4. QED
  BY <1>2, <1>3

LEMMA DeleteTypes ==
  ASSUME HeapTypes, NEW o \in Addresses, Delete(o)
  PROVE  HeapTypes'
<1>1. alive' \subseteq Addresses
  BY DEF Delete, HeapTypes
<1>2. list.next[o] \in Addresses \cup {NULL} /\ list.prev[o] \in Addresses \cup {NULL}
  BY DEF HeapTypes, ListType, Links
<1>3. /\ [Write(list.next, list.prev[o], list.next[o]) EXCEPT ![o] = NULL] \in Links
      /\ [Write(list.prev, list.next[o], list.prev[o]) EXCEPT ![o] = NULL] \in Links
  BY <1>2 DEF Write, HeapTypes, ListType, Links
<1>4. list' = [list EXCEPT
        !.first = IF list.prev[o] = NULL THEN list.next[o] ELSE list.first,
        !.next  = [Write(list.next, list.prev[o], list.next[o]) EXCEPT ![o] = NULL],
        !.prev  = [Write(list.prev, list.next[o], list.prev[o]) EXCEPT ![o] = NULL]]
  BY DEF Delete, Unlinked, HeapTypes, ListType
<1>5. QED
  BY <1>1, <1>2, <1>3, <1>4 DEF HeapTypes, ListType

---------------------------------------------------------------------------
(* Every variable has its type. *)

MainPC == Starting \cup {"stop", "close"} \cup Ending

LEMMA Counts ==
  ASSUME SettingTypes, NEW count \in Nat
  PROVE  Begin(count) \in Nat
<1>1. /\ set["Thread.DataBase.Fast"] \in Nat /\ set["Thread.DataBase.Slow"] \in Nat
      /\ set["Thread.Httpd"] \in Nat
  BY DefaultNames DEF SettingTypes
<1>2. DatabaseWorkers("fast") \in Nat /\ DatabaseWorkers("slow") \in Nat
  BY <1>1 DEF DatabaseWorkers
<1>3. HttpWorkers(count) \in Nat
  BY <1>1 DEF HttpWorkers
<1>4. QED
  BY <1>2, <1>3 DEF Begin

LEMMA InitTypes == Init => Types
<1> SUFFICES ASSUME Init PROVE Types
  OBVIOUS
<1>1. SettingTypes
  BY InitSettings DEF Init
<1>2. ThreadTypes
  BY EmptySeq DEF Init, ThreadTypes
<1>3. MainTypes
  BY DEF Init, MainTypes, Starting
<1>4. HeapTypes
  BY DEF Init, HeapTypes, ListType, Links
<1>5. QED
  BY <1>1, <1>2, <1>3, <1>4 DEF Types

(* A step in which main makes no thread moves at most one, and changes the *)
(* list at most by a deletion.                                             *)
LEMMA MovedTypes ==
  ASSUME Types, UNCHANGED settingsVars, UNCHANGED <<kind, addr>>,
         UNCHANGED tpc \/ \E t \in Threads, to \in ThreadPC : Goes(t, to),
         UNCHANGED heap \/ \E o \in Addresses : Delete(o)
  PROVE  /\ SettingTypes' /\ ThreadTypes' /\ HeapTypes'
         /\ Newest' = Newest /\ Threads' = Threads
<1>1. SettingTypes'
  BY SameSettings DEF Types
<1>2. ThreadTypes'
  <2>1. CASE UNCHANGED tpc
    BY <2>1 DEF Types, ThreadTypes
  <2>2. CASE \E t \in Threads, to \in ThreadPC : Goes(t, to)
    BY <2>2, ThreadGoes DEF Types
  <2>3. QED
    BY <2>1, <2>2
<1>3. HeapTypes'
  <2>1. CASE UNCHANGED heap
    BY <2>1 DEF Types, HeapTypes, heap
  <2>2. CASE \E o \in Addresses : Delete(o)
    BY <2>2, DeleteTypes DEF Types
  <2>3. QED
    BY <2>1, <2>2
<1>4. QED
  BY <1>1, <1>2, <1>3 DEF Newest, Threads

(* Steps of main that change no thread and no list. *)
LEMMA StillTypes ==
  ASSUME Types, UNCHANGED <<threads, heap>>, SettingTypes',
         mpc' \in MainPC, left' \in Nat,
         (step' = step /\ (step = "none" \/ mpc' = mpc)) \/ step' = "none"
  PROVE  Types'
<1>1. ThreadTypes' /\ HeapTypes'
  BY DEF Types, ThreadTypes, HeapTypes, threads, heap
<1>2. MainTypes'
  BY DEF Types, MainTypes, threads, Newest, MainPC
<1>3. QED
  BY <1>1, <1>2 DEF Types

LEMMA NewStepTypes ==
  ASSUME Types, UNCHANGED settingsVars, NEW k \in Kinds, New(k), step' = "create",
         mpc' \in {"fast", "slow", "httpd", "bridge", "http"}, left' \in Nat
  PROVE  Types'
<1>1. SettingTypes' /\ HeapTypes'
  BY SameSettings, NewTypes DEF Types
<1>2. ThreadTypes' /\ kind' # <<>> /\ tpc'[Newest'] = "made"
  BY NewThread DEF Types
<1>3. MainTypes'
  BY <1>2 DEF MainTypes, Starting
<1>4. QED
  BY <1>1, <1>2, <1>3 DEF Types

LEMMA ThreadTypesStep ==
  ASSUME Types, NEW t \in Threads, Thread(t)
  PROVE  Types'
<1> USE DEF MainStays
<1>1. /\ kind[t] \in Kinds /\ addr[t] \in Addresses /\ tpc[t] \in ThreadPC
      /\ kind # <<>> => Newest \in Threads
  BY ThreadElements DEF Types
<1>2. tpc[t] # "made" /\ UNCHANGED <<settingsVars, kind, addr, mpc, step, left>>
  BY DEF Thread, ConnectFails, Connect, Register, Leave, StopAccepting, Log
<1>3. UNCHANGED heap \/ \E o \in Addresses : Delete(o)
  BY <1>1 DEF Thread, ConnectFails, Connect, Register, Leave, StopAccepting, Log
<1>4. \E to \in ThreadPC : Goes(t, to)
  BY DEF Thread, ConnectFails, Connect, Register, Leave, StopAccepting, Log, ThreadPC
<1>5. PICK to \in ThreadPC : Goes(t, to)
  BY <1>4
<1>6. SettingTypes' /\ ThreadTypes' /\ HeapTypes' /\ Newest' = Newest
  BY <1>2, <1>3, <1>5, MovedTypes
<1>7. step = "create" => tpc'[Newest] = "made"
  BY <1>1, <1>2, <1>5, ThreadGoes DEF Types, MainTypes
<1>8. MainTypes'
  BY <1>2, <1>6, <1>7 DEF Types, MainTypes
<1>9. QED
  BY <1>6, <1>8 DEF Types

LEMMA CreateTypes == Types /\ Create => Types'
<1> SUFFICES ASSUME Types, Create PROVE Types'
  OBVIOUS
<1>1. Newest \in Threads /\ kind[Newest] \in Kinds
  BY ThreadElements DEF Create, Types, MainTypes
<1>2. Begins[kind[Newest]] \in ThreadPC /\ "none" \in ThreadPC
  BY <1>1 DEF Begins, Kinds, ThreadPC
<1>3. UNCHANGED <<settingsVars, kind, addr, mpc, left, heap>>
  BY DEF Create, Quiet
<1>4. \E to \in ThreadPC : Goes(Newest, to)
  BY <1>2 DEF Create
<1>5. SettingTypes' /\ ThreadTypes' /\ HeapTypes'
  BY <1>1, <1>3, <1>4, MovedTypes
<1>6. MainTypes'
  BY <1>3 DEF Create, Types, MainTypes
<1>7. QED
  BY <1>5, <1>6 DEF Types

LEMMA JoinTypes == Types /\ Join => Types'
<1> SUFFICES ASSUME Types, Join PROVE Types'
  OBVIOUS
<1>1. PICK t \in Threads : tpc[t] = "work" /\ Goes(t, "told")
  BY DEF Join
<1>2. UNCHANGED <<settingsVars, kind, addr, mpc, step, left, heap>> /\ step = "none"
  BY DEF Join, Types, MainTypes
<1>3. "told" \in ThreadPC
  BY DEF ThreadPC
<1>4. SettingTypes' /\ ThreadTypes' /\ HeapTypes'
  BY <1>1, <1>2, <1>3, MovedTypes
<1>5. MainTypes'
  BY <1>2 DEF Types, MainTypes
<1>6. QED
  BY <1>4, <1>5 DEF Types

LEMMA TypesStep == Types /\ [Next]_vars => Types'
<1> SUFFICES ASSUME Types, [Next]_vars PROVE Types'
  OBVIOUS
<1> USE DEF MainGoes, Quiet, NoThread, MainPC, Starting, Ending
<1>1. ASSUME ReadLine, UNCHANGED <<mpc, step, left, threads, heap>> PROVE Types'
  <2>1. SettingTypes'
    BY <1>1, ReadLineTypes DEF Types
  <2>2. QED
    BY <1>1, <2>1, StillTypes DEF Types, MainTypes
<1>2. ASSUME CloseFile, mpc = "settings", mpc' = "opcodes",
             UNCHANGED <<step, left, threads, heap>> PROVE Types'
  <2>1. SettingTypes'
    BY <1>2, CloseFileTypes DEF Types
  <2>2. QED
    BY <1>2, <2>1, StillTypes DEF Types, MainTypes
<1>3. ASSUME UNCHANGED <<settingsVars, threads, heap>>, mpc' \in MainPC, left' \in Nat,
             (step' = step /\ (step = "none" \/ mpc' = mpc)) \/ step' = "none"
      PROVE  Types'
  <2>1. SettingTypes'
    BY <1>3, SameSettings DEF Types
  <2>2. QED
    BY <1>3, <2>1, StillTypes
<1>4. mpc \in MainPC /\ left \in Nat /\ \A count \in Nat : Begin(count) \in Nat
  BY Counts DEF Types, MainTypes
<1>5. ASSUME LoadOpCodes PROVE Types'
  BY <1>3, <1>4, <1>5 DEF LoadOpCodes
<1>6. ASSUME MakeWorker PROVE Types'
  BY <1>4, <1>6, NewStepTypes DEF MakeWorker, Kinds
<1>7. ASSUME EndLoop PROVE Types'
  BY <1>3, <1>4, <1>7 DEF EndLoop, After
<1>8. ASSUME Listen PROVE Types'
  <2>1. left + 1 \in Nat /\ left' \in Nat
    BY <1>4, <1>8 DEF Listen
  <2>2. CASE mpc = "bridge"
    BY <1>3, <1>4, <1>8, <2>1, <2>2 DEF Listen, After
  <2>3. CASE mpc # "bridge"
    BY <1>8, <2>1, <2>3, NewStepTypes DEF Listen, After, Kinds
  <2>4. QED
    BY <2>2, <2>3
<1>9. ASSUME DoNotListen PROVE Types'
  BY <1>3, <1>4, <1>9 DEF DoNotListen, After
<1>10. ASSUME Detach PROVE Types'
  BY <1>3, <1>4, <1>10 DEF Detach
<1>11. ASSUME Input PROVE Types'
  BY <1>3, <1>4, <1>11 DEF Input
<1>12. ASSUME StopNetwork PROVE Types'
  BY <1>3, <1>4, <1>12 DEF StopNetwork
<1>13. ASSUME Joined PROVE Types'
  BY <1>3, <1>4, <1>13 DEF Joined
<1>14. ASSUME EndClose PROVE Types'
  BY <1>3, <1>4, <1>14 DEF EndClose
<1>15. step = "none" \/ mpc \notin {"cleanup", "unlink"}
  BY DEF Types, MainTypes
<1>16. ASSUME CleanupTest PROVE Types'
  BY <1>3, <1>4, <1>15, <1>16 DEF CleanupTest
<1>17. ASSUME CleanupDelete PROVE Types'
  <2>1. target \in Addresses /\ Delete(target)
    BY <1>17 DEF CleanupDelete, Types, HeapTypes
  <2>2. SettingTypes' /\ ThreadTypes' /\ HeapTypes'
    BY <1>17, <2>1, MovedTypes DEF CleanupDelete, threads
  <2>3. MainTypes'
    BY <1>17 DEF CleanupDelete, Types, MainTypes
  <2>4. QED
    BY <2>2, <2>3 DEF Types
<1>18. ASSUME DeleteSharun PROVE Types'
  BY <1>3, <1>4, <1>18 DEF DeleteSharun
<1>19. ASSUME Return PROVE Types'
  BY <1>3, <1>4, <1>19 DEF Return
<1>20. ASSUME intHandler PROVE Types'
  BY <1>3, <1>4, <1>20 DEF intHandler
<1>21. ASSUME Crash PROVE Types'
  BY <1>3, <1>4, <1>21 DEF Crash
<1>22. CASE UNCHANGED vars
  BY <1>3, <1>4, <1>22 DEF vars
<1>23. ASSUME ReadSettings PROVE Types'
  BY <1>1, <1>2, <1>23 DEF ReadSettings
<1>24. QED
  BY <1>5, <1>6, <1>7, <1>8, <1>9, <1>10, <1>11, <1>12, <1>13, <1>14, <1>16, <1>17, <1>18,
     <1>19, <1>20, <1>21, <1>22, <1>23, CreateTypes, JoinTypes, ThreadTypesStep DEF Next, Main

(* THEOREM: every variable keeps its type. *)
THEOREM LifecycleTypes == Spec => []Types
BY InitTypes, TypesStep, PTL DEF Spec

(* THEOREM: a setting has the value of the last line of config.ini that    *)
(* gives it one.                                                           *)
THEOREM SettingsAreTheFileInvariant == Spec => []SettingsAreTheFile
<1>1. Init => GivenInv
  BY InitSettings DEF Init
<1>2. Types /\ GivenInv /\ [Next]_vars => GivenInv'
  <2> SUFFICES ASSUME SettingTypes, GivenInv, [Next]_vars PROVE GivenInv'
    BY DEF Types
  <2>1. ReadLine \/ CloseFile \/ UNCHANGED settingsVars
    BY DEF Next, vars, Main, Quiet, intHandler, Thread, MainStays, ReadSettings, LoadOpCodes,
           MakeWorker, EndLoop, Listen, DoNotListen, Create, Detach, Input, StopNetwork, Join,
           Joined, EndClose, CleanupTest, CleanupDelete, DeleteSharun, Return, Crash,
           ConnectFails, Connect, Register, Leave, StopAccepting, Log
  <2>2. QED
    BY <2>1, ReadLineStep, CloseFileTypes, SameSettings
<1>3. Types /\ GivenInv => SettingsAreTheFile
  BY SettingsAreTheFileHolds DEF Types
<1>4. QED
  BY <1>1, <1>2, <1>3, LifecycleTypes, PTL DEF Spec

---------------------------------------------------------------------------
(* Who has a thread_list, and who is told to go. *)

(* The steps that move no thread and change no list. *)
Still == UNCHANGED <<threads, heap>> /\ (Ended => Ended')

(* The others, by what they do. *)
LEMMA Steps ==
  ASSUME Types, [Next]_vars
  PROVE  \/ Still \/ MakeWorker \/ (Listen /\ mpc # "bridge") \/ Create \/ Join \/ CleanupDelete
         \/ \E t \in Threads : Thread(t)
<1> USE DEF Still, MainGoes, Quiet, NoThread, Ended
<1>1. ASSUME ReadSettings \/ LoadOpCodes \/ EndLoop \/ DoNotListen \/ Detach \/ Input
             \/ StopNetwork \/ Joined \/ EndClose
      PROVE  Still
  BY <1>1 DEF ReadSettings, LoadOpCodes, EndLoop, DoNotListen, Detach, Input, StopNetwork,
              Joined, EndClose
<1>2. ASSUME CleanupTest \/ DeleteSharun \/ Return \/ intHandler \/ Crash
      PROVE  Still
  BY <1>2 DEF CleanupTest, DeleteSharun, Return, intHandler, Crash
<1>3. ASSUME Listen, mpc = "bridge" PROVE Still
  BY <1>3 DEF Listen
<1>4. CASE UNCHANGED vars
  BY <1>4 DEF vars
<1>5. QED
  BY <1>1, <1>2, <1>3, <1>4 DEF Next, Main

(* Threads are told to go while main waits for them, and only then. *)
LEMMA ToldStep == Types /\ ToldInv /\ [Next]_vars => ToldInv'
<1> SUFFICES ASSUME Types, ToldInv, [Next]_vars PROVE ToldInv'
  OBVIOUS
<1> USE DEF ToldInv, Ended, Registered
<1>1. ASSUME UNCHANGED threads, mpc' = mpc PROVE ToldInv'
  BY <1>1 DEF threads, Threads
<1>2. ASSUME UNCHANGED threads, mpc # "close", ~Ended, ~Ended' PROVE ToldInv'
  BY <1>2 DEF threads, Threads
<1>3. ASSUME UNCHANGED threads, Ended PROVE ToldInv'
  BY <1>3 DEF threads, Threads
<1>4. ASSUME NEW k \in Kinds, New(k), mpc \notin {"close"}, ~Ended' PROVE ToldInv'
  BY <1>4, NewThread DEF Types
<1>5. ASSUME NEW t \in Threads, NEW to \in ThreadPC, Goes(t, to), UNCHANGED <<kind, addr, mpc>>,
             to = "told" => mpc = "close", to = "work" => ~Ended
      PROVE  ToldInv'
  <2>1. Threads' = Threads /\ \A u \in Threads : tpc'[u] = IF u = t THEN to ELSE tpc[u]
    BY <1>5, ThreadGoes DEF Types
  <2>2. QED
    BY <1>5, <2>1
<1> USE DEF MainGoes, Quiet, NoThread, MainStays
<1>6. ASSUME ReadSettings \/ LoadOpCodes \/ EndLoop \/ DoNotListen \/ Input \/ StopNetwork
      PROVE  ToldInv'
  BY <1>1, <1>2, <1>6 DEF ReadSettings, LoadOpCodes, EndLoop, DoNotListen, Input, StopNetwork,
                          After
<1>7. ASSUME Detach \/ Joined \/ intHandler \/ Crash PROVE ToldInv'
  BY <1>1, <1>7 DEF Detach, Joined, intHandler, Crash
<1>8. ASSUME CleanupTest \/ CleanupDelete \/ DeleteSharun \/ Return PROVE ToldInv'
  BY <1>3, <1>8 DEF CleanupTest, CleanupDelete, DeleteSharun, Return
<1>9. ASSUME MakeWorker PROVE ToldInv'
  BY <1>4, <1>9 DEF MakeWorker, Kinds
<1>10. ASSUME Listen PROVE ToldInv'
  BY <1>2, <1>4, <1>10 DEF Listen, Kinds, After
<1>11. ASSUME Create PROVE ToldInv'
  <2>1. Newest \in Threads /\ kind[Newest] \in Kinds
    BY <1>11, ThreadElements DEF Create, Types, MainTypes
  <2>2. /\ Begins[kind[Newest]] \in ThreadPC \ {"told", "work"}
        /\ "none" \in ThreadPC
    BY <2>1 DEF Begins, Kinds, ThreadPC
  <2>3. QED
    BY <1>5, <1>11, <2>1, <2>2 DEF Create
<1>12. ASSUME NEW t \in Threads, Thread(t) PROVE ToldInv'
  BY <1>5, <1>12 DEF Thread, ConnectFails, Connect, Register, Leave, StopAccepting, Log, ThreadPC
<1>13. ASSUME Join PROVE ToldInv'
  BY <1>5, <1>13 DEF Join, ThreadPC
<1>14. ASSUME EndClose PROVE ToldInv'
  BY <1>14 DEF EndClose, threads, Threads
<1>15. CASE UNCHANGED vars
  BY <1>1, <1>15 DEF vars
<1>16. QED
  BY <1>6, <1>7, <1>8, <1>9, <1>10, <1>11, <1>12, <1>13, <1>14, <1>15 DEF Next, Main

LEMMA OwnersStep == Types /\ OwnersInv /\ [Next]_vars => OwnersInv'
<1> SUFFICES ASSUME Types, OwnersInv, [Next]_vars PROVE OwnersInv'
  OBVIOUS
<1> USE DEF OwnersInv
<1>1. ASSUME Still PROVE OwnersInv'
  BY <1>1 DEF Still, threads, heap, Threads, Holds
<1>2. ASSUME NEW k \in Kinds, New(k), ~Ended PROVE OwnersInv'
  BY <1>2, NewThread DEF Types, Holds
<1>3. ASSUME NEW t \in Threads, NEW to \in ThreadPC, Goes(t, to), UNCHANGED <<kind, addr, mpc>>,
             Holds(t), UNCHANGED alive \/ (to \in {"log", "gone"} /\ alive' = alive \ {addr[t]})
      PROVE  OwnersInv'
  <2>1. Threads' = Threads /\ \A u \in Threads : tpc'[u] = IF u = t THEN to ELSE tpc[u]
    BY <1>3, ThreadGoes DEF Types
  <2>2. Ended' = Ended
    BY <1>3 DEF Ended
  <2>3. \A u \in Threads : Holds(u)' => Holds(u)
    BY <1>3, <2>1 DEF Holds
  <2>4. \A u \in Threads : u # t /\ Holds(u) /\ ~Ended => addr[u] # addr[t]
    BY <1>3
  <2>5. \A u \in Threads : Holds(u)' /\ to \in {"log", "gone"} => u # t
    BY <2>1 DEF Holds
  <2>6. QED
    BY <1>3, <2>1, <2>2, <2>3, <2>4, <2>5
<1> USE DEF MainGoes, Quiet, NoThread, MainStays
<1>4. ASSUME MakeWorker PROVE OwnersInv'
  BY <1>2, <1>4 DEF MakeWorker, Kinds, Ended
<1>5. ASSUME Listen, mpc # "bridge" PROVE OwnersInv'
  BY <1>2, <1>5 DEF Listen, Kinds, Ended
<1>6. ASSUME Create PROVE OwnersInv'
  <2>1. Newest \in Threads /\ kind[Newest] \in Kinds /\ Holds(Newest)
    BY <1>6, ThreadElements DEF Create, Types, MainTypes, Holds
  <2>2. Begins[kind[Newest]] \in ThreadPC /\ "none" \in ThreadPC
    BY <2>1 DEF Begins, Kinds, ThreadPC
  <2>3. QED
    BY <1>3, <1>6, <2>1, <2>2 DEF Create, heap
<1>7. ASSUME Join PROVE OwnersInv'
  BY <1>3, <1>7 DEF Join, ThreadPC, heap, Holds
<1>8. ASSUME CleanupDelete PROVE OwnersInv'
  BY <1>8 DEF CleanupDelete, Ended
<1>9. ASSUME NEW t \in Threads, ConnectFails(t) PROVE OwnersInv'
  BY <1>3, <1>9 DEF ConnectFails, ThreadPC, Delete, Holds
<1>10. ASSUME NEW t \in Threads, Connect(t) PROVE OwnersInv'
  BY <1>3, <1>10 DEF Connect, ThreadPC, heap, Holds
<1>11. ASSUME NEW t \in Threads, Register(t) PROVE OwnersInv'
  BY <1>3, <1>11 DEF Register, ThreadPC, heap, Holds
<1>12. ASSUME NEW t \in Threads, Leave(t) PROVE OwnersInv'
  BY <1>3, <1>12 DEF Leave, ThreadPC, Delete, Holds
<1>13. ASSUME NEW t \in Threads, StopAccepting(t) PROVE OwnersInv'
  BY <1>3, <1>13 DEF StopAccepting, ThreadPC, Delete, Holds
<1>14. ASSUME NEW t \in Threads, Log(t) PROVE OwnersInv'
  <2>1. /\ Threads' = Threads /\ \A u \in Threads : tpc'[u] = IF u = t THEN "gone" ELSE tpc[u]
    BY <1>14, ThreadGoes DEF Log, Types, ThreadPC
  <2>2. \A u \in Threads : Holds(u)' => Holds(u)
    BY <1>14, <2>1 DEF Log, Holds
  <2>3. QED
    BY <1>14, <2>1, <2>2 DEF Log, heap, Ended
<1>15. QED
  BY <1>1, <1>4, <1>5, <1>6, <1>7, <1>8, <1>9, <1>10, <1>11, <1>12, <1>13, <1>14, Steps
     DEF Thread

LEMMA OwnersInvariant == Spec => [](ToldInv /\ OwnersInv)
<1>1. Init => ToldInv /\ OwnersInv
  BY DEF Init, ToldInv, OwnersInv, Threads, Ended
<1>2. QED
  BY <1>1, ToldStep, OwnersStep, LifecycleTypes, PTL DEF Spec

---------------------------------------------------------------------------
(* The list. *)

(* Whoever deletes a thread_list deletes one that is there. *)
LEMMA HeapSteps ==
  ASSUME Types, ToldInv, OwnersInv, [Next]_vars
  PROVE  \/ UNCHANGED heap
         \/ \E k \in Kinds : New(k)
         \/ \E o \in alive : Delete(o)
<1>1. ASSUME NEW t \in Threads, Thread(t)
      PROVE  UNCHANGED heap \/ \E o \in alive : Delete(o)
  <2>1. CASE Leave(t)
    <3>1. tpc[t] = "told" /\ mpc = "close" /\ Delete(addr[t])
      BY <2>1 DEF Leave, ToldInv
    <3>2. addr[t] \in alive
      BY <3>1 DEF OwnersInv, Ended, Holds
    <3>3. QED
      BY <3>1, <3>2
  <2>2. CASE ConnectFails(t) \/ Connect(t) \/ Register(t) \/ StopAccepting(t) \/ Log(t)
    BY <2>2 DEF ConnectFails, Connect, Register, StopAccepting, Log
  <2>3. QED
    BY <1>1, <2>1, <2>2 DEF Thread
<1>2. QED
  BY <1>1, Steps DEF Still, MakeWorker, Listen, Create, Join, CleanupDelete, Kinds

LEMMA NewKeepsLinked ==
  ASSUME HeapTypes, Linked, NEW k, New(k)
  PROVE  Linked'
<1> USE AddressesAssumption DEF HeapTypes, ListType, Links
<1>1. PICK o \in Addresses : /\ o \notin alive /\ alive' = alive \cup {o}
                             /\ list' = Inserted(list, o)
  BY DEF New, Fresh
<1>2. NULL \notin alive /\ o # NULL /\ alive \subseteq Addresses
  OBVIOUS
<1>3. CASE list.first = NULL
  <2>1. /\ list'.first = o /\ list'.last = o /\ list'.next = list.next /\ list'.prev = list.prev
    BY <1>1, <1>3 DEF Inserted
  <2>2. QED
    BY <1>1, <1>2, <1>3, <2>1 DEF Linked, Clean
<1>4. CASE list.first # NULL
  <2> DEFINE l == list.last
  <2>1. l # NULL /\ l \in Addresses
    BY <1>4 DEF Linked
  <2>2. /\ list'.first = list.first /\ list'.last = o
        /\ list'.next = IF l \in alive \cup {o} THEN [list.next EXCEPT ![l] = o] ELSE list.next
        /\ list'.prev = [list.prev EXCEPT ![o] = l]
    BY <1>1, <1>4 DEF Inserted, Write
  <2> HIDE DEF l
  <2>3. /\ \A x \in Addresses : list'.next[x] = IF x = l /\ l \in alive \cup {o} THEN o
                                                ELSE list.next[x]
        /\ \A x \in Addresses : list'.prev[x] = IF x = o THEN l ELSE list.prev[x]
    BY <2>1, <2>2
  <2>4. Clean'
    BY <1>1, <1>2, <2>3 DEF Linked, Clean
  <2>5. list'.first \in alive' /\ list'.last # NULL
    BY <1>1, <1>2, <1>4, <2>2 DEF Linked
  <2>6. \A x \in alive' : list'.prev[x] = NULL <=> x = list'.first
    BY <1>1, <1>2, <1>4, <2>1, <2>2, <2>3 DEF Linked
  <2>7. ASSUME NEW x \in alive', list'.next[x] # NULL
        PROVE  list'.next[x] \in alive' /\ list'.prev[list'.next[x]] = x
    <3>1. CASE x = l
      <4>1. list'.next[x] = o
        BY <1>1, <2>1, <2>3, <3>1
      <4>2. QED
        BY <1>1, <2>3, <3>1, <4>1
    <3>2. CASE x # l
      <4>1. list'.next[x] = list.next[x] /\ x \in Addresses
        BY <1>1, <1>2, <2>3, <3>2
      <4>2. x \in alive
        BY <1>1, <2>7, <4>1 DEF Linked, Clean
      <4>3. QED
        BY <1>1, <1>2, <2>3, <2>7, <4>1, <4>2 DEF Linked
    <3>3. QED
      BY <3>1, <3>2
  <2>8. QED
    BY <2>4, <2>5, <2>6, <2>7 DEF Linked
<1>5. QED
  BY <1>3, <1>4

LEMMA DeleteKeepsLinked ==
  ASSUME HeapTypes, Linked, NEW o \in alive, Delete(o)
  PROVE  Linked'
<1> USE AddressesAssumption DEF HeapTypes, ListType, Links
<1> DEFINE p == list.prev[o]
           n == list.next[o]
<1>1. /\ alive' = alive \ {o} /\ NULL \notin alive /\ alive \subseteq Addresses
      /\ alive \cup alive' = alive
  BY DEF Delete
<1>2. /\ list'.last = list.last
      /\ list'.first = IF p = NULL THEN n ELSE list.first
      /\ list'.next = [Write(list.next, p, n) EXCEPT ![o] = NULL]
      /\ list'.prev = [Write(list.prev, n, p) EXCEPT ![o] = NULL]
  BY DEF Delete, Unlinked
<1> HIDE DEF p, n
<1>3. /\ \A x \in Addresses \ {o} :
           /\ list'.next[x] = IF x \in alive /\ x = p THEN n ELSE list.next[x]
           /\ list'.prev[x] = IF x \in alive /\ x = n THEN p ELSE list.prev[x]
      /\ list'.next[o] = NULL /\ list'.prev[o] = NULL
  BY <1>1, <1>2 DEF Write
<1>4. /\ p = NULL <=> o = list.first
      /\ n # NULL => n \in alive /\ list.prev[n] = o
  BY DEF Linked, p, n
<1>5. Clean'
  BY <1>1, <1>3 DEF Linked, Clean
<1>6. n = o => p = o
  BY <1>1, <1>4 DEF p
<1>7. list'.first # NULL => list'.first \in alive' /\ list'.last # NULL
  <2>1. CASE p = NULL
    BY <1>1, <1>2, <1>4, <1>6, <2>1 DEF Linked
  <2>2. CASE p # NULL
    BY <1>1, <1>2, <1>4, <2>2 DEF Linked
  <2>3. QED
    BY <2>1, <2>2
<1>8. ASSUME NEW x \in alive' PROVE list'.prev[x] = NULL <=> x = list'.first
  <2>1. x \in alive /\ x # o /\ x \in Addresses \ {o}
    BY <1>1
  <2>2. list.prev[x] = NULL <=> x = list.first
    BY <2>1 DEF Linked
  <2>3. list'.prev[x] = IF x = n THEN p ELSE list.prev[x]
    BY <1>3, <2>1
  <2>4. x = n => list.prev[x] = o
    BY <1>1, <1>4, <2>1
  <2>5. o # NULL /\ x # NULL
    BY <1>1, <2>1
  <2>6. QED
    BY <1>2, <1>4, <2>1, <2>2, <2>3, <2>4, <2>5
<1>9. ASSUME NEW x \in alive', list'.next[x] # NULL
      PROVE  list'.next[x] \in alive' /\ list'.prev[list'.next[x]] = x
  <2>1. x \in alive /\ x # o /\ x \in Addresses \ {o}
    BY <1>1
  <2>2. CASE x = p
    <3>1. list'.next[x] = n /\ n \in alive /\ n # o
      BY <1>3, <1>4, <1>6, <1>9, <2>1, <2>2
    <3>2. QED
      BY <1>1, <1>3, <2>2, <3>1
  <2>3. CASE x # p
    <3>1. list'.next[x] = list.next[x]
      BY <1>3, <2>1, <2>3
    <3>2. list.next[x] \in alive /\ list.prev[list.next[x]] = x
      BY <1>9, <2>1, <3>1 DEF Linked
    <3>3. list.next[x] # o
      BY <2>3, <3>2 DEF p
    <3>4. list.next[x] # n
      BY <1>4, <2>1, <3>2
    <3>5. QED
      BY <1>1, <1>3, <3>1, <3>2, <3>3, <3>4
  <2>4. QED
    BY <2>2, <2>3
<1>10. QED
  BY <1>5, <1>7, <1>8, <1>9 DEF Linked

(* The objects in the order of the list: s[1] is the first of the n        *)
(* objects, and their pointers say so.  thread_L_last is the last one      *)
(* unless it has been deleted.                                             *)
InOrder(n, s) ==
  /\ s \in [1..n -> alive]
  /\ \A i, j \in 1..n : s[i] = s[j] => i = j
  /\ \A o \in alive : \E i \in 1..n : s[i] = o
  /\ list.first = IF n = 0 THEN NULL ELSE s[1]
  /\ \A i \in 1..n : /\ list.next[s[i]] = IF i = n THEN NULL ELSE s[i + 1]
                     /\ list.prev[s[i]] = IF i = 1 THEN NULL ELSE s[i - 1]
  /\ list.last \in alive => n > 0 /\ list.last = s[n]

Ordered == \E n \in Nat : \E s \in [1..n -> alive] : InOrder(n, s)
ListInv == ~lost => Ordered

LEMMA NewKeepsList ==
  ASSUME HeapTypes, Clean, ListInv, NEW k, New(k)
  PROVE  ListInv'
<1> SUFFICES ASSUME ~lost, list.first = NULL \/ list.last \in alive PROVE Ordered'
  BY DEF ListInv, New, LastIsDeleted
<1>. PICK o \in Addresses : /\ o \notin alive /\ alive' = alive \cup {o}
                           /\ list' = Inserted(list, o)
  BY DEF New, Fresh
<1> USE AddressesAssumption DEF HeapTypes, ListType, Links
<1>1. PICK n \in Nat : \E s \in [1..n -> alive] : InOrder(n, s)
  BY DEF ListInv, Ordered
<1>2. PICK s \in [1..n -> alive] : InOrder(n, s)
  BY <1>1
<1>3. o \notin alive /\ alive' = alive \cup {o} /\ NULL \notin alive
  OBVIOUS
<1>4. CASE list.first = NULL
  <2>1. n = 0 /\ alive = {}
    <3>1. n = 0
      BY <1>2, <1>3, <1>4 DEF InOrder
    <3>2. QED
      BY <1>2, <3>1 DEF InOrder
  <2>2. /\ list'.first = o /\ list'.last = o
        /\ list'.next = list.next /\ list'.prev = list.prev
    BY <1>4 DEF Inserted
  <2>3. InOrder(1, [i \in 1..1 |-> o])'
    BY <1>3, <2>1, <2>2 DEF InOrder, Clean
  <2>5. [i \in 1..1 |-> o] \in [1..1 -> alive'] /\ 1 \in Nat
    BY <1>3
  <2>6. QED
    BY <2>3, <2>5 DEF Ordered
<1>5. CASE list.first # NULL
  <2> DEFINE l == list.last
             r == [i \in 1..n + 1 |-> IF i = n + 1 THEN o ELSE s[i]]
  <2>1. l \in alive /\ n > 0 /\ l = s[n] /\ l # o
    BY <1>2, <1>3, <1>5 DEF InOrder
  <2>2. /\ list'.first = list.first /\ list'.last = o
        /\ list'.next = [list.next EXCEPT ![l] = o]
        /\ list'.prev = [list.prev EXCEPT ![o] = l]
    BY <1>5, <2>1 DEF Inserted, Write
  <2>4. r \in [1..n + 1 -> alive'] /\ n + 1 \in Nat
    BY <1>3
  <2>5. InOrder(n + 1, r)'
    <3> HIDE DEF l
    <3>1. \A i \in 1..n : r[i] = s[i] /\ s[i] \in alive /\ s[i] # o
      BY <1>3
    <3>2. r[n + 1] = o
      OBVIOUS
    <3> HIDE DEF r
    <3>3. \A i, j \in 1..n + 1 : r[i] = r[j] => i = j
      <4>1. \A i, j \in 1..n : s[i] = s[j] => i = j
        BY <1>2 DEF InOrder
      <4>2. \A i \in 1..n + 1 : i = n + 1 \/ i \in 1..n
        OBVIOUS
      <4>3. QED
        BY <3>1, <3>2, <4>1, <4>2
    <3>4. ASSUME NEW x \in alive' PROVE \E i \in 1..n + 1 : r[i] = x
      <4>1. CASE x = o
        BY <3>2, <4>1
      <4>2. CASE x \in alive
        <5>1. PICK i \in 1..n : s[i] = x
          BY <1>2, <4>2 DEF InOrder
        <5>2. QED
          BY <3>1, <5>1
      <4>3. QED
        BY <1>3, <4>1, <4>2
    <3>5. \A i \in 1..n + 1 : list'.next[r[i]] = IF i = n + 1 THEN NULL ELSE r[i + 1]
      <4>1. \A i \in 1..n : i # n => r[i + 1] = s[i + 1] /\ s[i] # l
        BY <1>2, <2>1, <3>1 DEF InOrder
      <4>2. \A i \in 1..n : list.next[s[i]] = IF i = n THEN NULL ELSE s[i + 1]
        BY <1>2 DEF InOrder
      <4>3. list.next[o] = NULL
        BY <1>3 DEF Clean
      <4>4. QED
        BY <2>1, <2>2, <3>1, <3>2, <4>1, <4>2, <4>3
    <3>6. \A i \in 1..n + 1 : list'.prev[r[i]] = IF i = 1 THEN NULL ELSE r[i - 1]
      <4>1. \A i \in 1..n : list.prev[s[i]] = IF i = 1 THEN NULL ELSE s[i - 1]
        BY <1>2 DEF InOrder
      <4>2. \A i \in 1..n : i # 1 => i - 1 \in 1..n
        OBVIOUS
      <4>3. ASSUME NEW i \in 1..n PROVE list'.prev[r[i]] = IF i = 1 THEN NULL ELSE r[i - 1]
        BY <2>2, <3>1, <4>1, <4>2
      <4>4. list'.prev[r[n + 1]] = r[n] /\ n + 1 # 1 /\ n + 1 - 1 = n
        BY <2>1, <2>2, <3>1, <3>2
      <4>5. SUFFICES ASSUME NEW i \in 1..n + 1
                     PROVE  list'.prev[r[i]] = IF i = 1 THEN NULL ELSE r[i - 1]
        OBVIOUS
      <4>6. CASE i = n + 1
        BY <4>4, <4>6
      <4>7. CASE i \in 1..n
        BY <4>3, <4>7
      <4>8. QED
        BY <4>6, <4>7
    <3>7. list'.first = r[1] /\ list'.last = r[n + 1]
      BY <1>2, <2>1, <2>2, <3>1, <3>2 DEF InOrder
    <3>8. QED
      BY <2>4, <3>3, <3>4, <3>5, <3>6, <3>7 DEF InOrder
  <2>6. QED
    BY <2>4, <2>5 DEF Ordered
<1>6. QED
  BY <1>4, <1>5

LEMMA DeleteKeepsList ==
  ASSUME HeapTypes, ListInv, NEW o \in alive, Delete(o)
  PROVE  ListInv'
<1> SUFFICES ASSUME ~lost PROVE Ordered'
  BY DEF ListInv, Delete
<1> USE AddressesAssumption DEF HeapTypes, ListType, Links
<1>1. PICK n \in Nat : \E s \in [1..n -> alive] : InOrder(n, s)
  BY DEF ListInv, Ordered
<1>2. PICK s \in [1..n -> alive] : InOrder(n, s)
  BY <1>1
<1>3. /\ alive' = alive \ {o} /\ NULL \notin alive /\ alive \subseteq Addresses
      /\ alive \cup alive' = alive
  BY DEF Delete
<1>4. PICK k \in 1..n : s[k] = o
  BY <1>2 DEF InOrder
<1> DEFINE p == list.prev[o]
           q == list.next[o]
           r == [i \in 1..n - 1 |-> IF i < k THEN s[i] ELSE s[i + 1]]
<1>5. /\ p = IF k = 1 THEN NULL ELSE s[k - 1]
      /\ q = IF k = n THEN NULL ELSE s[k + 1]
  BY <1>2, <1>4 DEF InOrder
<1>6. /\ list'.last = list.last
      /\ list'.first = IF p = NULL THEN q ELSE list.first
      /\ list'.next = [Write(list.next, p, q) EXCEPT ![o] = NULL]
      /\ list'.prev = [Write(list.prev, q, p) EXCEPT ![o] = NULL]
  BY DEF Delete, Unlinked
<1> HIDE DEF p, q
<1>7. /\ \A x \in Addresses \ {o} :
           /\ list'.next[x] = IF x \in alive /\ x = p THEN q ELSE list.next[x]
           /\ list'.prev[x] = IF x \in alive /\ x = q THEN p ELSE list.prev[x]
      /\ list'.next[o] = NULL /\ list'.prev[o] = NULL
  BY <1>3, <1>6 DEF Write
<1>9. /\ \A i \in 1..n : s[i] \in alive /\ (s[i] = o <=> i = k)
      /\ \A i, j \in 1..n : s[i] = s[j] => i = j
  BY <1>2, <1>4 DEF InOrder
<1>10. r \in [1..n - 1 -> alive'] /\ n - 1 \in Nat
  BY <1>3, <1>9
<1>11. InOrder(n - 1, r)'
  <2>1. \A i \in 1..n - 1 : r[i] = IF i < k THEN s[i] ELSE s[i + 1]
    OBVIOUS
  <2> HIDE DEF r
  <2>2. \A i, j \in 1..n - 1 : r[i] = r[j] => i = j
    BY <1>9, <2>1
  <2>3. ASSUME NEW x \in alive' PROVE \E i \in 1..n - 1 : r[i] = x
    <3>1. PICK i \in 1..n : s[i] = x
      BY <1>2, <1>3 DEF InOrder
    <3>2. i # k
      BY <1>3, <1>9, <3>1
    <3>3. CASE i < k
      BY <2>1, <3>1, <3>3
    <3>4. CASE i > k
      <4>1. i - 1 \in 1..n - 1 /\ r[i - 1] = s[i]
        BY <2>1, <3>4
      <4>2. QED
        BY <3>1, <4>1
    <3>5. QED
      BY <3>2, <3>3, <3>4
  <2>4. list'.first = IF n - 1 = 0 THEN NULL ELSE r[1]
    <3>1. list.first = s[1]
      BY <1>2, <1>4 DEF InOrder
    <3>2. CASE k = 1
      BY <1>5, <1>6, <2>1, <3>2
    <3>3. CASE k # 1
      BY <1>3, <1>5, <1>6, <1>9, <2>1, <3>1, <3>3
    <3>4. QED
      BY <3>2, <3>3
  <2>5. ASSUME NEW i \in 1..n - 1
        PROVE  /\ list'.next[r[i]] = IF i = n - 1 THEN NULL ELSE r[i + 1]
               /\ list'.prev[r[i]] = IF i = 1 THEN NULL ELSE r[i - 1]
    <3>1. \A j \in 1..n : /\ list.next[s[j]] = IF j = n THEN NULL ELSE s[j + 1]
                          /\ list.prev[s[j]] = IF j = 1 THEN NULL ELSE s[j - 1]
      BY <1>2 DEF InOrder
    <3>2. CASE i < k - 1
      <4>1. /\ i \in 1..n /\ i + 1 \in 1..n - 1 /\ i # k /\ i # n /\ i # n - 1 /\ k # 1
            /\ k - 1 \in 1..n /\ i # k - 1
        BY <3>2
      <4>2. r[i] = s[i] /\ r[i + 1] = s[i + 1] /\ (i # 1 => r[i - 1] = s[i - 1])
        BY <2>1, <3>2, <4>1
      <4>3. s[i] # o /\ s[i] # p /\ s[i] # q /\ s[i] \in Addresses
        BY <1>3, <1>5, <1>9, <3>2, <4>1
      <4>4. list'.next[s[i]] = list.next[s[i]] /\ list'.prev[s[i]] = list.prev[s[i]]
        BY <1>7, <4>3
      <4>5. QED
        BY <3>1, <4>1, <4>2, <4>4
    <3>3. CASE i = k - 1
      <4>1. /\ i \in 1..n /\ i + 1 = k /\ i # n /\ i # k /\ k # 1 /\ i < k
            /\ (i # n - 1 => ~(i + 1 < k) /\ i + 1 \in 1..n - 1 /\ k # n)
            /\ (i = n - 1 => k = n) /\ (i # 1 => i - 1 \in 1..n - 1 /\ i - 1 < k)
        BY <3>3
      <4>2. r[i] = s[i] /\ (i # n - 1 => r[i + 1] = s[k + 1]) /\ (i # 1 => r[i - 1] = s[i - 1])
        BY <2>1, <4>1
      <4>3. s[i] \in alive /\ s[i] # o /\ s[i] = p /\ s[i] # NULL
        BY <1>3, <1>5, <1>9, <4>1
      <4>4. s[i] # q
        BY <1>5, <1>9, <4>1, <4>3
      <4>5. list'.next[s[i]] = q /\ list'.prev[s[i]] = list.prev[s[i]]
        BY <1>3, <1>7, <4>3, <4>4
      <4>6. QED
        BY <1>5, <3>1, <4>1, <4>2, <4>5
    <3>4. CASE i = k
      <4>1. /\ k + 1 \in 1..n /\ k # n /\ k + 1 # k /\ ~(i < k) /\ k + 1 # 1 /\ k + 1 - 1 = k
            /\ (i # n - 1 => ~(i + 1 < k) /\ i + 1 \in 1..n - 1 /\ k + 1 # n)
            /\ (i = n - 1 => k + 1 = n) /\ (i # 1 => k - 1 \in 1..n - 1 /\ k - 1 < k)
        BY <3>4
      <4>2. /\ r[i] = s[k + 1] /\ (i # n - 1 => r[i + 1] = s[k + 1 + 1])
            /\ (i # 1 => r[i - 1] = s[k - 1])
        BY <2>1, <3>4, <4>1
      <4>3. s[k + 1] \in alive /\ s[k + 1] # o /\ s[k + 1] = q /\ s[k + 1] # NULL
        BY <1>3, <1>5, <1>9, <4>1
      <4>4. s[k + 1] # p
        BY <1>5, <1>9, <4>1, <4>3
      <4>5. list'.prev[s[k + 1]] = p /\ list'.next[s[k + 1]] = list.next[s[k + 1]]
        BY <1>3, <1>7, <4>3, <4>4
      <4>6. list.next[s[k + 1]] = IF k + 1 = n THEN NULL ELSE s[k + 1 + 1]
        BY <3>1, <4>1
      <4>7. QED
        BY <1>5, <3>4, <4>1, <4>2, <4>5, <4>6
    <3>5. CASE i > k
      <4>1. /\ i \in 1..n /\ i + 1 \in 1..n /\ i # 1 /\ i - 1 \in 1..n - 1 /\ i - 1 + 1 = i
            /\ k # n /\ k + 1 \in 1..n /\ i + 1 # k + 1 /\ i + 1 # k /\ ~(i - 1 < k)
            /\ (i + 1 = n <=> i = n - 1) /\ i + 1 # 1 /\ i + 1 - 1 = i
            /\ (i # n - 1 => i + 1 \in 1..n - 1 /\ ~(i + 1 < k))
        BY <3>5
      <4>2. r[i] = s[i + 1] /\ (i # n - 1 => r[i + 1] = s[i + 1 + 1]) /\ r[i - 1] = s[i]
        BY <2>1, <3>5, <4>1
      <4>3. s[i + 1] # o /\ s[i + 1] # p /\ s[i + 1] # q /\ s[i + 1] \in Addresses
        BY <1>3, <1>5, <1>9, <3>5, <4>1
      <4>4. /\ list'.next[s[i + 1]] = list.next[s[i + 1]]
            /\ list'.prev[s[i + 1]] = list.prev[s[i + 1]]
        BY <1>7, <4>3
      <4>5. /\ list.next[s[i + 1]] = IF i + 1 = n THEN NULL ELSE s[i + 1 + 1]
            /\ list.prev[s[i + 1]] = s[i]
        BY <3>1, <4>1
      <4>6. QED
        BY <4>1, <4>2, <4>4, <4>5
    <3>6. QED
      BY <3>2, <3>3, <3>4, <3>5
  <2>6. list'.last \in alive' => n - 1 > 0 /\ list'.last = r[n - 1]
    <3>1. SUFFICES ASSUME list'.last \in alive' PROVE n - 1 > 0 /\ list'.last = r[n - 1]
      OBVIOUS
    <3>2. list.last = s[n] /\ n # k
      BY <1>2, <1>3, <1>6, <1>9, <3>1 DEF InOrder
    <3>3. n - 1 \in 1..n - 1 /\ ~(n - 1 < k) /\ n - 1 + 1 = n
      BY <3>2
    <3>4. r[n - 1] = s[n]
      BY <2>1, <3>3
    <3>5. list'.last = r[n - 1] /\ n - 1 > 0
      BY <1>6, <3>2, <3>3, <3>4
    <3>6. QED
      BY <3>5
  <2>7. QED
    BY <1>10, <2>2, <2>3, <2>4, <2>5, <2>6 DEF InOrder
<1>12. QED
  BY <1>10, <1>11 DEF Ordered

LEMMA ListStep ==
  Types /\ ToldInv /\ OwnersInv /\ Linked /\ ListInv /\ [Next]_vars => Linked' /\ ListInv'
<1> SUFFICES ASSUME Types, ToldInv, OwnersInv, Linked, ListInv, [Next]_vars
             PROVE  Linked' /\ ListInv'
  OBVIOUS
<1>1. CASE UNCHANGED heap
  <2>1. \A n, s : InOrder(n, s) => InOrder(n, s)'
    BY <1>1 DEF InOrder, heap
  <2>2. Ordered => Ordered'
    BY <1>1, <2>1 DEF Ordered, heap
  <2>3. Linked'
    BY <1>1 DEF Linked, Clean, heap
  <2>4. QED
    BY <1>1, <2>2, <2>3 DEF ListInv, heap
<1>2. ASSUME NEW k \in Kinds, New(k) PROVE Linked' /\ ListInv'
  BY <1>2, NewKeepsLinked, NewKeepsList DEF Types, Linked
<1>3. ASSUME NEW o \in alive, Delete(o) PROVE Linked' /\ ListInv'
  BY <1>3, DeleteKeepsLinked, DeleteKeepsList DEF Types
<1>4. QED
  BY <1>1, <1>2, <1>3, HeapSteps

LEMMA ListInvariant == Spec => [](Linked /\ ListInv)
<1>1. Init => Linked /\ ListInv
  <2> SUFFICES ASSUME Init PROVE Linked /\ ListInv
    OBVIOUS
  <2>1. Linked
    BY DEF Init, Linked, Clean
  <2>2. InOrder(0, <<>>) /\ <<>> \in [1..0 -> alive] /\ 0 \in Nat
    BY DEF Init, InOrder
  <2>3. QED
    BY <2>1, <2>2 DEF ListInv, Ordered
<1>2. QED
  BY <1>1, ListStep, LifecycleTypes, OwnersInvariant, PTL DEF Spec

---------------------------------------------------------------------------
(* Chain collects the objects of the list one by one: an induction over    *)
(* the number of steps, by the least number that does not have a property. *)

Less == OpToRel(<, Nat)

LEMMA SetInduction ==
  ASSUME NEW S, 0 \in S, \A m \in Nat : m \in S => m + 1 \in S
  PROVE  Nat \subseteq S
<1> SUFFICES ASSUME Nat \ S # {} PROVE FALSE
  OBVIOUS
<1>1. IsWellFoundedOn(Less, Nat)
  BY NatLessThanWellFounded DEF Less
<1>2. \A x, y \in Nat : <<x, y>> \in Less <=> x < y
  BY DEF Less, OpToRel
<1>3. PICK x \in Nat \ S : \A y \in Nat \ S : ~ (<<y, x>> \in Less)
  BY <1>1, WFMin
<1>4. x - 1 \in Nat /\ x - 1 < x /\ x - 1 + 1 = x
  BY <1>3
<1>5. x - 1 \notin S
  BY <1>3, <1>4
<1>6. QED
  BY <1>2, <1>3, <1>4, <1>5

(* One more step of Chain. *)
Reach(f) ==
  [m \in 0..Cardinality(Addresses) |->
     IF m = 0 THEN {list.first} \ {NULL}
     ELSE f[m - 1] \cup ({list.next[o] : o \in f[m - 1]} \ {NULL})]

LEMMA ChainIsReach == Chain = (CHOOSE c : c = Reach(c))[Cardinality(Addresses)]
BY Zenon DEF Chain, Reach

LEMMA ChainIsAll ==
  ASSUME HeapTypes, NEW n \in Nat, NEW s \in [1..n -> alive], InOrder(n, s)
  PROVE  Chain = alive
<1> DEFINE K == Cardinality(Addresses)
           upto(m) == {s[i] : i \in {j \in 1..n : j <= m + 1}}
           g == [m \in 0..K |-> upto(m)]
<1> USE AddressesAssumption DEF HeapTypes, ListType, Links
<1>1. K \in Nat /\ IsFiniteSet(Addresses)
  BY AddressesAssumption, FS_CardinalityType
<1>2. n <= K
  <2>1. s \in Injection(1..n, Addresses)
    BY DEF InOrder, Injection, IsInjective
  <2>2. Cardinality(1..n) = n
    BY FS_Interval
  <2>3. QED
    BY <1>1, <2>1, <2>2, FS_Injection
<1> HIDE DEF K
<1>3. upto(0) = {list.first} \ {NULL}
  BY DEF InOrder
<1>4. ASSUME NEW m \in Nat
      PROVE  upto(m + 1) = upto(m) \cup ({list.next[o] : o \in upto(m)} \ {NULL})
  <2>1. \A i \in 1..n : list.next[s[i]] = IF i = n THEN NULL ELSE s[i + 1]
    BY DEF InOrder
  <2>2. upto(m + 1) \subseteq upto(m) \cup ({list.next[o] : o \in upto(m)} \ {NULL})
    <3>1. ASSUME NEW i \in 1..n, i <= m + 2
          PROVE  s[i] \in upto(m) \cup ({list.next[o] : o \in upto(m)} \ {NULL})
      <4>1. CASE i <= m + 1
        BY <4>1
      <4>2. CASE i = m + 2
        <5>1. i - 1 \in 1..n /\ i - 1 <= m + 1 /\ i - 1 # n /\ i - 1 + 1 = i
          BY <4>2
        <5>2. s[i - 1] \in upto(m) /\ list.next[s[i - 1]] = s[i] /\ s[i] # NULL
          BY <2>1, <5>1
        <5>3. QED
          BY <5>2
      <4>3. QED
        BY <3>1, <4>1, <4>2
    <3>2. QED
      BY <3>1
  <2>3. upto(m) \subseteq upto(m + 1)
    OBVIOUS
  <2>4. ASSUME NEW o \in upto(m), list.next[o] # NULL PROVE list.next[o] \in upto(m + 1)
    <3>1. PICK i \in 1..n : i <= m + 1 /\ o = s[i]
      OBVIOUS
    <3>2. i + 1 \in 1..n /\ i + 1 <= m + 1 + 1 /\ list.next[s[i]] = s[i + 1]
      BY <2>1, <2>4, <3>1
    <3>3. QED
      BY <3>1, <3>2
  <2>5. QED
    <3> HIDE DEF upto
    <3>1. QED
      BY <2>2, <2>3, <2>4
<1> HIDE DEF upto
<1>5. g = Reach(g)
  <2>1. ASSUME NEW m \in 0..K PROVE Reach(g)[m] = upto(m)
    <3>1. CASE m = 0
      BY <1>1, <1>3, <3>1 DEF Reach, K
    <3>2. CASE m # 0
      <4>1. m - 1 \in 0..K /\ m - 1 \in Nat /\ m - 1 + 1 = m
        BY <1>1, <3>2
      <4>2. g[m - 1] = upto(m - 1)
        BY <4>1
      <4>3. QED
        BY <1>4, <3>2, <4>1, <4>2 DEF Reach, K
    <3>3. QED
      BY <3>1, <3>2
  <2>2. QED
    BY <2>1 DEF Reach, K
<1> DEFINE c == CHOOSE x : x = Reach(x)
<1>6. c = Reach(c)
  BY <1>5
<1> HIDE DEF c
<1>7. c[K] = upto(K)
  <2> DEFINE S == {m \in Nat : m <= K => c[m] = upto(m)}
  <2>1. 0 \in S
    BY <1>1, <1>3, <1>6 DEF Reach, K
  <2>2. ASSUME NEW m \in Nat, m \in S PROVE m + 1 \in S
    <3>1. SUFFICES ASSUME m + 1 <= K PROVE c[m + 1] = upto(m + 1)
      OBVIOUS
    <3>2. m \in 0..K /\ m + 1 \in 0..K /\ m + 1 # 0 /\ m + 1 - 1 = m /\ c[m] = upto(m)
      BY <1>1, <2>2, <3>1
    <3>3. c[m + 1] = c[m] \cup ({list.next[o] : o \in c[m]} \ {NULL})
      BY <1>6, <3>2 DEF Reach, K
    <3>4. QED
      BY <1>4, <3>2, <3>3
  <2>3. Nat \subseteq S
    <3> HIDE DEF S
    <3>1. QED
      BY <2>1, <2>2, SetInduction
  <2>4. QED
    BY <1>1, <2>3
<1>8. upto(K) = alive
  BY <1>1, <1>2 DEF InOrder, upto
<1>9. QED
  BY <1>7, <1>8, ChainIsReach DEF c, K


LEMMA ThreadListHolds ==
  ASSUME Types, ListInv, ~lost
  PROVE  /\ Chain = alive
         /\ \A o \in alive : LET n == list.next[o]
                             IN  n # NULL => n \in alive /\ list.prev[n] = o
<1> USE AddressesAssumption DEF Types, HeapTypes
<1>1. PICK n \in Nat : \E s \in [1..n -> alive] : InOrder(n, s)
  BY DEF ListInv, Ordered
<1>2. PICK s \in [1..n -> alive] : InOrder(n, s)
  BY <1>1
<1>3. Chain = alive
  BY <1>2, ChainIsAll
<1>4. ASSUME NEW o \in alive, list.next[o] # NULL
      PROVE  list.next[o] \in alive /\ list.prev[list.next[o]] = o
  <2>1. PICK i \in 1..n : s[i] = o
    BY <1>2 DEF InOrder
  <2>2. \A j \in 1..n : /\ list.next[s[j]] = IF j = n THEN NULL ELSE s[j + 1]
                        /\ list.prev[s[j]] = IF j = 1 THEN NULL ELSE s[j - 1]
    BY <1>2 DEF InOrder
  <2>3. i # n /\ list.next[o] = s[i + 1]
    BY <1>4, <2>1, <2>2
  <2>4. i + 1 \in 1..n /\ i + 1 - 1 = i /\ i + 1 # 1
    BY <2>3
  <2>5. QED
    BY <2>1, <2>2, <2>3, <2>4
<1>5. QED
  BY <1>3, <1>4

---------------------------------------------------------------------------
(* The acceptors, and the workers that fail. *)

LEMMA AcceptStep == Types /\ AcceptInv /\ [Next]_vars => AcceptInv'
<1> SUFFICES ASSUME Types, AcceptInv, [Next]_vars PROVE AcceptInv'
  OBVIOUS
<1> USE DEF Accepting
<1>1. ASSUME UNCHANGED threads,
             step' = "create" => step = "create" /\ open \subseteq open',
             mpc' \in Starting => mpc \in Starting /\ open \subseteq open',
             mpc' \in {"settings", "opcodes", "database"} =>
               mpc \in {"settings", "opcodes", "database"},
             mpc' \in {"fast", "slow", "game"} =>
               mpc \in {"settings", "opcodes", "database", "fast", "slow", "game"},
             mpc' = "httpd" =>
               mpc \in {"settings", "opcodes", "database", "fast", "slow", "game", "httpd"}
      PROVE  AcceptInv'
  <2>1. Threads' = Threads /\ Newest' = Newest /\ kind' = kind /\ tpc' = tpc
    BY <1>1 DEF threads, Threads, Newest
  <2>2. kind = <<>> => Threads = {}
    BY ThreadElements DEF Types
  <2>3. mpc' \in {"fast", "slow", "game"} => \A t \in Threads : kind[t] \notin Accepting
    BY <1>1, <2>2 DEF AcceptInv
  <2>4. mpc' = "httpd" => \A t \in Threads : kind[t] # "httpd"
    BY <1>1, <2>2 DEF AcceptInv
  <2>5. mpc' \in Starting => \A t \in Threads : tpc[t] = "accept" => kind[t] \in open'
    BY <1>1 DEF AcceptInv
  <2>6. step' = "create" /\ kind[Newest] \in Accepting => kind[Newest] \in open'
    BY <1>1 DEF AcceptInv
  <2>7. QED
    BY <1>1, <2>1, <2>3, <2>4, <2>5, <2>6 DEF AcceptInv
<1>2. ASSUME NEW t \in Threads, NEW to \in ThreadPC, Goes(t, to), to # "accept",
             UNCHANGED <<kind, addr, mpc, open, step>>
      PROVE  AcceptInv'
  <2>1. Threads' = Threads /\ \A u \in Threads : tpc'[u] = IF u = t THEN to ELSE tpc[u]
    BY <1>2, ThreadGoes DEF Types
  <2>2. \A u \in Threads : tpc'[u] = "accept" => tpc[u] = "accept"
    BY <1>2, <2>1
  <2>3. QED
    BY <1>2, <2>1, <2>2 DEF AcceptInv, Newest
<1> USE DEF MainGoes, Quiet, NoThread, MainStays
<1>3. ASSUME ReadSettings \/ LoadOpCodes \/ EndLoop \/ DoNotListen \/ Input
      PROVE  AcceptInv'
  BY <1>1, <1>3 DEF ReadSettings, LoadOpCodes, EndLoop, DoNotListen, Input, After, Starting
<1>4. ASSUME Detach \/ intHandler \/ Crash \/ Joined PROVE AcceptInv'
  BY <1>1, <1>4 DEF Detach, intHandler, Crash, Joined
<1>5. ASSUME StopNetwork \/ EndClose \/ DeleteSharun \/ Return \/ CleanupDelete PROVE AcceptInv'
  BY <1>1, <1>5 DEF StopNetwork, EndClose, DeleteSharun, Return, CleanupDelete, Starting
<1>6. ASSUME CleanupTest PROVE AcceptInv'
  BY <1>1, <1>6 DEF CleanupTest, Starting
<1>7. ASSUME Listen, mpc = "bridge" PROVE AcceptInv'
  BY <1>1, <1>7 DEF Listen, After, Starting
<1>8. ASSUME MakeWorker PROVE AcceptInv'
  <2>1. mpc \in {"fast", "slow", "http"} /\ mpc' = mpc /\ open' = open /\ New(mpc)
    BY <1>8 DEF MakeWorker
  <2>2. mpc \in Kinds /\ mpc \notin Accepting
    BY <2>1 DEF Kinds
  <2>3. /\ Newest' \notin Threads /\ Threads' = Threads \cup {Newest'}
        /\ \A t \in Threads : kind'[t] = kind[t] /\ tpc'[t] = tpc[t]
        /\ kind'[Newest'] = mpc /\ tpc'[Newest'] = "made"
    BY <2>1, <2>2, NewThread DEF Types
  <2>4. QED
    BY <2>1, <2>2, <2>3 DEF AcceptInv
<1>9. ASSUME Listen, mpc # "bridge" PROVE AcceptInv'
  <2>1. mpc \in {"game", "httpd"} /\ mpc' = After[mpc] /\ open' = open \cup {mpc} /\ New(mpc)
    BY <1>9 DEF Listen
  <2>2. mpc \in Kinds /\ mpc \in Starting
    BY <2>1 DEF Kinds, Starting
  <2>3. /\ Newest' \notin Threads /\ Threads' = Threads \cup {Newest'}
        /\ \A t \in Threads : kind'[t] = kind[t] /\ tpc'[t] = tpc[t]
        /\ kind'[Newest'] = mpc /\ tpc'[Newest'] = "made"
    BY <2>1, <2>2, NewThread DEF Types
  <2>4. \A t \in Threads : kind[t] # mpc
    BY <2>1 DEF AcceptInv
  <2>5. mpc' \in {"httpd", "bridge"} /\ (mpc' = "httpd" => mpc = "game")
    BY <2>1 DEF After
  <2>6. mpc' = "httpd" => \A t \in Threads : kind[t] # "httpd"
    BY <2>5 DEF AcceptInv
  <2>7. QED
    BY <2>1, <2>2, <2>3, <2>4, <2>5, <2>6 DEF AcceptInv
<1>10. ASSUME Create PROVE AcceptInv'
  <2>1. /\ Newest \in Threads /\ kind[Newest] \in Kinds /\ step = "create" /\ mpc' = mpc
        /\ UNCHANGED <<kind, addr>> /\ step' # "create"
    BY <1>10, ThreadElements DEF Create, Types, MainTypes
  <2>2. CASE Goes(Newest, Begins[kind[Newest]]) /\ open' = open
    <3>1. Begins[kind[Newest]] \in ThreadPC
      BY <2>1 DEF Begins, Kinds, ThreadPC
    <3>2. /\ Threads' = Threads
          /\ \A u \in Threads : tpc'[u] = IF u = Newest THEN Begins[kind[Newest]] ELSE tpc[u]
      BY <2>1, <2>2, <3>1, ThreadGoes DEF Types
    <3>3. Begins[kind[Newest]] = "accept" => kind[Newest] \in Accepting
      BY <2>1 DEF Begins, Kinds
    <3>4. QED
      BY <2>1, <2>2, <3>2, <3>3 DEF AcceptInv
  <2>3. CASE Goes(Newest, "none") /\ open' = open \ {kind[Newest]}
    <3>1. "none" \in ThreadPC
      BY DEF ThreadPC
    <3>2. /\ Threads' = Threads
          /\ \A u \in Threads : tpc'[u] = IF u = Newest THEN "none" ELSE tpc[u]
      BY <2>1, <2>3, <3>1, ThreadGoes DEF Types
    <3>3. \A u \in Threads : tpc'[u] = "accept" => u # Newest /\ tpc[u] = "accept"
      BY <3>2
    <3>4. \A u \in Threads : tpc'[u] = "accept" => kind[u] # kind[Newest]
      BY <2>1, <3>3 DEF AcceptInv
    <3>5. QED
      BY <2>1, <2>3, <3>2, <3>3, <3>4 DEF AcceptInv
  <2>4. QED
    BY <1>10, <2>2, <2>3 DEF Create
<1>11. ASSUME NEW t \in Threads, Thread(t) PROVE AcceptInv'
  BY <1>2, <1>11 DEF Thread, ConnectFails, Connect, Register, Leave, StopAccepting, Log, ThreadPC
<1>12. ASSUME Join PROVE AcceptInv'
  BY <1>2, <1>12 DEF Join, ThreadPC
<1>13. CASE UNCHANGED vars
  BY <1>1, <1>13 DEF vars
<1>14. QED
  BY <1>3, <1>4, <1>5, <1>6, <1>7, <1>8, <1>9, <1>10, <1>11, <1>12, <1>13 DEF Next, Main

LEMMA FailedStep ==
  Types /\ ToldInv /\ OwnersInv /\ AcceptInv /\ FailedInv /\ [Next]_vars => FailedInv'
<1> SUFFICES ASSUME Types, ToldInv, OwnersInv, AcceptInv, FailedInv, [Next]_vars
             PROVE  FailedInv'
  OBVIOUS
<1>1. ASSUME UNCHANGED <<threads, heap, failed>>, mpc' \in Starting => mpc \in Starting,
             strayed' => strayed \/ failed # {}
      PROVE  FailedInv'
  BY <1>1 DEF FailedInv, threads, heap, Threads, Holds
<1>2. ASSUME NEW k \in Kinds, New(k), UNCHANGED <<failed, strayed>>, mpc \in Starting
      PROVE  FailedInv'
  <2>1. /\ Threads' = Threads \cup {Newest'}
        /\ \A t \in Threads : tpc'[t] = tpc[t]
        /\ tpc'[Newest'] = "made"
    BY <1>2, NewThread DEF Types
  <2>2. list'.last \in alive'
    BY <1>2 DEF New, Inserted, Types, HeapTypes, ListType
  <2>3. lost' = (lost \/ LastIsDeleted)
    BY <1>2 DEF New
  <2>4. QED
    BY <1>2, <2>1, <2>2, <2>3 DEF FailedInv, Holds, LastIsDeleted
<1>3. ASSUME NEW t \in Threads, NEW to \in ThreadPC \ {"log", "gone"}, Goes(t, to),
             UNCHANGED <<kind, addr, mpc, failed, strayed, heap>>
      PROVE  FailedInv'
  <2>1. Threads' = Threads /\ \A u \in Threads : tpc'[u] = IF u = t THEN to ELSE tpc[u]
    BY <1>3, ThreadGoes DEF Types
  <2>2. QED
    BY <1>3, <2>1 DEF FailedInv, Holds, heap
<1>4. ASSUME mpc' \notin Starting \/ failed # {}, UNCHANGED <<failed, strayed, lost>>
      PROVE  FailedInv'
  BY <1>4 DEF FailedInv
<1> USE DEF MainGoes, Quiet, NoThread, MainStays, history
<1>5. ASSUME ReadSettings \/ LoadOpCodes \/ EndLoop \/ DoNotListen \/ Input
      PROVE  FailedInv'
  BY <1>1, <1>5 DEF ReadSettings, LoadOpCodes, EndLoop, DoNotListen, Input, Starting
<1>6. ASSUME intHandler \/ Crash \/ Joined \/ CleanupTest PROVE FailedInv'
  BY <1>1, <1>6 DEF intHandler, Crash, Joined, CleanupTest, Starting
<1>7. ASSUME StopNetwork \/ EndClose \/ DeleteSharun \/ Return PROVE FailedInv'
  BY <1>1, <1>7 DEF StopNetwork, EndClose, DeleteSharun, Return, Starting
<1>8. ASSUME CleanupDelete PROVE FailedInv'
  BY <1>4, <1>8 DEF CleanupDelete, Starting, Delete
<1>9. ASSUME MakeWorker PROVE FailedInv'
  BY <1>2, <1>9 DEF MakeWorker, Kinds, Starting
<1>10. ASSUME Listen PROVE FailedInv'
  BY <1>1, <1>2, <1>10 DEF Listen, Kinds, Starting
<1>11. ASSUME Create PROVE FailedInv'
  <2>1. Newest \in Threads /\ kind[Newest] \in Kinds
    BY <1>11, ThreadElements DEF Create, Types, MainTypes
  <2>2. /\ Begins[kind[Newest]] \in ThreadPC \ {"log", "gone"}
        /\ "none" \in ThreadPC \ {"log", "gone"}
    BY <2>1 DEF Begins, Kinds, ThreadPC
  <2>3. QED
    BY <1>3, <1>11, <2>1, <2>2 DEF Create
<1>12. ASSUME Detach PROVE FailedInv'
  <2>1. Newest \in Threads /\ mpc \in Starting /\ ~Ended
    BY <1>12, ThreadElements DEF Detach, Types, MainTypes, Starting, Ended
  <2>2. failed = {} => addr[Newest] \in alive
    BY <2>1 DEF FailedInv, OwnersInv
  <2>3. QED
    BY <1>1, <1>12, <2>2 DEF Detach
<1>13. ASSUME Join PROVE FailedInv'
  BY <1>3, <1>13 DEF Join, ThreadPC
<1>14. ASSUME NEW t \in Threads, ConnectFails(t) PROVE FailedInv'
  BY <1>14 DEF ConnectFails, FailedInv
<1>15. ASSUME NEW t \in Threads, Connect(t) PROVE FailedInv'
  BY <1>3, <1>15 DEF Connect, ThreadPC
<1>16. ASSUME NEW t \in Threads, Register(t) PROVE FailedInv'
  BY <1>3, <1>16 DEF Register, ThreadPC
<1>17. ASSUME NEW t \in Threads, Leave(t) PROVE FailedInv'
  BY <1>4, <1>17 DEF Leave, ToldInv, Starting, Delete
<1>18. ASSUME NEW t \in Threads, StopAccepting(t) PROVE FailedInv'
  BY <1>4, <1>18 DEF StopAccepting, AcceptInv, Delete
<1>19. ASSUME NEW t \in Threads, Log(t) PROVE FailedInv'
  <2>1. mpc \notin Starting \/ failed # {}
    BY <1>19 DEF Log, FailedInv, Holds
  <2>2. QED
    BY <1>4, <1>19, <2>1 DEF Log, heap
<1>20. CASE UNCHANGED vars
  BY <1>1, <1>20 DEF vars
<1>21. QED
  BY <1>5, <1>6, <1>7, <1>8, <1>9, <1>10, <1>11, <1>12, <1>13, <1>14, <1>15, <1>16, <1>17,
     <1>18, <1>19, <1>20 DEF Next, Main, Thread

LEMMA FailedInvariant == Spec => [](AcceptInv /\ FailedInv)
<1>1. Init => AcceptInv /\ FailedInv
  BY DEF Init, AcceptInv, FailedInv, Threads, Accepting, Holds
<1>2. QED
  BY <1>1, AcceptStep, FailedStep, LifecycleTypes, OwnersInvariant, PTL DEF Spec

(* THEOREM: unless an object is put behind a deleted one, the list holds   *)
(* the thread_list objects that exist, linked both ways; and that, like a  *)
(* write into a deleted one, takes a database worker that cannot connect.  *)
THEOREM ThreadListIsExactInvariant == Spec => []ThreadListIsExact
<1>1. Types /\ ListInv /\ FailedInv => ThreadListIsExact
  BY ThreadListHolds DEF FailedInv, ThreadListIsExact
<1>2. QED
  BY <1>1, LifecycleTypes, ListInvariant, FailedInvariant, PTL

---------------------------------------------------------------------------
(* The fast workers. *)

Threaded == is_MySQL_threaded /\ set["DataBase.Login"] # 0
Later    == {"slow", "game", "httpd", "bridge", "http", "input"}
FastPC   == {"made", "connect", "register", "work", "none", "gone"}

LEMMA FiniteFast ==
  ASSUME ThreadTypes
  PROVE  IsFiniteSet(FastWorkers) /\ Cardinality(FastWorkers) \in Nat
<1>1. Len(kind) \in Nat
  BY ThreadElements
<1>2. IsFiniteSet(1..Len(kind))
  BY <1>1, FS_Interval
<1>3. FastWorkers \subseteq 1..Len(kind)
  BY DEF FastWorkers, Threads
<1>4. QED
  BY <1>2, <1>3, FS_Subset, FS_CardinalityType

LEMMA FastStep == Types /\ ToldInv /\ AcceptInv /\ FastInv /\ [Next]_vars => FastInv'
<1> SUFFICES ASSUME Types, ToldInv, AcceptInv, FastInv, [Next]_vars PROVE FastInv'
  OBVIOUS
<1>1. /\ Cardinality(FastWorkers) \in Nat /\ left \in Nat /\ set["Thread.DataBase.Fast"] \in Nat
      /\ Threaded => /\ mpc = "fast" =>
                          Cardinality(FastWorkers) + left = set["Thread.DataBase.Fast"]
                     /\ mpc \in Later => Cardinality(FastWorkers) = set["Thread.DataBase.Fast"]
      /\ mpc \in Starting => \A t \in FastWorkers : tpc[t] \in FastPC
  BY FiniteFast, DefaultNames
     DEF Types, MainTypes, SettingTypes, FastInv, Threaded, Later, FastPC
<1>2. ASSUME UNCHANGED threads, mpc' \in Starting => mpc \in Starting,
             \/ mpc' \notin Later \cup {"fast"}
             \/ set' = set /\ mpc' = mpc /\ left' = left
             \/ set' = set /\ mpc' \in Later /\ mpc \in Later
      PROVE  FastInv'
  <2>1. FastWorkers' = FastWorkers /\ tpc' = tpc
    BY <1>2 DEF threads, FastWorkers, Threads
  <2>2. set' = set => Threaded' = Threaded
    BY DEF Threaded, is_MySQL_threaded
  <2>3. QED
    BY <1>1, <1>2, <2>1, <2>2 DEF FastInv, Later, FastPC, Threaded
<1>3. ASSUME NEW t \in Threads, NEW to \in ThreadPC, Goes(t, to),
             UNCHANGED <<kind, addr, mpc, left, set>>,
             mpc \in Starting /\ kind[t] = "fast" => to \in FastPC
      PROVE  FastInv'
  <2>1. Threads' = Threads /\ \A u \in Threads : tpc'[u] = IF u = t THEN to ELSE tpc[u]
    BY <1>3, ThreadGoes DEF Types
  <2>2. FastWorkers' = FastWorkers /\ Threaded' = Threaded
    BY <1>3, <2>1 DEF FastWorkers, Threaded, is_MySQL_threaded
  <2>3. mpc \in Starting => \A u \in FastWorkers : tpc'[u] \in FastPC
    BY <1>1, <1>3, <2>1 DEF FastWorkers
  <2>4. QED
    BY <1>1, <1>3, <2>2, <2>3 DEF FastInv, Later, FastPC, Threaded
<1>4. ASSUME NEW k \in Kinds, New(k), set' = set, mpc \in Starting,
             \/ k = "fast" /\ mpc = "fast" /\ mpc' = "fast" /\ left > 0 /\ left' = left - 1
             \/ k # "fast" /\ mpc \in Later /\ mpc' \in Later
      PROVE  FastInv'
  <2>1. /\ Newest' \notin Threads /\ Threads' = Threads \cup {Newest'}
        /\ \A t \in Threads : kind'[t] = kind[t] /\ tpc'[t] = tpc[t]
        /\ kind'[Newest'] = k /\ tpc'[Newest'] = "made"
    BY <1>4, NewThread DEF Types
  <2>2. FastWorkers' = IF k = "fast" THEN FastWorkers \cup {Newest'} ELSE FastWorkers
    BY <2>1 DEF FastWorkers
  <2>3. Newest' \notin FastWorkers
    BY <2>1 DEF FastWorkers
  <2>4. \A t \in FastWorkers' : tpc'[t] \in FastPC
    BY <1>1, <1>4, <2>1, <2>2 DEF FastWorkers, FastPC
  <2>5. Cardinality(FastWorkers \cup {Newest'}) = Cardinality(FastWorkers) + 1
    BY <2>3, FiniteFast, FS_AddElement DEF Types
  <2>6. Threaded' = Threaded
    BY <1>4 DEF Threaded, is_MySQL_threaded
  <2>7. CASE k = "fast"
    BY <1>1, <1>4, <2>2, <2>4, <2>5, <2>6, <2>7 DEF FastInv, Later, FastPC, Threaded
  <2>8. CASE k # "fast"
    BY <1>1, <1>4, <2>2, <2>4, <2>6, <2>8 DEF FastInv, Later, FastPC, Threaded
  <2>9. QED
    BY <2>7, <2>8
<1> USE DEF MainGoes, Quiet, NoThread, MainStays, settingsVars
<1>5. ASSUME ReadSettings PROVE FastInv'
  BY <1>2, <1>5 DEF ReadSettings, Later, Starting
<1>6. ASSUME LoadOpCodes \/ DoNotListen \/ Input PROVE FastInv'
  BY <1>2, <1>6 DEF LoadOpCodes, DoNotListen, Input, Later, Starting, After
<1>7. ASSUME intHandler \/ Crash \/ Joined \/ Detach PROVE FastInv'
  BY <1>2, <1>7 DEF intHandler, Crash, Joined, Detach
<1>8. ASSUME StopNetwork \/ EndClose \/ DeleteSharun \/ Return \/ CleanupDelete PROVE FastInv'
  BY <1>2, <1>8 DEF StopNetwork, EndClose, DeleteSharun, Return, CleanupDelete, Later, Starting
<1>9. ASSUME CleanupTest PROVE FastInv'
  BY <1>2, <1>9 DEF CleanupTest, Later, Starting
<1>10. ASSUME EndLoop PROVE FastInv'
  <2>1. /\ mpc \in {"database", "fast", "slow", "http"} /\ mpc' = After[mpc] /\ set' = set
        /\ UNCHANGED threads /\ (mpc # "database" => left = 0) /\ left' = Begin(0)
    BY <1>10 DEF EndLoop
  <2>2. CASE mpc = "database"
    <3>1. mpc' = "fast" /\ (Threaded => left' = set["Thread.DataBase.Fast"])
      BY <2>1, <2>2 DEF After, Begin, DatabaseWorkers, Threaded
    <3>2. kind = <<>>
      BY <2>2 DEF AcceptInv
    <3>3. Threads = {}
      BY <3>2, ThreadElements DEF Types
    <3>4. FastWorkers' = {} /\ Threaded' = Threaded
      BY <2>1, <3>3 DEF FastWorkers, Threads, threads, Threaded, is_MySQL_threaded
    <3>5. Cardinality(FastWorkers') = 0
      BY <3>4, FS_EmptySet
    <3>6. QED
      BY <1>1, <2>1, <3>1, <3>4, <3>5 DEF FastInv, Threaded
  <2>3. CASE mpc = "fast"
    <3>1. mpc' = "slow" /\ FastWorkers' = FastWorkers /\ tpc' = tpc /\ Threaded' = Threaded
      BY <2>1, <2>3 DEF After, FastWorkers, Threads, threads, Threaded, is_MySQL_threaded
    <3>2. QED
      BY <1>1, <2>1, <2>3, <3>1 DEF FastInv, Threaded, Starting, FastPC
  <2>4. CASE mpc \in {"slow", "http"}
    BY <1>2, <2>1, <2>4 DEF After, Later, Starting
  <2>5. QED
    BY <2>1, <2>2, <2>3, <2>4
<1>11. ASSUME MakeWorker PROVE FastInv'
  BY <1>4, <1>11 DEF MakeWorker, Kinds, Starting, Later
<1>12. ASSUME Listen, mpc # "bridge" PROVE FastInv'
  BY <1>4, <1>12 DEF Listen, Kinds, Starting, Later, After
<1>13. ASSUME Listen, mpc = "bridge" PROVE FastInv'
  BY <1>2, <1>13 DEF Listen, Starting, Later, After
<1>14. ASSUME Create PROVE FastInv'
  <2>1. Newest \in Threads /\ kind[Newest] \in Kinds
    BY <1>14, ThreadElements DEF Create, Types, MainTypes
  <2>2. /\ Begins[kind[Newest]] \in ThreadPC /\ "none" \in ThreadPC
        /\ kind[Newest] = "fast" => Begins[kind[Newest]] \in FastPC
        /\ "none" \in FastPC
    BY <2>1 DEF Begins, Kinds, ThreadPC, FastPC
  <2>3. QED
    BY <1>3, <1>14, <2>1, <2>2 DEF Create
<1>15. ASSUME Join PROVE FastInv'
  BY <1>3, <1>15 DEF Join, ThreadPC, Starting
<1>16. ASSUME NEW t \in Threads, ConnectFails(t) \/ Connect(t) \/ Register(t) PROVE FastInv'
  BY <1>3, <1>16 DEF ConnectFails, Connect, Register, ThreadPC, FastPC, Ended, Starting
<1>17. ASSUME NEW t \in Threads, Leave(t) PROVE FastInv'
  BY <1>3, <1>17 DEF Leave, ToldInv, ThreadPC, FastPC
<1>18. ASSUME NEW t \in Threads, StopAccepting(t) PROVE FastInv'
  BY <1>3, <1>18 DEF StopAccepting, AcceptInv, Accepting, ThreadPC
<1>19. ASSUME NEW t \in Threads, Log(t) PROVE FastInv'
  BY <1>3, <1>19 DEF Log, ThreadPC, FastPC
<1>20. CASE UNCHANGED vars
  BY <1>2, <1>20 DEF vars
<1>21. QED
  BY <1>5, <1>6, <1>7, <1>8, <1>9, <1>10, <1>11, <1>12, <1>13, <1>14, <1>15, <1>16, <1>17,
     <1>18, <1>19, <1>20 DEF Next, Main, Thread

(* THEOREM: whoever makes a fast query finds a worker, unless no login is  *)
(* set, or each of the fast workers failed or did not start.               *)
THEOREM QueriesHaveWorkersInvariant == Spec => []QueriesHaveWorkers
<1>1. Init => FastInv
  BY DEF Init, FastInv, FastWorkers, Threads
<1>2. Types /\ FastInv => QueriesHaveWorkers
  <2> SUFFICES ASSUME FastInv, mpc \in Later \ {"slow"}, Threaded,
                      \A t \in Threads : kind[t] = "fast" =>
                        tpc[t] \notin {"made", "connect", "register", "work"}
               PROVE  Cardinality({t \in Threads : /\ kind[t] = "fast"
                                                   /\ tpc[t] \in {"none", "gone"}}) =
                        set["Thread.DataBase.Fast"]
    BY DEF QueriesHaveWorkers, Later, Threaded
  <2>1. {t \in Threads : kind[t] = "fast" /\ tpc[t] \in {"none", "gone"}} = FastWorkers
    BY DEF FastInv, FastWorkers, Later, Starting
  <2>2. QED
    BY <2>1 DEF FastInv, Later, Threaded
<1>3. QED
  BY <1>1, <1>2, FastStep, LifecycleTypes, OwnersInvariant, FailedInvariant, PTL DEF Spec

---------------------------------------------------------------------------
(* The end. *)

LEMMA NeighboursAreThere ==
  ASSUME ListInv, ~lost, NEW o \in alive
  PROVE  ~NeighbourDeleted(o)
<1>1. PICK n \in Nat : \E s \in [1..n -> alive] : InOrder(n, s)
  BY DEF ListInv, Ordered
<1>2. PICK s \in [1..n -> alive] : InOrder(n, s)
  BY <1>1
<1>3. PICK i \in 1..n : s[i] = o
  BY <1>2 DEF InOrder
<1>4. /\ list.next[o] = IF i = n THEN NULL ELSE s[i + 1]
      /\ list.prev[o] = IF i = 1 THEN NULL ELSE s[i - 1]
  BY <1>2, <1>3 DEF InOrder
<1>5. list.next[o] \in alive \cup {NULL}
  <2>1. i # n => i + 1 \in 1..n
    OBVIOUS
  <2>2. QED
    BY <1>4, <2>1
<1>6. list.prev[o] \in alive \cup {NULL}
  <2>1. i # 1 => i - 1 \in 1..n
    OBVIOUS
  <2>2. QED
    BY <1>4, <2>1
<1>7. QED
  BY <1>5, <1>6 DEF NeighbourDeleted

(* The three writes into deleted objects need a worker that failed. *)
LEMMA ListCrashes ==
  ASSUME Types, OwnersInv, ListInv, FailedInv
  PROVE  /\ Constructing /\ LastIsDeleted => failed # {}
         /\ step = "detach" /\ addr[Newest] \notin alive => failed # {}
         /\ (\E o \in alive : NeighbourDeleted(o)) => failed # {}
<1>1. ASSUME Constructing, LastIsDeleted PROVE failed # {}
  <2>1. mpc \in Starting
    BY <1>1 DEF Constructing, Starting
  <2>2. QED
    BY <1>1, <2>1 DEF FailedInv, LastIsDeleted
<1>2. ASSUME step = "detach", addr[Newest] \notin alive PROVE failed # {}
  <2>1. Newest \in Threads /\ mpc \in Starting /\ ~Ended
    BY <1>2, ThreadElements DEF Types, MainTypes, Starting, Ended
  <2>2. QED
    BY <1>2, <2>1 DEF FailedInv, OwnersInv
<1>3. ASSUME NEW o \in alive, NeighbourDeleted(o) PROVE failed # {}
  BY <1>3, NeighboursAreThere DEF FailedInv
<1>4. QED
  BY <1>1, <1>2, <1>3

LEMMA EndStep ==
  Types /\ OwnersInv /\ Linked /\ ListInv /\ FailedInv /\ EndInv /\ [Next]_vars => EndInv'
<1> SUFFICES ASSUME Types, OwnersInv, Linked, ListInv, FailedInv, EndInv, [Next]_vars
             PROVE  EndInv'
  OBVIOUS
<1> USE DEF Ended
<1>1. ASSUME UNCHANGED <<threads, heap, behind, target>>,
             Excused', sharun' = sharun \/ Ended',
             mpc' = mpc \/ (~Ended /\ ~Ended')
      PROVE  EndInv'
  BY <1>1 DEF EndInv, threads, heap, Running, Threads
<1>2. ASSUME ~Ended', sharun' = sharun, Excused', UNCHANGED behind, ~Ended
      PROVE  EndInv'
  BY <1>2 DEF EndInv
<1>3. ASSUME NEW t \in Threads, NEW to \in ThreadPC, tpc[t] \notin {"none", "gone"}, Goes(t, to),
             UNCHANGED <<kind, addr, mpc, behind, sharun>>, Excused'
      PROVE  EndInv'
  <2>1. Threads' = Threads /\ \A u \in Threads : tpc'[u] = IF u = t THEN to ELSE tpc[u]
    BY <1>3, ThreadGoes DEF Types
  <2>2. Running' \subseteq Running
    BY <1>3, <2>1 DEF Running
  <2>3. t \in Running
    BY <1>3 DEF Running
  <2>4. Ended => behind # {}
    BY <2>3 DEF EndInv
  <2>5. QED
    BY <1>3, <2>2, <2>4 DEF EndInv
<1> USE DEF MainGoes, Quiet, NoThread, MainStays, history
<1>4. ASSUME Main \/ intHandler \/ \E t \in Threads : Thread(t), Excused' PROVE EndInv'
  <2>1. ASSUME ReadSettings \/ LoadOpCodes \/ EndLoop \/ DoNotListen \/ Input \/ StopNetwork
        PROVE  EndInv'
    BY <1>2, <1>4, <2>1 DEF ReadSettings, LoadOpCodes, EndLoop, DoNotListen, Input, StopNetwork,
                            After
  <2>2. ASSUME Detach \/ intHandler PROVE EndInv'
    BY <1>1, <1>4, <2>2 DEF Detach, intHandler
  <2>3. ASSUME Joined PROVE EndInv'
    BY <1>2, <1>4, <2>3 DEF Joined
  <2>4. ASSUME MakeWorker \/ Listen PROVE EndInv'
    BY <1>2, <1>4, <2>4 DEF MakeWorker, Listen, After
  <2>5. ASSUME Create PROVE EndInv'
    <3>1. ~Ended
      BY <2>5 DEF Create, Types, MainTypes
    <3>2. QED
      BY <1>2, <1>4, <2>5, <3>1 DEF Create
  <2>6. ASSUME Join PROVE EndInv'
    BY <1>2, <1>4, <2>6 DEF Join
  <2>7. ASSUME NEW t \in Threads, Thread(t) PROVE EndInv'
    BY <1>3, <1>4, <2>7 DEF Thread, ConnectFails, Connect, Register, Leave, StopAccepting, Log,
                            ThreadPC
  <2>8. ASSUME EndClose PROVE EndInv'
    <3>1. /\ mpc = "close" /\ mpc' = "cleanup" /\ behind' = Running /\ sharun' = sharun
          /\ Running' = Running
      BY <2>8 DEF EndClose, threads, Running, Threads
    <3>2. QED
      BY <1>4, <3>1 DEF EndInv
  <2>9. ASSUME CleanupTest PROVE EndInv'
    <3>1. /\ mpc = "cleanup" /\ mpc' = IF list.first = NULL THEN "delete" ELSE "unlink"
          /\ target' = list.first /\ behind' = behind /\ sharun' = sharun
          /\ alive' = alive /\ lost' = lost /\ Running' = Running
      BY <2>9 DEF CleanupTest, threads, heap, Running, Threads
    <3>2. list.first # NULL => list.first \in alive
      BY DEF Linked
    <3>3. list.first = NULL /\ ~lost => alive = {}
      <4>1. SUFFICES ASSUME list.first = NULL, ~lost PROVE alive = {}
        OBVIOUS
      <4>2. PICK n \in Nat : \E s \in [1..n -> alive] : InOrder(n, s)
        BY <4>1 DEF ListInv, Ordered
      <4>3. PICK s \in [1..n -> alive] : InOrder(n, s)
        BY <4>2
      <4>4. NULL \notin alive
        BY AddressesAssumption DEF Types, HeapTypes
      <4>5. n = 0
        BY <4>1, <4>3, <4>4 DEF InOrder
      <4>6. QED
        BY <4>3, <4>5 DEF InOrder
    <3>4. QED
      BY <1>4, <3>1, <3>2, <3>3 DEF EndInv
  <2>10. ASSUME CleanupDelete PROVE EndInv'
    <3>1. /\ mpc = "unlink" /\ mpc' = "cleanup" /\ behind' = behind /\ sharun' = sharun
          /\ Running' = Running
      BY <2>10 DEF CleanupDelete, threads, Running, Threads
    <3>2. QED
      BY <1>4, <3>1 DEF EndInv
  <2>11. ASSUME DeleteSharun \/ Return PROVE EndInv'
    <3>1. /\ mpc \in {"delete", "return"} /\ mpc' \in {"return", "done"} /\ behind' = behind
          /\ alive' = alive /\ lost' = lost /\ Running' = Running
      BY <2>11 DEF DeleteSharun, Return, threads, heap, Running, Threads
    <3>2. QED
      BY <1>4, <3>1 DEF EndInv
  <2>12. QED
    BY <1>4, <2>1, <2>2, <2>3, <2>4, <2>5, <2>6, <2>7, <2>8, <2>9, <2>10, <2>11 DEF Main
<1>5. ASSUME Crash PROVE EndInv'
  <2>1. ASSUME UsesDeleted PROVE behind # {}
    <3>1. CASE \E t \in Threads : /\ tpc[t] \in {"connect", "register", "late", "accept"}
                                  /\ addr[t] \notin alive
      <4>1. PICK t \in Threads : /\ tpc[t] \in {"connect", "register", "late", "accept"}
                                 /\ addr[t] \notin alive
        BY <3>1
      <4>2. Ended /\ t \in Running
        BY <4>1 DEF OwnersInv, Holds, Running
      <4>3. QED
        BY <4>2 DEF EndInv
    <3>2. CASE ~sharun /\ \E t \in Threads : tpc[t] = "log"
      BY <3>2 DEF Running, EndInv
    <3>3. CASE mpc = "unlink" /\ target \notin alive
      BY <3>3 DEF EndInv
    <3>4. QED
      BY <2>1, <3>1, <3>2, <3>3 DEF UsesDeleted
  <2>2. behind' = behind /\ failed' = failed
    BY <1>5 DEF Crash
  <2>3. Excused'
    <3>1. CASE UsesDeleted
      BY <2>1, <2>2, <3>1 DEF Excused
    <3>2. CASE \/ Constructing /\ LastIsDeleted /\ crash' = "insert"
               \/ step = "detach" /\ addr[Newest] \notin alive /\ crash' = "detach"
               \/ (\E o \in alive : NeighbourDeleted(o)) /\ crash' = "unlink"
      BY <2>2, <3>2, ListCrashes DEF Excused
    <3>3. QED
      BY <1>5, <3>1, <3>2 DEF Crash
  <2>4. QED
    BY <1>1, <1>5, <2>3 DEF Crash
<1>6. CASE UNCHANGED vars
  <2>1. Excused'
    BY <1>6 DEF vars, history, EndInv, Excused
  <2>2. QED
    BY <1>1, <1>6, <2>1 DEF vars
<1>7. ASSUME UNCHANGED crash, crash = "none" PROVE Excused'
  BY <1>7 DEF Excused
<1>8. QED
  BY <1>4, <1>5, <1>6, <1>7 DEF Next

(* THEOREM: the server ends with no registered worker left, and with every *)
(* thread_list deleted exactly once unless a thread that nobody joins is   *)
(* still there; until then a deleted object is used only by a constructor, *)
(* start or a destructor, after a database worker could not connect.       *)
THEOREM EndsCleanInvariant == Spec => []EndsClean
<1>1. Init => EndInv
  BY DEF Init, EndInv, Excused, Ended
<1>2. ToldInv /\ EndInv => EndsClean
  BY DEF ToldInv, EndInv, Excused, EndsClean
<1>3. QED
  BY <1>1, <1>2, EndStep, LifecycleTypes, OwnersInvariant, ListInvariant, FailedInvariant, PTL
     DEF Spec
=============================================================================
