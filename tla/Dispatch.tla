------------------------------ MODULE Dispatch ------------------------------
(***************************************************************************)
(* The opcode tables (OpCode.cpp), filled by main from files and then by   *)
(* the plugins (Plugins.cpp) while the game acceptor (GameD) already looks *)
(* up the packets of clients in them, and the one handler there is         *)
(* (C_LOGIN_ARBITER.cpp), which asks the database for an account.          *)
(*                                                                         *)
(* Names nobody knows (the list Unknow) are kept and never read again: a   *)
(* line with one changes nothing here.  One user logs in again and again.  *)
(***************************************************************************)
EXTENDS Integers, Sequences, SequencesExt, FiniteSetsExt

CONSTANTS
  Files,     \* how many files Dirs.OpCodes has
  Contents,  \* what a file can say: sequences of <<name, id>>
  Ids,       \* the ids of packets, fewer than the tables have places
  Plugins,   \* the plugins
  Handled,   \* for each plugin the names it has handlers for
  MaxList,   \* Max_OpCode_List
  MaxRows    \* bound: more accounts of the user are not counted

(* The names, by their numbers (those of OpCode_Enum, from 1 here), of     *)
(* which two stand for all; "login" is C_LOGIN_ARBITER.                    *)
OpCode_Gen == <<"login", "check">>
Known      == ToSet(OpCode_Gen)

ASSUME DispatchAssumption ==
  /\ Contents \subseteq Seq((Known \cup {"unknown"}) \X Ids)
  /\ Files \in Nat /\ Ids \subseteq Nat /\ Handled \in [Plugins -> Seq(Known)]
  /\ MaxRows \in Nat

VARIABLES
  unread,    \* how many files load has still to read
  list,      \* the tables
  waiting,   \* the plugins Plugin_Scan has still to load
  loaded,    \* the plugins it has loaded
  setting,   \* the plugin being loaded, the names Set_Recv has still to set
             \* for it, and the table it is at
  todo,      \* its writes into that table
  mpc,       \* where main is
  gpc,       \* where GameD is
  id,        \* packet_l->id
  at,        \* the table opcodes::Recv is at, then GID
  ready,     \* the plugins had been loaded when the packet came
  auto,      \* AutoAccount
  served,    \* some worker of the database runs
  unique,    \* the database refuses a second account of a name
  open,      \* the user's accounts that SELECT finds
  hidden,    \* those it does not: to be recovered, or blocked
  blind,     \* SELECT has failed to see an account of the user
  failing,   \* the last query failed
  fault      \* an invalid access

mainVars    == <<unread, list, waiting, loaded, setting, todo, mpc>>
lookupVars  == <<id, at, ready>>
accountVars == <<open, hidden, blind, failing>>
config      == <<auto, served, unique>>
vars == <<mainVars, gpc, lookupVars, accountVars, config, fault>>

NoId == -1

Init ==
  /\ unread = Files /\ list = <<>>
  /\ waiting = Plugins /\ loaded = {} /\ setting = <<>> /\ todo = {} /\ mpc = "load"
  /\ gpc = "idle" /\ id = NoId /\ at = 1 /\ ready = FALSE
  /\ auto \in BOOLEAN /\ served \in BOOLEAN /\ unique \in BOOLEAN
  /\ open \in {0, 1} /\ hidden \in {0, 1} /\ open + hidden < 2
  /\ blind = FALSE /\ failing = FALSE /\ fault = "none"

---------------------------------------------------------------------------
(* opcodes::load: the last line wins for an id, and for a name.            *)
Table(lines) ==
  LET Latest(P(_)) == Max({k \in DOMAIN lines : P(lines[k])} \cup {0})
  IN  [ OpName |-> [j \in Ids |->
          LET k == Latest(LAMBDA l : l[2] = j /\ l[1] \in Known)
          IN  IF k = 0 THEN "none" ELSE lines[k][1]],
        Send |-> [i \in DOMAIN OpCode_Gen |->
          LET k == Latest(LAMBDA l : l[1] = OpCode_Gen[i])
          IN  IF k = 0 THEN NoId ELSE lines[k][2]],
        Recv |-> [j \in Ids |-> "none"], detect |-> NoId ]

(* A file named .txt has no version: Set_Recv and Recv pass over its table *)
(* (:38, :70), which is then as one of a file that says nothing.  A name   *)
(* without a dot ends in strrchr's NULL (:91), one too long for version,   *)
(* or an id beyond the tables, in a write outside of them (:95, :108).     *)
LoadFile ==
  /\ mpc = "load" /\ unread > 0 /\ unread' = unread - 1
  /\ \/ UNCHANGED <<list, fault>>   \* fopen failed
     \/ /\ Len(list) < MaxList /\ UNCHANGED fault
        /\ \E lines \in Contents : list' = Append(list, Table(lines))
     \/ Len(list) = MaxList /\ fault' = "list" /\ UNCHANGED list
     \/ fault' \in {"name", "version", "id"} /\ UNCHANGED list
  /\ UNCHANGED <<waiting, loaded, setting, todo, mpc, gpc, lookupVars, accountVars, config>>

(* main goes on to the plugins, or leaves if there is no table. *)
Start ==
  /\ mpc = "load" /\ unread = 0
  /\ mpc' = IF list = <<>> THEN "exit" ELSE "scan"
  /\ UNCHANGED <<unread, list, waiting, loaded, setting, todo, gpc, lookupVars, accountVars,
                 config, fault>>

---------------------------------------------------------------------------
(* Plugin_Scan *)
LoadPlugin ==
  /\ mpc = "scan"
  /\ \E p \in waiting :
       /\ waiting' = waiting \ {p}
       /\ \/ UNCHANGED <<loaded, setting, mpc, fault>>   \* dlopen failed
          \/ /\ fault' = "symbol" /\ UNCHANGED <<loaded, setting, mpc>>
          \/ /\ loaded' = loaded \cup {p} /\ setting' = <<p, Handled[p], 1>>
             /\ mpc' = "set" /\ UNCHANGED fault
  /\ UNCHANGED <<unread, list, todo, gpc, lookupVars, accountVars, config>>

ScanDone ==
  /\ mpc = "scan" /\ waiting = {} /\ mpc' = "ready"
  /\ UNCHANGED <<unread, list, waiting, loaded, setting, todo, gpc, lookupVars, accountVars,
                 config, fault>>

(* Where a table has a name: the first id. *)
Where(i, n) ==
  LET js == {j \in Ids : list[i].OpName[j] = n} IN IF js = {} THEN NoId ELSE Min(js)

Names == setting[2]
Tab   == setting[3]

(* Set_Recv at the next table, at the next name, and at the end. *)
SetRecv ==
  /\ mpc = "set"
  /\ \/ /\ Names # <<>> /\ Tab <= Len(list) /\ Where(Tab, Head(Names)) # NoId
        /\ mpc' = "write"
        /\ todo' = IF Head(Names) = "login" THEN {"detect", "Recv"} ELSE {"Recv"}
        /\ UNCHANGED setting
     \/ /\ Names # <<>> /\ Tab <= Len(list) /\ Where(Tab, Head(Names)) = NoId
        /\ setting' = [setting EXCEPT ![3] = @ + 1] /\ UNCHANGED <<mpc, todo>>
     \/ /\ Names # <<>> /\ Tab > Len(list)
        /\ setting' = <<setting[1], Tail(Names), 1>> /\ UNCHANGED <<mpc, todo>>
     \/ /\ Names = <<>> /\ mpc' = "scan" /\ setting' = <<>> /\ UNCHANGED todo
  /\ UNCHANGED <<unread, list, waiting, loaded, gpc, lookupVars, accountVars, config, fault>>

(* Mutant: Set_Recv stops at the first table that has the name. *)
NextTabNone == Len(list) + 1

(* The table after one that has the name. *)
NextTab == Tab + 1

(* Mutant: the handler is stored under the id the name is sent with. *)
StoreAtSent(n) == list[Tab].Send[SelectInSeq(OpCode_Gen, LAMBDA m : m = n)]

StoreAt(n) == Where(Tab, n)

(* The two writes race with GameD's reads; the compiler may swap them.     *)
Write ==
  /\ mpc = "write"
  /\ \E w \in todo :
       /\ todo' = todo \ {w}
       /\ list' = IF w = "detect"
                  THEN [list EXCEPT ![Tab].detect = Where(Tab, Head(Names))]
                  ELSE [list EXCEPT ![Tab].Recv[StoreAt(Head(Names))] = Head(Names)]
  /\ IF todo' = {} THEN mpc' = "set" /\ setting' = [setting EXCEPT ![3] = NextTab]
                   ELSE UNCHANGED <<mpc, setting>>
  /\ UNCHANGED <<unread, waiting, loaded, gpc, lookupVars, accountVars, config, fault>>

---------------------------------------------------------------------------
Idle == {"idle", "ignored", "answered"}

(* GameD has read the second packet of a client and calls opcodes::Recv. *)
Packet ==
  /\ mpc \notin {"load", "exit"} /\ gpc \in Idle
  /\ id' \in Ids /\ at' = 1 /\ ready' = (mpc = "ready") /\ gpc' = "seek"
  /\ failing' = FALSE /\ UNCHANGED <<mainVars, open, hidden, blind, config, fault>>

(* Mutant: a table that does not detect the id is tried again. *)
SeekAgain ==
  /\ gpc = "seek"
  /\ \/ at > Len(list) /\ gpc' = "ignored"
     \/ at <= Len(list) /\ list[at].detect = id /\ gpc' = "call"
     \/ at <= Len(list) /\ list[at].detect # id /\ UNCHANGED gpc
  /\ UNCHANGED <<mainVars, lookupVars, accountVars, config, fault>>

(* The first table that detects the id. *)
Seek ==
  /\ gpc = "seek"
  /\ \/ at > Len(list) /\ gpc' = "ignored" /\ UNCHANGED at
     \/ at <= Len(list) /\ list[at].detect = id /\ gpc' = "call" /\ UNCHANGED at
     \/ at <= Len(list) /\ list[at].detect # id /\ at' = at + 1 /\ UNCHANGED gpc
  /\ UNCHANGED <<mainVars, id, ready, accountVars, config, fault>>

Call ==
  /\ gpc = "call"
  /\ LET handler == list[at].Recv[id]
     IN  /\ fault' = IF handler = "none" THEN "null" ELSE fault
         /\ gpc' = CASE handler = "login" -> "select" [] handler = "check" -> "answered"
                     [] OTHER -> gpc
  /\ UNCHANGED <<mainVars, lookupVars, accountVars, config>>

---------------------------------------------------------------------------
(* C_LOGIN_ARBITER_f: SELECT, which may fail.  Without a row AutoAccount   *)
(* makes an account; without that the missing row is read.  What becomes   *)
(* of a row, a player or none, nobody keeps: the handler returns NULL.     *)
Select ==
  /\ gpc = "select" /\ served
  /\ failing' \in BOOLEAN
  /\ \/ /\ open > 0 /\ ~failing' /\ gpc' = "answered" /\ UNCHANGED <<blind, fault>>
     \/ /\ open = 0 \/ failing'
        /\ blind' = (blind \/ open + hidden > 0)
        /\ IF auto THEN gpc' = "insert" /\ UNCHANGED fault
                   ELSE fault' = "row"  /\ UNCHANGED gpc
  /\ UNCHANGED <<mainVars, lookupVars, open, hidden, config>>

(* Mutant: INSERT is repeated without another look. *)
InsertMore ==
  /\ gpc = "insert" /\ gpc' \in {"insert", "select"}
  /\ failing' \in BOOLEAN
  /\ unique /\ open + hidden > 0 => failing'
  /\ open' = IF failing' THEN open ELSE Min({open + 1, MaxRows})
  /\ UNCHANGED <<mainVars, lookupVars, hidden, blind, config, fault>>

Insert ==
  /\ gpc = "insert" /\ gpc' = "select"
  /\ failing' \in BOOLEAN
  /\ unique /\ open + hidden > 0 => failing'
  /\ open' = IF failing' THEN open ELSE Min({open + 1, MaxRows})
  /\ UNCHANGED <<mainVars, lookupVars, hidden, blind, config, fault>>

(* A block ends, or a password has been recovered. *)
Unhide ==
  /\ hidden = 1 /\ hidden' = 0 /\ open' = Min({open + 1, MaxRows})
  /\ UNCHANGED <<mainVars, gpc, lookupVars, blind, failing, config, fault>>

---------------------------------------------------------------------------
MainStep == LoadFile \/ Start \/ LoadPlugin \/ ScanDone \/ SetRecv \/ Write
GameStep == Seek \/ Call \/ Select \/ Insert

Next == fault = "none" /\ (MainStep \/ Packet \/ GameStep \/ Unhide)

Spec     == Init /\ [][Next]_vars
FairSpec == Spec /\ WF_vars(fault = "none" /\ MainStep) /\ WF_vars(fault = "none" /\ GameStep)

---------------------------------------------------------------------------
(* The null handler is called only while a plugin is being loaded, in the  *)
(* moment between the two writes of Set_Recv; a packet that comes after    *)
(* the plugins never meets it.                                             *)
NullOnlyBetweenWrites ==
  fault = "null" => ~ready /\ mpc = "write" /\ todo = {"Recv"} /\ Tab = at

(* A packet that comes after the plugins is looked up as the files say:    *)
(* the first table that has "login" under its id gets it, and it is        *)
(* ignored only if none has.                                               *)
DispatchIsExact ==
  ready /\ (\E p \in loaded : "login" \in ToSet(Handled[p])) =>
    LET tabs == {i \in DOMAIN list : Where(i, "login") = id}
    IN  /\ gpc = "ignored" => tabs = {}
        /\ gpc \in {"call", "select", "insert"} => at = Min(tabs)

(* AutoAccount makes an account only for a user who has none, unless a     *)
(* SELECT that failed, or did not see a hidden account, told otherwise and *)
(* the database takes a second account of a name.                          *)
AccountOnlyForNewName == open + hidden > 1 => blind /\ ~unique /\ auto

(* GameD gets every packet done and goes on to the next client, unless     *)
(* nobody serves the database, its queries fail again and again (as does   *)
(* an INSERT for a name with a hidden account), or it crashes.             *)
PacketEnds == []<>(gpc \in Idle) \/ <>(fault # "none") \/ ~served \/ []<>failing
=============================================================================
