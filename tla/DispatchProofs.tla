--------------------------- MODULE DispatchProofs ---------------------------
(***************************************************************************)
(* Proofs about the opcode tables and the lookup of packets in them, for   *)
(* any number of files, plugins and ids.                                   *)
(*                                                                         *)
(* A table detects the id of the login packet or nothing (DetectInv), and  *)
(* the handler is there whenever it does, except between the two writes of *)
(* Set_Recv (RecvInv).  A plugin that handles the login packet leaves no   *)
(* table behind that does not detect it: Set_Recv has still to come to the *)
(* name, or to the table (SettingInv, LoadedInv).  A packet that comes     *)
(* afterwards has passed only tables that do not detect it (LookupInv).    *)
(***************************************************************************)
EXTENDS Dispatch, WellFoundedInduction, NaturalsInduction, TLAPS

(* A set of naturals has a least element. *)
Less == OpToRel(<, Nat)

LEMMA MinIsLeast ==
  ASSUME NEW S, S \subseteq Nat, S # {}
  PROVE  Min(S) \in S /\ \A y \in S : Min(S) <= y
<1>1. \A x, y \in Nat : <<x, y>> \in Less <=> x < y
  BY DEF Less, OpToRel
<1>2. PICK x \in S : \A y \in S : ~(<<y, x>> \in Less)
  <2>1. IsWellFoundedOn(Less, Nat)
    BY NatLessThanWellFounded DEF Less
  <2>2. QED
    BY <2>1, WFMin
<1>3. ASSUME NEW y \in S PROVE x <= y
  <2>1. x \in Nat /\ y \in Nat
    OBVIOUS
  <2>2. ~(y < x)
    BY <1>1, <1>2, <2>1
  <2>3. QED
    BY <2>1, <2>2
<1>4. QED
  BY <1>3 DEF Min

LEMMA WhereIsAnId ==
  ASSUME NEW i, NEW n
  PROVE  Where(i, n) \in Ids \cup {NoId}
<1>1. Ids \subseteq Nat
  BY DispatchAssumption
<1>2. QED
  BY <1>1, MinIsLeast DEF Where

LEMMA Numbers ==
  /\ Ids \subseteq Nat /\ NoId \notin Ids
  /\ DOMAIN OpCode_Gen = {1, 2} /\ Known = {"login", "check"}
<1>1. Ids \subseteq Nat /\ NoId \notin Ids
  BY DispatchAssumption DEF NoId
<1>2. DOMAIN OpCode_Gen = {1, 2}
  BY DEF OpCode_Gen
<1>3. Known = {"login", "check"}
  BY <1>2 DEF Known, ToSet, OpCode_Gen
<1>4. QED
  BY <1>1, <1>2, <1>3

(* What a table is. *)
Tables == [OpName : {Table(lines).OpName : lines \in Contents},
           Send : {Table(lines).Send : lines \in Contents},
           Recv : [Ids -> Known \cup {"none"}], detect : Ids \cup {NoId}]

LEMMA TableIsTable ==
  ASSUME NEW lines \in Contents
  PROVE  /\ Table(lines) \in Tables
         /\ Table(lines).detect = NoId
BY DEF Table, Tables

(* The tables and what main is at, and what GameD is at. *)
MainTypes ==
  /\ list \in Seq(Tables) /\ loaded \subseteq Plugins /\ waiting \subseteq Plugins
  /\ mpc \in {"load", "scan", "set", "write", "ready", "exit"}
  /\ mpc \in {"set", "write"} =>
       setting = <<setting[1], Names, Tab>> /\ Names \in Seq(Known) /\ Tab \in Nat \ {0}
  /\ mpc \in {"load", "exit"} => loaded = {}
  /\ mpc = "write" =>
       /\ Names # <<>> /\ Tab \in 1..Len(list) /\ Where(Tab, Head(Names)) # NoId
       /\ todo \in {{"detect", "Recv"}, {"detect"}, {"Recv"}}
       /\ "detect" \in todo => Head(Names) = "login"
GameTypes ==
  /\ id \in Ids \cup {NoId} /\ at \in Nat \ {0} /\ (gpc # "idle" => id \in Ids)
  /\ mpc \in {"load", "exit"} => gpc = "idle"
  /\ ready => mpc = "ready"
Types == MainTypes /\ GameTypes

(* Whether a table detects the login packet. *)
Detects(i) == list[i].detect = Where(i, "login")

DetectInv ==
  /\ \A i \in 1..Len(list) : list[i].detect = NoId \/ Detects(i)
  /\ mpc = "write" /\ Head(Names) = "login" /\ "detect" \notin todo => Detects(Tab)

(* Where a table detects the login packet it has the handler. *)
RecvInv ==
  /\ \A i \in 1..Len(list) : list[i].detect # NoId =>
       \/ list[i].Recv[list[i].detect] # "none"
       \/ mpc = "write" /\ todo = {"Recv"} /\ Tab = i /\ Head(Names) = "login"
  /\ mpc = "write" /\ Head(Names) = "login" /\ "Recv" \notin todo =>
       list[Tab].Recv[Where(Tab, "login")] # "none"

(* The tables Set_Recv has passed detect the packet, *)
SettingInv ==
  mpc \in {"set", "write"} /\ Names # <<>> /\ Head(Names) = "login" =>
    \A i \in 1..Len(list) : i < Tab => Detects(i)

(* and when a plugin with a handler for it is loaded all of them do.       *)
LoginLoaded == \E p \in loaded : "login" \in ToSet(Handled[p])
LoadedInv ==
  LoginLoaded =>
    \/ \A i \in 1..Len(list) : Detects(i)
    \/ mpc \in {"set", "write"} /\ "login" \in ToSet(Names)

MainInv == DetectInv /\ RecvInv /\ SettingInv /\ LoadedInv

(* The tables the packet has passed do not detect it. *)
LookupInv ==
  /\ gpc \in {"call", "select", "insert"} => at \in 1..Len(list) /\ list[at].detect = id
  /\ ready /\ gpc \in {"seek", "call", "select", "insert"} =>
       \A i \in 1..Len(list) : i < at => list[i].detect # id
  /\ ready /\ gpc = "ignored" => \A i \in 1..Len(list) : list[i].detect # id

(* What a write of Set_Recv changes. *)
LEMMA WriteIsLocal ==
  ASSUME MainTypes, Write
  PROVE  /\ list' \in Seq(Tables) /\ Len(list') = Len(list) /\ Tab \in 1..Len(list)
         /\ \A i \in 1..Len(list) :
              /\ \A n : Where(i, n)' = Where(i, n)
              /\ i # Tab => list'[i] = list[i]
              /\ \A j \in Ids : list[i].Recv[j] # "none" => list'[i].Recv[j] # "none"
         /\ \/ /\ "detect" \in todo /\ todo' = todo \ {"detect"}
               /\ list'[Tab].detect = Where(Tab, "login")
               /\ list'[Tab].Recv = list[Tab].Recv
            \/ /\ "Recv" \in todo /\ todo' = todo \ {"Recv"}
               /\ list'[Tab].detect = list[Tab].detect
               /\ list'[Tab].Recv[Where(Tab, Head(Names))] # "none"
<1> USE Numbers
<1> DEFINE k == Tab
           h == Head(Names)
           d == Where(k, h)
<1>1. /\ mpc = "write" /\ list \in Seq(Tables) /\ k \in 1..Len(list) /\ d \in Ids /\ h \in Known
      /\ "detect" \in todo => h = "login"
  <2>1. d \in Ids
    BY WhereIsAnId DEF MainTypes, Write
  <2>2. QED
    BY <2>1 DEF MainTypes, Write
<1>2. PICK w \in todo :
        /\ todo' = todo \ {w}
        /\ list' = IF w = "detect"
                   THEN [list EXCEPT ![k].detect = Where(k, h)]
                   ELSE [list EXCEPT ![k].Recv[StoreAt(h)] = h]
  BY DEF Write
<1>3. w \in {"detect", "Recv"}
  BY <1>1 DEF MainTypes
<1>4. StoreAt(h) = d
  BY DEF StoreAt
<1> HIDE DEF k, h, d
<1>5. list[k] \in Tables
  BY <1>1
<1>6. CASE w = "detect"
  <2> DEFINE r == [list[k] EXCEPT !.detect = d]
  <2>1. list' = [list EXCEPT ![k] = r]
    BY <1>1, <1>2, <1>6 DEF d
  <2>2. r \in Tables /\ r.detect = d /\ r.Recv = list[k].Recv /\ r.OpName = list[k].OpName
    BY <1>1, <1>5 DEF Tables
  <2> HIDE DEF r
  <2>3. /\ list' \in Seq(Tables) /\ Len(list') = Len(list) /\ list'[k] = r
        /\ \A i \in 1..Len(list) : i # k => list'[i] = list[i]
    BY <1>1, <2>1, <2>2
  <2>4. \A i \in 1..Len(list) : list'[i].OpName = list[i].OpName
    BY <2>2, <2>3
  <2>5. ASSUME NEW i \in 1..Len(list), NEW n PROVE Where(i, n)' = Where(i, n)
    BY <2>4 DEF Where
  <2>6. d = Where(Tab, "login")
    BY <1>1, <1>2, <1>6 DEF k, h, d
  <2>7. QED
    BY <1>1, <1>2, <1>6, <2>2, <2>3, <2>5, <2>6 DEF k
<1>7. CASE w = "Recv"
  <2> DEFINE r == [list[k] EXCEPT !.Recv = [list[k].Recv EXCEPT ![d] = h]]
  <2>1. list' = [list EXCEPT ![k] = r]
    BY <1>1, <1>2, <1>4, <1>7
  <2>2. /\ r \in Tables /\ r.detect = list[k].detect /\ r.OpName = list[k].OpName
        /\ r.Recv = [list[k].Recv EXCEPT ![d] = h]
        /\ list[k].Recv \in [Ids -> Known \cup {"none"}]
    BY <1>1, <1>5 DEF Tables
  <2> HIDE DEF r
  <2>3. /\ list' \in Seq(Tables) /\ Len(list') = Len(list) /\ list'[k] = r
        /\ \A i \in 1..Len(list) : i # k => list'[i] = list[i]
    BY <1>1, <2>1, <2>2
  <2>4. \A i \in 1..Len(list) : list'[i].OpName = list[i].OpName
    BY <2>2, <2>3
  <2>5. ASSUME NEW i \in 1..Len(list), NEW n PROVE Where(i, n)' = Where(i, n)
    BY <2>4 DEF Where
  <2>6. r.Recv[d] # "none" /\ \A j \in Ids : list[k].Recv[j] # "none" => r.Recv[j] # "none"
    BY <1>1, <2>2
  <2>7. d = Where(Tab, Head(Names))
    BY DEF k, h, d
  <2>8. QED
    BY <1>1, <1>2, <1>7, <2>2, <2>3, <2>5, <2>6, <2>7 DEF k
<1>8. QED
  BY <1>3, <1>6, <1>7

LEMMA SameTables ==
  ASSUME list' = list
  PROVE  /\ \A i, n : Where(i, n)' = Where(i, n)
         /\ \A i : Detects(i)' <=> Detects(i)
<1>1. \A i, n : Where(i, n)' = Where(i, n)
  BY DEF Where
<1>2. QED
  BY <1>1 DEF Detects

(* GameD leaves everything of main alone. *)
LEMMA GameLeavesMain ==
  ASSUME UNCHANGED mainVars
  PROVE  /\ MainTypes => MainTypes'
         /\ MainInv => MainInv'
<1> USE SameTables DEF mainVars
<1>1. Names' = Names /\ Tab' = Tab
  BY DEF Names, Tab
<1>2. MainTypes => MainTypes'
  BY <1>1 DEF MainTypes
<1>3. DetectInv => DetectInv'
  BY <1>1 DEF DetectInv
<1>4. RecvInv => RecvInv'
  BY <1>1 DEF RecvInv
<1>5. SettingInv => SettingInv'
  BY <1>1 DEF SettingInv
<1>6. LoadedInv => LoadedInv'
  BY <1>1 DEF LoadedInv, LoginLoaded
<1>7. QED
  BY <1>2, <1>3, <1>4, <1>5, <1>6 DEF MainInv

LEMMA InitTypes == Init => Types /\ MainInv /\ LookupInv
BY Numbers
   DEF Init, Types, MainTypes, GameTypes, MainInv, DetectInv, RecvInv, SettingInv, LoadedInv,
       LoginLoaded, LookupInv

---------------------------------------------------------------------------
(* The steps of Set_Recv between its writes. *)
SetWrite ==
  /\ Names # <<>> /\ Tab <= Len(list) /\ Where(Tab, Head(Names)) # NoId /\ mpc' = "write"
  /\ todo' = IF Head(Names) = "login" THEN {"detect", "Recv"} ELSE {"Recv"}
  /\ UNCHANGED setting
SetNextTable ==
  /\ Names # <<>> /\ Tab <= Len(list) /\ Where(Tab, Head(Names)) = NoId /\ mpc' = "set"
  /\ Names' = Names /\ Tab' = Tab + 1 /\ setting' = <<setting'[1], Names', Tab'>>
SetNextName ==
  /\ Names # <<>> /\ Tab > Len(list) /\ mpc' = "set"
  /\ Names' = Tail(Names) /\ Tab' = 1 /\ setting' = <<setting'[1], Names', Tab'>>
SetDone == Names = <<>> /\ mpc' = "scan"

LEMMA SetRecvSteps ==
  ASSUME MainTypes, SetRecv
  PROVE  /\ mpc = "set" /\ UNCHANGED <<list, loaded, waiting>>
         /\ SetWrite \/ SetNextTable \/ SetNextName \/ SetDone
<1>1. mpc = "set" /\ UNCHANGED <<list, loaded, waiting>>
  BY DEF SetRecv
<1>2. setting = <<setting[1], Names, Tab>>
  BY <1>1 DEF MainTypes
<1>3. \/ SetWrite
      \/ /\ Names # <<>> /\ Tab <= Len(list) /\ Where(Tab, Head(Names)) = NoId
         /\ setting' = [setting EXCEPT ![3] = @ + 1] /\ mpc' = mpc
      \/ /\ Names # <<>> /\ Tab > Len(list)
         /\ setting' = <<setting[1], Tail(Names), 1>> /\ mpc' = mpc
      \/ SetDone
  BY Zenon DEF SetRecv, SetWrite, SetDone
<1>4. ASSUME setting' = [setting EXCEPT ![3] = @ + 1]
      PROVE  setting' = <<setting[1], Names, Tab + 1>>
  BY <1>2, <1>4 DEF Tab
<1>5. ASSUME NEW names, NEW k, setting' = <<setting[1], names, k>>
      PROVE  Names' = names /\ Tab' = k /\ setting' = <<setting'[1], Names', Tab'>>
  BY <1>5 DEF Names, Tab
<1>6. QED
  BY <1>1, <1>3, <1>4, <1>5, Zenon DEF SetNextTable, SetNextName

(* The end of a write. *)
LEMMA WriteEnds ==
  ASSUME MainTypes, Write
  PROVE  /\ mpc = "write" /\ UNCHANGED <<loaded, waiting>> /\ Names' = Names
         /\ todo' = {} => mpc' = "set" /\ Tab' = Tab + 1
         /\ todo' # {} => mpc' = "write" /\ Tab' = Tab
         /\ setting' = <<setting'[1], Names', Tab'>>
<1>1. mpc = "write" /\ UNCHANGED <<loaded, waiting>>
  BY DEF Write
<1>2. setting = <<setting[1], Names, Tab>>
  BY <1>1 DEF MainTypes
<1>3. \/ todo' = {} /\ mpc' = "set" /\ setting' = [setting EXCEPT ![3] = Tab + 1]
      \/ todo' # {} /\ mpc' = "write" /\ setting' = setting
  BY <1>1 DEF Write, NextTab
<1>4. \/ todo' = {} /\ mpc' = "set" /\ setting' = <<setting[1], Names, Tab + 1>>
      \/ todo' # {} /\ mpc' = "write" /\ setting' = setting
  BY <1>2, <1>3
<1>5. QED
  BY <1>1, <1>2, <1>4 DEF Names, Tab

LEMMA MainTypesStep ==
  ASSUME MainTypes, MainStep PROVE MainTypes'
<1> USE Numbers
<1>1. CASE LoadFile
  <2>1. \A lines \in Contents : Append(list, Table(lines)) \in Seq(Tables)
    BY TableIsTable DEF MainTypes
  <2>2. list' \in Seq(Tables) /\ mpc = "load" /\ UNCHANGED <<mpc, loaded, waiting>>
    BY <1>1, <2>1 DEF LoadFile, MainTypes
  <2>3. QED
    BY <2>2 DEF MainTypes
<1>2. CASE Start
  BY <1>2 DEF Start, MainTypes
<1>3. CASE LoadPlugin
  <2>1. PICK p \in waiting :
          /\ waiting' = waiting \ {p}
          /\ \/ loaded' = loaded /\ setting' = setting /\ mpc' = mpc
             \/ loaded' = loaded \cup {p} /\ setting' = <<p, Handled[p], 1>> /\ mpc' = "set"
    BY <1>3 DEF LoadPlugin
  <2>2. Handled[p] \in Seq(Known)
    BY DispatchAssumption DEF MainTypes
  <2>3. mpc = "scan" /\ UNCHANGED list
    BY <1>3 DEF LoadPlugin
  <2>4. QED
    BY <2>1, <2>2, <2>3 DEF MainTypes, Names, Tab
<1>4. CASE ScanDone
  BY <1>4 DEF ScanDone, MainTypes
<1>5. CASE SetRecv
  <2>1. mpc = "set" /\ UNCHANGED <<list, loaded, waiting>>
    BY <1>5, SetRecvSteps
  <2>2. CASE SetWrite
    <3>1. Names' = Names /\ Tab' = Tab
      BY <2>2 DEF SetWrite, Names, Tab
    <3>2. Tab \in 1..Len(list)
      BY <2>1, <2>2 DEF SetWrite, MainTypes
    <3>3. QED
      BY <2>1, <2>2, <3>1, <3>2, SameTables DEF SetWrite, MainTypes
  <2>3. CASE SetNextTable
    BY <2>1, <2>3 DEF SetNextTable, MainTypes
  <2>4. CASE SetNextName
    BY <2>1, <2>4 DEF SetNextName, MainTypes
  <2>5. CASE SetDone
    BY <2>1, <2>5 DEF SetDone, MainTypes
  <2>6. QED
    BY <1>5, <2>2, <2>3, <2>4, <2>5, SetRecvSteps
<1>6. CASE Write
  <2>1. mpc = "write"
    BY <1>6, WriteEnds
  <2>2. /\ list' \in Seq(Tables) /\ Len(list') = Len(list) /\ Tab \in 1..Len(list)
        /\ \A i \in 1..Len(list) : \A n : Where(i, n)' = Where(i, n)
    BY <1>6, WriteIsLocal
  <2>3. todo' \in {{}, {"detect"}, {"Recv"}} /\ todo' \subseteq todo
    BY <1>6, <2>1, WriteIsLocal DEF MainTypes
  <2>4. QED
    BY <1>6, <2>1, <2>2, <2>3, WriteEnds DEF MainTypes
<1>7. QED
  BY <1>1, <1>2, <1>3, <1>4, <1>5, <1>6 DEF MainStep

LEMMA ToSetFacts ==
  ASSUME NEW s \in Seq(Known)
  PROVE  /\ ToSet(s) = {s[i] : i \in 1..Len(s)}
         /\ s = <<>> => ToSet(s) = {}
         /\ s # <<>> => \A x \in ToSet(s) : x = Head(s) \/ x \in ToSet(Tail(s))
<1>1. ToSet(s) = {s[i] : i \in 1..Len(s)}
  BY DEF ToSet
<1>2. ASSUME s # <<>>, NEW i \in 1..Len(s)
      PROVE  s[i] = Head(s) \/ s[i] \in ToSet(Tail(s))
  <2>1. CASE i = 1
    BY <1>2, <2>1
  <2>2. CASE i # 1
    <3> DEFINE r == Tail(s)
    <3>1. r \in Seq(Known) /\ i - 1 \in 1..Len(r) /\ r[i - 1] = s[i]
      BY <1>2, <2>2
    <3> HIDE DEF r
    <3>2. s[i] \in ToSet(r)
      BY <3>1 DEF ToSet
    <3>3. QED
      BY <3>2 DEF r
  <2>3. QED
    BY <2>1, <2>2
<1>3. QED
  BY <1>1, <1>2

LEMMA WriteKeepsMain ==
  ASSUME MainTypes, MainInv, Write PROVE MainInv'
<1> USE Numbers
<1> DEFINE h == Head(Names)
           k == Tab
<1>1. /\ mpc = "write" /\ UNCHANGED loaded /\ Names' = Names
      /\ \/ todo' = {} /\ mpc' = "set" /\ Tab' = k + 1
         \/ todo' # {} /\ mpc' = "write" /\ Tab' = k
      /\ todo \in {{"detect", "Recv"}, {"detect"}, {"Recv"}}
      /\ "detect" \in todo => h = "login"
      /\ k \in Nat
  BY WriteEnds DEF MainTypes
<1>2. /\ Len(list') = Len(list) /\ k \in 1..Len(list)
      /\ \A i \in 1..Len(list) :
           /\ \A n : Where(i, n)' = Where(i, n)
           /\ i # k => list'[i] = list[i]
           /\ \A j \in Ids : list[i].Recv[j] # "none" => list'[i].Recv[j] # "none"
  BY WriteIsLocal
<1>3. \/ /\ "detect" \in todo /\ todo' = todo \ {"detect"}
         /\ list'[k].detect = Where(k, "login") /\ list'[k].Recv = list[k].Recv
      \/ /\ "Recv" \in todo /\ todo' = todo \ {"Recv"}
         /\ list'[k].detect = list[k].detect /\ list'[k].Recv[Where(k, h)] # "none"
  BY WriteIsLocal
<1>4. \A i \in 1..Len(list) : Detects(i) => list'[i].detect = Where(i, "login")
  BY <1>2, <1>3 DEF Detects
<1>5. \A i \in 1..Len(list) : Detects(i)' <=> list'[i].detect = Where(i, "login")
  BY <1>2 DEF Detects
<1>6. Head(Names') = h
  BY <1>1
<1> HIDE DEF h, k
<1>7. \A i \in 1..Len(list) : i = k =>
        (h = "login" /\ "detect" \notin todo' => list'[i].detect = Where(i, "login"))
  BY <1>1, <1>3, <1>4 DEF MainInv, DetectInv, h, k
<1>8. DetectInv'
  <2>1. \A i \in 1..Len(list) : list'[i].detect = NoId \/ list'[i].detect = Where(i, "login")
    BY <1>2, <1>3, <1>4 DEF MainInv, DetectInv
  <2>2. mpc' = "write" /\ Head(Names') = "login" /\ "detect" \notin todo' => Detects(Tab)'
    BY <1>1, <1>2, <1>5, <1>6, <1>7
  <2>3. QED
    BY <1>2, <1>5, <2>1, <2>2 DEF DetectInv
<1>9. RecvInv'
  <2>1. \A i \in 1..Len(list) : list[i].detect \in Ids \cup {NoId}
    <3>1. \A i \in 1..Len(list) : list[i] \in Tables
      BY DEF MainTypes
    <3>2. QED
      BY <3>1 DEF Tables
  <2>2. ASSUME NEW i \in 1..Len(list), i # k, list'[i].detect # NoId
        PROVE  list'[i].Recv[list'[i].detect] # "none"
    BY <1>2, <2>2 DEF MainInv, RecvInv, k
  <2>3. ASSUME list'[k].detect # NoId
        PROVE  list'[k].Recv[list'[k].detect] # "none" \/ (todo' = {"Recv"} /\ h = "login")
    <3>1. CASE "detect" \in todo /\ todo' = todo \ {"detect"} /\ "Recv" \in todo
      BY <1>1, <3>1
    <3>2. CASE "detect" \in todo /\ todo' = todo \ {"detect"} /\ "Recv" \notin todo
      BY <1>1, <1>3, <3>2 DEF MainInv, RecvInv, h, k
    <3>3. CASE /\ "Recv" \in todo /\ todo' = todo \ {"Recv"}
               /\ list'[k].detect = list[k].detect /\ list'[k].Recv[Where(k, h)] # "none"
      <4>1. CASE list[k].Recv[list[k].detect] # "none"
        BY <1>2, <2>1, <2>3, <3>3, <4>1
      <4>2. CASE h = "login"
        <5>1. list[k].detect = Where(k, "login")
          BY <1>2, <2>3, <3>3 DEF MainInv, DetectInv, Detects
        <5>2. QED
          BY <3>3, <4>2, <5>1
      <4>3. QED
        BY <1>2, <2>3, <3>3, <4>1, <4>2 DEF MainInv, RecvInv, h
    <3>4. QED
      BY <1>3, <3>1, <3>2, <3>3
  <2>4. h = "login" /\ "Recv" \notin todo' => list'[k].Recv[Where(k, "login")] # "none"
    BY <1>1, <1>3 DEF MainInv, RecvInv, h, k
  <2>5. todo' # {} => mpc' = "write" /\ Tab' = k
    BY <1>1
  <2>6. mpc' = "write" => Tab' = k /\ Where(Tab, "login")' = Where(k, "login")
    BY <1>1, <1>2
  <2>7. QED
    BY <1>2, <1>6, <2>2, <2>3, <2>4, <2>5, <2>6 DEF RecvInv
<1>10. SettingInv'
  <2>1. ASSUME h = "login", NEW i \in 1..Len(list), i < Tab'
        PROVE  list'[i].detect = Where(i, "login")
    <3>1. CASE i < k
      BY <1>1, <1>4, <2>1, <3>1 DEF MainInv, SettingInv, MainTypes, h, k
    <3>2. CASE ~(i < k)
      <4>1. i = k /\ todo' = {}
        BY <1>1, <2>1, <3>2
      <4>2. QED
        BY <1>7, <2>1, <4>1
    <3>3. QED
      BY <3>1, <3>2
  <2>2. QED
    BY <1>2, <1>5, <1>6, <2>1 DEF SettingInv
<1>11. LoadedInv'
  BY <1>1, <1>2, <1>4, <1>5 DEF MainInv, LoadedInv, LoginLoaded
<1>12. QED
  BY <1>8, <1>9, <1>10, <1>11 DEF MainInv

LEMMA SetRecvKeepsMain ==
  ASSUME MainTypes, MainInv, SetRecv PROVE MainInv'
<1>1. mpc = "set" /\ UNCHANGED <<list, loaded>> /\ Names \in Seq(Known) /\ Tab \in Nat
  BY SetRecvSteps DEF MainTypes
<1>2. \A i : (Detects(i)' <=> Detects(i)) /\ \A n : Where(i, n)' = Where(i, n)
  BY <1>1, SameTables
<1>3. \A i \in 1..Len(list) : list[i].detect # NoId => list[i].Recv[list[i].detect] # "none"
  BY <1>1 DEF MainInv, RecvInv
<1>4. \A i \in 1..Len(list) : list[i].detect = NoId \/ Detects(i)
  BY DEF MainInv, DetectInv
<1>5. LoginLoaded' <=> LoginLoaded
  BY <1>1 DEF LoginLoaded
<1>6. CASE SetWrite
  <2>1. Names' = Names /\ Tab' = Tab
    BY <1>6 DEF SetWrite, Names, Tab
  <2>2. mpc' = "write" /\ (Head(Names) = "login" => todo' = {"detect", "Recv"})
    BY <1>6 DEF SetWrite
  <2>3. DetectInv'
    BY <1>1, <1>2, <1>4, <2>1, <2>2 DEF DetectInv
  <2>4. RecvInv'
    BY <1>1, <1>3, <2>1, <2>2 DEF RecvInv
  <2>5. SettingInv' /\ LoadedInv'
    BY <1>1, <1>2, <1>5, <2>1, <2>2 DEF MainInv, SettingInv, LoadedInv
  <2>6. QED
    BY <2>3, <2>4, <2>5 DEF MainInv
<1>7. ASSUME mpc' \in {"set", "scan"} PROVE DetectInv' /\ RecvInv'
  BY <1>1, <1>2, <1>3, <1>4, <1>7 DEF DetectInv, RecvInv
<1>8. CASE SetNextTable
  <2>1. Names' = Names /\ Tab' = Tab + 1 /\ mpc' = "set" /\ Where(Tab, Head(Names)) = NoId
    BY <1>8 DEF SetNextTable
  <2>2. ASSUME Names # <<>>, Head(Names) = "login", NEW i \in 1..Len(list), i < Tab + 1
        PROVE  Detects(i)
    <3>1. CASE i = Tab
      BY <1>4, <2>1, <2>2, <3>1 DEF Detects
    <3>2. CASE i # Tab
      <4>1. i < Tab
        BY <1>1, <2>2, <3>2
      <4>2. QED
        BY <1>1, <2>2, <4>1 DEF MainInv, SettingInv
    <3>3. QED
      BY <3>1, <3>2
  <2>3. SettingInv' /\ LoadedInv'
    BY <1>1, <1>2, <1>5, <2>1, <2>2 DEF MainInv, SettingInv, LoadedInv
  <2>4. QED
    BY <1>7, <2>1, <2>3 DEF MainInv
<1>9. CASE SetNextName
  <2>1. /\ Names # <<>> /\ Tab > Len(list) /\ Names' = Tail(Names) /\ Tab' = 1 /\ mpc' = "set"
        /\ Len(list) \in Nat
    BY <1>9 DEF SetNextName, MainTypes
  <2>2. SettingInv'
    BY <1>1, <2>1 DEF SettingInv
  <2>3. Head(Names) = "login" => \A i \in 1..Len(list) : Detects(i)
    <3>1. \A i \in 1..Len(list) : i < Tab
      BY <1>1, <2>1
    <3>2. QED
      BY <1>1, <2>1, <3>1 DEF MainInv, SettingInv
  <2>4. "login" \in ToSet(Names) => Head(Names) = "login" \/ "login" \in ToSet(Names')
    BY <1>1, <2>1, ToSetFacts
  <2>5. LoadedInv'
    <3>1. LoginLoaded => (\A i \in 1..Len(list) : Detects(i)) \/ "login" \in ToSet(Names')
      BY <2>3, <2>4 DEF MainInv, LoadedInv
    <3>2. ToSet(Names)' = ToSet(Names')
      OBVIOUS
    <3>3. QED
      BY <1>1, <1>2, <1>5, <2>1, <3>1, <3>2 DEF LoadedInv
  <2>6. QED
    BY <1>7, <2>1, <2>2, <2>5 DEF MainInv
<1>10. CASE SetDone
  <2>1. mpc' = "scan" /\ ToSet(Names) = {}
    BY <1>1, <1>10, ToSetFacts DEF SetDone
  <2>2. SettingInv' /\ LoadedInv'
    BY <1>1, <1>2, <1>5, <2>1 DEF MainInv, SettingInv, LoadedInv
  <2>3. QED
    BY <1>7, <2>1, <2>2 DEF MainInv
<1>11. QED
  BY <1>6, <1>8, <1>9, <1>10, SetRecvSteps

LEMMA MainInvStep ==
  ASSUME MainTypes, MainInv, MainStep PROVE MainInv'
<1>1. CASE LoadFile
  <2>1. mpc = "load" /\ mpc' = "load" /\ loaded' = {}
    BY <1>1 DEF LoadFile, MainTypes
  <2>2. ASSUME NEW i \in 1..Len(list')
        PROVE  (i \in 1..Len(list) /\ list'[i] = list[i]) \/ list'[i].detect = NoId
    <3>1. list \in Seq(Tables) /\ \A lines \in Contents : Table(lines) \in Tables
      BY TableIsTable DEF MainTypes
    <3>2. CASE list' = list
      BY <3>2
    <3>3. ASSUME NEW lines \in Contents, list' = Append(list, Table(lines))
          PROVE  (i \in 1..Len(list) /\ list'[i] = list[i]) \/ list'[i].detect = NoId
      <4> DEFINE r == Table(lines)
      <4>1. r.detect = NoId /\ r \in Tables /\ list' = Append(list, r)
        BY <3>3, TableIsTable
      <4> HIDE DEF r
      <4>2. QED
        BY <3>1, <4>1
    <3>4. QED
      BY <1>1, <3>2, <3>3 DEF LoadFile
  <2>3. \A i : list'[i] = list[i] => (Detects(i)' <=> Detects(i))
    BY DEF Detects, Where
  <2>4. DetectInv'
    BY <2>1, <2>2, <2>3 DEF MainInv, DetectInv
  <2>5. RecvInv'
    BY <2>1, <2>2 DEF MainInv, RecvInv
  <2>6. SettingInv' /\ LoadedInv'
    BY <2>1 DEF SettingInv, LoadedInv, LoginLoaded
  <2>7. QED
    BY <2>4, <2>5, <2>6 DEF MainInv
<1>2. ASSUME mpc \in {"load", "scan"}, mpc' \notin {"write", "set"}, UNCHANGED <<list, loaded>>
      PROVE  MainInv'
  <2>1. DetectInv' /\ RecvInv'
    BY <1>2, SameTables DEF MainInv, DetectInv, RecvInv
  <2>2. SettingInv' /\ LoadedInv'
    BY <1>2, SameTables DEF MainInv, SettingInv, LoadedInv, LoginLoaded
  <2>3. QED
    BY <2>1, <2>2 DEF MainInv
<1>3. CASE Start
  BY <1>2, <1>3 DEF Start
<1>4. CASE ScanDone
  BY <1>2, <1>4 DEF ScanDone
<1>5. CASE LoadPlugin
  <2>1. PICK p \in waiting :
          \/ loaded' = loaded /\ setting' = setting /\ mpc' = mpc
          \/ loaded' = loaded \cup {p} /\ setting' = <<p, Handled[p], 1>> /\ mpc' = "set"
    BY <1>5 DEF LoadPlugin
  <2>2. mpc = "scan" /\ UNCHANGED list
    BY <1>5 DEF LoadPlugin
  <2>3. CASE loaded' = loaded /\ mpc' = mpc
    BY <1>2, <2>2, <2>3
  <2>4. CASE loaded' = loaded \cup {p} /\ setting' = <<p, Handled[p], 1>> /\ mpc' = "set"
    <3>1. Names' = Handled[p] /\ Tab' = 1
      BY <2>4 DEF Names, Tab
    <3>2. DetectInv' /\ RecvInv'
      BY <2>2, <2>4, SameTables DEF MainInv, DetectInv, RecvInv
    <3>3. SettingInv'
      BY <3>1 DEF SettingInv
    <3>4. LoadedInv'
      <4>1. LoginLoaded => \A i \in 1..Len(list) : Detects(i)
        BY <2>2 DEF MainInv, LoadedInv
      <4>2. LoginLoaded' => LoginLoaded \/ "login" \in ToSet(Handled[p])
        BY <2>4 DEF LoginLoaded
      <4>3. QED
        BY <2>2, <2>4, <3>1, <4>1, <4>2, SameTables DEF LoadedInv
    <3>5. QED
      BY <3>2, <3>3, <3>4 DEF MainInv
  <2>5. QED
    BY <2>1, <2>3, <2>4
<1>6. CASE SetRecv
  BY <1>6, SetRecvKeepsMain
<1>7. CASE Write
  BY <1>7, WriteKeepsMain
<1>8. QED
  BY <1>1, <1>3, <1>4, <1>5, <1>6, <1>7 DEF MainStep

---------------------------------------------------------------------------
LEMMA GameTypesStep ==
  ASSUME Types, Next PROVE GameTypes'
<1> USE Numbers DEF mainVars, lookupVars, accountVars, config
<1>1. CASE MainStep
  BY <1>1 DEF Types, MainTypes, GameTypes, MainStep, LoadFile, Start, LoadPlugin, ScanDone,
              SetRecv, Write
<1>2. CASE Packet
  <2>1. ready' => mpc = "ready"
    BY <1>2, Zenon DEF Packet
  <2>2. id' \in Ids /\ at' = 1 /\ mpc' = mpc /\ mpc \notin {"load", "exit"}
    BY <1>2 DEF Packet
  <2>3. QED
    BY <2>1, <2>2 DEF GameTypes
<1>3. CASE GameStep
  BY <1>3 DEF Types, GameTypes, GameStep, Seek, Call, Select, Insert
<1>4. CASE Unhide
  BY <1>4 DEF Types, GameTypes, Unhide
<1>5. QED
  BY <1>1, <1>2, <1>3, <1>4 DEF Next

LEMMA TypesStep == Types /\ MainInv /\ [Next]_vars => Types' /\ MainInv'
<1> SUFFICES ASSUME Types, MainInv, [Next]_vars PROVE Types' /\ MainInv'
  OBVIOUS
<1>1. CASE Next
  <2>1. MainStep \/ UNCHANGED mainVars
    BY <1>1 DEF Next, Packet, GameStep, Seek, Call, Select, Insert, Unhide
  <2>2. QED
    BY <1>1, <2>1, GameTypesStep, MainTypesStep, MainInvStep, GameLeavesMain DEF Types
<1>2. CASE UNCHANGED vars
  <2>1. UNCHANGED mainVars /\ GameTypes'
    BY <1>2 DEF vars, Types, GameTypes, lookupVars, mainVars
  <2>2. QED
    BY <2>1, GameLeavesMain DEF Types
<1>3. QED
  BY <1>1, <1>2

(* A table that detects an id goes on to detect it, and after the plugins  *)
(* the tables stay as they are.                                            *)
LEMMA MainKeepsLookup ==
  ASSUME Types, MainInv, LookupInv, MainStep PROVE LookupInv'
<1>1. UNCHANGED <<gpc, id, at, ready>> /\ ~ready
  BY DEF MainStep, LoadFile, Start, LoadPlugin, ScanDone, SetRecv, Write, lookupVars, Types,
         GameTypes
<1>2. ASSUME gpc \in {"call", "select", "insert"}
      PROVE  at \in 1..Len(list') /\ list'[at].detect = id
  <2>1. at \in 1..Len(list) /\ list[at].detect = id /\ id # NoId /\ mpc # "load"
    BY <1>2, Numbers DEF LookupInv, Types, GameTypes
  <2>2. Detects(at)
    BY <2>1 DEF MainInv, DetectInv
  <2>3. CASE Write
    BY <2>1, <2>2, <2>3, WriteIsLocal DEF Detects, Types
  <2>4. CASE ~Write
    BY <2>1, <2>4 DEF MainStep, LoadFile, Start, LoadPlugin, ScanDone, SetRecv
  <2>5. QED
    BY <2>3, <2>4
<1>3. QED
  BY <1>1, <1>2 DEF LookupInv

LEMMA LookupStep ==
  Types /\ MainInv /\ LookupInv /\ [Next]_vars => LookupInv'
<1> SUFFICES ASSUME Types, MainInv, LookupInv, [Next]_vars PROVE LookupInv'
  OBVIOUS
<1> USE DEF lookupVars, mainVars
<1>1. at \in Nat \ {0} /\ Len(list) \in Nat
  BY DEF Types, GameTypes, MainTypes
<1>2. CASE Packet
  BY <1>2 DEF Packet, LookupInv
<1>3. CASE Seek
  <2>1. CASE at > Len(list) /\ gpc' = "ignored" /\ UNCHANGED at
    <3>1. \A i \in 1..Len(list) : i < at
      BY <1>1, <2>1
    <3>2. QED
      BY <1>3, <2>1, <3>1 DEF Seek, LookupInv
  <2>2. CASE at <= Len(list) /\ list[at].detect = id /\ gpc' = "call" /\ UNCHANGED at
    BY <1>1, <1>3, <2>2 DEF Seek, LookupInv
  <2>3. CASE at <= Len(list) /\ list[at].detect # id /\ at' = at + 1 /\ UNCHANGED gpc
    <3>1. \A i \in 1..Len(list) : i < at + 1 => i < at \/ i = at
      BY <1>1
    <3>2. QED
      BY <1>3, <2>3, <3>1 DEF Seek, LookupInv
  <2>4. QED
    BY <1>3, <2>1, <2>2, <2>3 DEF Seek
<1>4. CASE Call
  BY <1>4 DEF Call, LookupInv
<1>5. CASE Select
  BY <1>5 DEF Select, LookupInv
<1>6. CASE Insert
  BY <1>6 DEF Insert, LookupInv
<1>7. CASE Unhide
  BY <1>7 DEF Unhide, LookupInv
<1>8. CASE UNCHANGED vars
  BY <1>8 DEF vars, LookupInv
<1>9. QED
  BY <1>2, <1>3, <1>4, <1>5, <1>6, <1>7, <1>8, MainKeepsLookup DEF Next, GameStep

LEMMA LookupInvariant == Spec => [](Types /\ MainInv /\ LookupInv)
BY InitTypes, TypesStep, LookupStep, PTL DEF Spec

LEMMA TablesDecide ==
  ASSUME Types, MainInv, LookupInv, ready, LoginLoaded
  PROVE  LET tabs == {i \in DOMAIN list : Where(i, "login") = id}
         IN  /\ gpc = "ignored" => tabs = {}
             /\ gpc \in {"call", "select", "insert"} => at = Min(tabs)
<1> DEFINE tabs == {i \in DOMAIN list : Where(i, "login") = id}
<1>1. DOMAIN list = 1..Len(list) /\ Len(list) \in Nat
  BY DEF Types, MainTypes
<1>2. \A i \in 1..Len(list) : list[i].detect = Where(i, "login")
  BY DEF MainInv, LoadedInv, Types, GameTypes, Detects
<1>3. gpc = "ignored" => tabs = {}
  BY <1>1, <1>2 DEF LookupInv
<1>4. ASSUME gpc \in {"call", "select", "insert"} PROVE at = Min(tabs)
  <2>1. at \in tabs
    BY <1>1, <1>2, <1>4 DEF LookupInv
  <2>2. \A i \in tabs : ~(i < at)
    BY <1>1, <1>2, <1>4 DEF LookupInv
  <2>3. tabs \subseteq Nat
    BY <1>1
  <2> DEFINE m == Min(tabs)
  <2> HIDE DEF tabs
  <2>4. m \in tabs /\ m <= at
    BY <2>1, <2>3, MinIsLeast
  <2> HIDE DEF m
  <2>5. m \in Nat /\ at \in Nat /\ ~(m < at)
    BY <2>1, <2>2, <2>3, <2>4
  <2>6. QED
    BY <2>4, <2>5 DEF m
<1>5. QED
  BY <1>3, <1>4

(* THEOREM: a packet that comes after the plugins goes to the first table  *)
(* whose file has the login packet under its id, and is ignored only if    *)
(* there is none.                                                          *)
THEOREM DispatchIsExactInvariant == Spec => []DispatchIsExact
<1>1. Types /\ MainInv /\ LookupInv => DispatchIsExact
  BY TablesDecide DEF DispatchIsExact, LoginLoaded
<1>2. QED
  BY <1>1, LookupInvariant, PTL

---------------------------------------------------------------------------
LEMMA NullStep ==
  Types /\ MainInv /\ LookupInv /\ NullOnlyBetweenWrites /\ [Next]_vars
  => NullOnlyBetweenWrites'
<1> SUFFICES ASSUME Types, MainInv, LookupInv, NullOnlyBetweenWrites, [Next]_vars,
                    fault' = "null"
             PROVE  (~ready /\ mpc = "write" /\ todo = {"Recv"} /\ Tab = at)'
  BY DEF NullOnlyBetweenWrites
<1> USE DEF mainVars, lookupVars
<1>1. CASE Call /\ fault # "null"
  <2>1. /\ UNCHANGED <<mainVars, lookupVars>> /\ list[at].Recv[id] = "none"
        /\ at \in 1..Len(list) /\ list[at].detect = id /\ id # NoId
    BY <1>1, Numbers DEF Call, LookupInv, Types, GameTypes
  <2>2. mpc = "write" /\ todo = {"Recv"} /\ Tab = at
    BY <2>1 DEF MainInv, RecvInv
  <2>3. ~ready
    BY <2>2 DEF Types, GameTypes
  <2>4. QED
    BY <2>1, <2>2, <2>3 DEF Tab
<1>2. CASE UNCHANGED vars
  BY <1>2 DEF vars, NullOnlyBetweenWrites, Tab
<1>3. Next => fault = "none" /\ Call
  BY DEF Next, MainStep, GameStep, LoadFile, Start, LoadPlugin, ScanDone, SetRecv, Write,
         Packet, Seek, Select, Insert, Unhide
<1>4. QED
  BY <1>1, <1>2, <1>3

(* THEOREM: the handler GameD calls is missing only between the two writes *)
(* of Set_Recv, for a packet that came before the plugins were loaded.     *)
THEOREM NullOnlyBetweenWritesInvariant == Spec => []NullOnlyBetweenWrites
<1>1. Init => NullOnlyBetweenWrites
  BY DEF Init, NullOnlyBetweenWrites
<1>2. QED
  BY <1>1, LookupInvariant, NullStep, PTL DEF Spec

---------------------------------------------------------------------------
(* An account is made for a user with one only if SELECT did not see it    *)
(* and the database does not mind.                                         *)
AccountInv ==
  /\ open \in Nat /\ hidden \in {0, 1}
  /\ gpc = "insert" => auto /\ (open + hidden > 0 => blind)
  /\ AccountOnlyForNewName

LEMMA AccountStep == AccountInv /\ [Next]_vars => AccountInv'
<1> SUFFICES ASSUME AccountInv, [Next]_vars PROVE AccountInv'
  OBVIOUS
<1> USE DEF AccountInv, AccountOnlyForNewName, accountVars, config
<1>1. Min({open + 1, MaxRows}) \in Nat /\ Min({open + 1, MaxRows}) <= open + 1
  <2> DEFINE S == {open + 1, MaxRows}
  <2>1. S \subseteq Nat /\ S # {} /\ open + 1 \in S
    BY DispatchAssumption
  <2> HIDE DEF S
  <2>2. Min(S) \in S /\ Min(S) <= open + 1
    BY <2>1, MinIsLeast
  <2>3. QED
    BY <2>1, <2>2 DEF S
<1>2. CASE MainStep
  BY <1>2 DEF MainStep, LoadFile, Start, LoadPlugin, ScanDone, SetRecv, Write
<1>3. CASE Packet
  BY <1>3 DEF Packet
<1>4. CASE Seek
  BY <1>4 DEF Seek
<1>5. CASE Call
  BY <1>5 DEF Call
<1>6. CASE Select
  <2>1. /\ gpc = "select" /\ UNCHANGED <<open, hidden, auto, unique>>
        /\ \/ gpc' # "insert" /\ blind' = blind
           \/ blind' = (blind \/ open + hidden > 0) /\ (gpc' = "insert" => auto)
    BY <1>6 DEF Select
  <2>2. (blind => blind') /\ (gpc' = "insert" => auto /\ (open + hidden > 0 => blind'))
    BY <2>1, Zenon
  <2>3. QED
    BY <2>1, <2>2
<1>7. CASE Insert
  <2>1. gpc = "insert" /\ gpc' = "select" /\ UNCHANGED <<hidden, blind, auto, unique>>
    BY <1>7 DEF Insert
  <2>2. CASE open' = open
    BY <2>1, <2>2
  <2>3. CASE open' # open
    <3>1. open' = Min({open + 1, MaxRows}) /\ (unique => ~(open + hidden > 0))
      BY <1>7, <2>3 DEF Insert
    <3>2. open' + hidden > 1 => open + hidden > 0
      BY <1>1, <3>1
    <3>3. QED
      BY <1>1, <2>1, <3>1, <3>2
  <2>4. QED
    BY <2>2, <2>3
<1>8. CASE Unhide
  <2>1. /\ hidden = 1 /\ hidden' = 0 /\ open' = Min({open + 1, MaxRows})
        /\ UNCHANGED <<gpc, blind, auto, unique>>
    BY <1>8 DEF Unhide
  <2>2. open' \in Nat /\ open' + hidden' <= open + hidden
    BY <1>1, <2>1
  <2>3. QED
    BY <2>1, <2>2
<1>9. CASE UNCHANGED vars
  BY <1>9 DEF vars
<1>10. QED
  BY <1>2, <1>3, <1>4, <1>5, <1>6, <1>7, <1>8, <1>9 DEF Next, GameStep

(* THEOREM: AutoAccount makes an account only for a user who has none,     *)
(* unless a SELECT was blind and the database takes a second one.          *)
THEOREM AccountOnlyForNewNameInvariant == Spec => []AccountOnlyForNewName
<1>1. Init => AccountInv
  BY DEF Init, AccountInv, AccountOnlyForNewName
<1>2. AccountInv => AccountOnlyForNewName
  BY DEF AccountInv
<1>3. QED
  BY <1>1, <1>2, AccountStep, PTL DEF Spec
=============================================================================
