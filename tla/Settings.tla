------------------------------ MODULE Settings ------------------------------
(***************************************************************************)
(* The settings of the server (settings.cpp): defaults, then config.ini,   *)
(* which is read by fscanf(" %s = %[^\n]s"), one word at a time.  A word   *)
(* that no "=" follows is a name too, with the value of the line before,   *)
(* and "# Name = value" is the word "#" and then a setting like any other. *)
(* The blank after "=" in the format skips ends of lines: the value of     *)
(* "Name =" is the whole of the next line, which sets nothing then.        *)
(*                                                                         *)
(* A value is the number its text is to atoi; only the settings that       *)
(* decide which threads and listeners there are have a place here.         *)
(***************************************************************************)
EXTENDS Naturals, Sequences

CONSTANTS Files,   \* the texts of config.ini: sequences of lines
          Garbage  \* what val can hold before anything is read

Forms == {"value", "empty", "word"}

ASSUME SettingsAssumption ==
  /\ Files \subseteq Seq([name : STRING, form : Forms, val : Nat, hash : BOOLEAN])
  /\ Garbage \subseteq Nat

(* The forms of a line: "Name = val"; "Name =" with nothing behind it; a   *)
(* word without "=".  Before it there may be "# ".                         *)
Line(name, val, hash) == [name |-> name, form |-> "value", val |-> val, hash |-> hash]
EmptyLine(name)       == [name |-> name, form |-> "empty", val |-> 0, hash |-> FALSE]
Word(name, hash)      == [name |-> name, form |-> "word", val |-> 0, hash |-> hash]

VARIABLES
  file,  \* the text of config.ini
  at,    \* the lines that are read
  val,   \* val, which keeps its text until the next value is read
  set    \* the settings

settingsVars == <<file, at, val, set>>

Default ==
  [name \in {"DataBase.Login", "Thread.DataBase.Fast", "Thread.DataBase.Slow",
             "Thread.Httpd", "Net.Ports.Game", "Net.Ports.Httpd", "Net.Ports.Bridge"} |->
     CASE name = "Thread.DataBase.Fast" -> 1
       [] name = "Thread.Httpd" -> 1
       [] name = "Net.Ports.Game" -> 14752
       [] name = "Net.Ports.Httpd" -> 8080
       [] OTHER -> 0]

(* The line for Net.Ports.Httpd stores into Net.Ports.Bridge. *)
Stored(name) == IF name = "Net.Ports.Httpd" THEN "Net.Ports.Bridge" ELSE name

(* A login is there or not (1 or 0), and any text is one. *)
Value(name, v) == IF name = "DataBase.Login" THEN 1 ELSE v

SettingsInit == file \in Files /\ at = 0 /\ val \in Garbage /\ set = Default

(* Mutant: a setting that was given keeps its value. *)
AssignOnce(s, name, v) ==
  IF Stored(name) \in DOMAIN Default /\ s[Stored(name)] = Default[Stored(name)]
  THEN [s EXCEPT ![Stored(name)] = Value(name, v)] ELSE s

Assign(s, name, v) ==
  IF Stored(name) \in DOMAIN Default THEN [s EXCEPT ![Stored(name)] = Value(name, v)] ELSE s

(* The next line is taken for the value of this one; as a number it is 0,  *)
(* because it begins with a name or with "#".                              *)
Swallows == file[at + 1].form = "empty" /\ at + 1 < Len(file)

ReadLine ==
  /\ at < Len(file)
  /\ LET line == file[at + 1]
     IN  /\ at'  = IF Swallows THEN at + 2 ELSE at + 1
         /\ val' = CASE line.form = "value" -> line.val
                     [] Swallows             -> 0
                     [] OTHER                -> val
         /\ set' = Assign(set, line.name, val')
  /\ UNCHANGED file

Loaded == at = Len(file)

(* The text is not needed any more. *)
CloseFile ==
  /\ Loaded
  /\ file' = <<>> /\ at' = 0 /\ val' = 0 /\ UNCHANGED set

---------------------------------------------------------------------------
(* A setting has the value of the last line that gives it one, or its      *)
(* default, provided that every line that names it is "Name = value",      *)
(* without "# ", and does not stand behind a "Name =" without a value.     *)
(* Only the HTTP port keeps its default whatever the file says, and its    *)
(* lines set the port of the bridge.                                       *)
Plain(i)     == /\ file[i].form = "value" /\ ~file[i].hash
                /\ i > 1 => file[i - 1].form # "empty"
Naming(name) == {i \in 1..Len(file) : file[i].name = name}
Given(name)  == IF Naming(name) = {} THEN Default[name]
                ELSE LET last == CHOOSE i \in Naming(name) : \A j \in Naming(name) : j <= i
                     IN  Value(name, file[last].val)

SettingsAreTheFile ==
  Loaded /\ file # <<>> =>
    /\ \A name \in DOMAIN Default \ {"Net.Ports.Httpd", "Net.Ports.Bridge"} :
         (\A i \in Naming(name) : Plain(i)) => set[name] = Given(name)
    /\ set["Net.Ports.Httpd"] = Default["Net.Ports.Httpd"]
=============================================================================
