----------------------------- MODULE HttpReply -----------------------------
(***************************************************************************)
(* One HTTP request from its reading to its end (http.cpp, HTTP_Work): the *)
(* choice of a page, the status lines, the pages for errors, and what      *)
(* HTTP_Transform_Change makes of an HTML page.  Files can disappear while *)
(* the request is served, and the client can leave.                        *)
(*                                                                         *)
(* A text is a sequence of tokens: placeholders, tags, and "text", which   *)
(* stands for anything else, and for nothing in an empty page.  A page is  *)
(* named by the status it is sent with.                                    *)
(***************************************************************************)
EXTENDS Naturals, Sequences, SequencesExt

CONSTANTS Texts,   \* the texts a page can have
          Values,  \* the values the settings can have together
          Chunks,  \* bound: the parts a file is sent in
          MaxText  \* bound: a text that grows for ever is followed up to here

Settings     == {"name", "copyright", "sign"}
Tags         == {"</body>", "<body>", "</head>", "<head>"}
Placeholders == Settings \cup {"system", "players"} \cup Tags
Tokens       == Placeholders \cup {"text", "<BODY>", "<HEAD>", "</BODY>", "</HEAD>"}

ASSUME TextsAssumption == Texts \subseteq Seq(Tokens) \ {<<>>}
ASSUME ChunksAssumption == Chunks \in Nat \ {0}
ASSUME MaxTextAssumption == MaxText \in Nat
ASSUME ValuesAssumption == \A v \in Values : v \in [Settings -> Seq(Tokens)]

Pages  == {"200", "403", "404", "501"}
Texted == {"html"}   \* HTTP_Can_Transform: .html only, so that html_file is true
States == Texted \cup {"plain", "dotless", "closed", "absent"}

VARIABLES
  method,   \* of the request
  outside,  \* the path leads out of Dirs.WWW
  disk,     \* what each page is: HTML, another file, one whose
            \* path has no dot, one that cannot be opened, or nothing
  value,    \* Server_Name, SERVER_COPYRIGHT and SERVER_SIGN
  pc,       \* where HTTP_Work is
  status,   \* the page it tries
  page,     \* what HTTP_Transform read
  text,     \* its tmp
  left,     \* the parts of the body that are still to be sent
  sock,     \* the socket of the connexion is open
  sent,     \* what has been sent
  invalid     \* an invalid access

request   == <<method, outside, value>>
transform == <<page, text>>
output    == <<left, sock, sent>>
replyVars == <<request, transform, disk, pc, status, output, invalid>>

ReplyInit ==
  /\ method \in {"GET", "HEAD", "POST"} /\ outside \in BOOLEAN
  /\ disk \in {d \in [Pages -> States] :
                 \A p \in Pages \ {"200"} : d[p] \in {"html", "closed", "absent"}}
  /\ value \in Values /\ page = <<>> /\ text = <<>> /\ left = 0
  /\ pc = "find" /\ status = "none" /\ sock = TRUE /\ sent = <<>> /\ invalid = FALSE

---------------------------------------------------------------------------
(* Mutant: a socket whose send failed stays open. *)
SendAnyway(part) == sent' \in {sent, Append(sent, part)} /\ UNCHANGED sock

(* connexion_list::Send.  The client may have left: the first send that    *)
(* fails closes the socket, and those after it do nothing.  A send can     *)
(* take the beginning of a part only: no caller compares what was taken    *)
(* with what it gave (http.cpp:150 asks only whether it is positive), so   *)
(* the reply goes on as if all had been, and sent records the part.        *)
Send(part) ==
  \/ sock  /\ sent' = Append(sent, part) /\ UNCHANGED sock
  \/ sock' = FALSE /\ UNCHANGED sent

(* A line of the head, with write_head_printf. *)
Line(name) == <<name, status>>

---------------------------------------------------------------------------
(* The page for a request.  POST stands for TRACE as well. *)
Find ==
  /\ pc = "find" /\ pc' = "head"
  /\ status' = IF method = "POST" THEN "501" ELSE IF disk["200"] = "absent" THEN "404"
                ELSE IF outside THEN "403" ELSE "200"
  /\ UNCHANGED <<request, disk, transform, output, invalid>>

(* HTTP_MimeType goes by the suffix; .bin stands for every other file, and *)
(* the pages for errors have the suffix .html.                             *)
mime_type == [html |-> "text/html", plain |-> "application/octet-stream"]
SuffixesOf(p) ==
  IF p # "200" THEN {"html"}
  ELSE IF disk[p] \in DOMAIN mime_type THEN {disk[p]} ELSE DOMAIN mime_type

(* The status line and the headers.  HTTP_Can_Transform takes the suffix   *)
(* of a path that may have none; HTTP_DateTime_Char uses the time of a     *)
(* file that may not be there, and localtime may have none for it.         *)
SendHead ==
  /\ pc = "head" /\ pc' = "open"
  /\ \/ /\ disk[status] # "dotless"
        /\ \E suffix \in SuffixesOf(status) : Send(Append(Line("status"), mime_type[suffix]))
        /\ UNCHANGED invalid
     \/ disk[status] \in {"dotless", "absent"} /\ invalid' = TRUE /\ UNCHANGED <<sock, sent>>
  /\ UNCHANGED <<request, disk, status, transform, left>>

(* A page that cannot be opened makes room for the next one, after whose   *)
(* status line the reply goes on.                                          *)
NextPage == [p \in Pages |-> IF p \in {"200", "403"} THEN "404"
                             ELSE IF p = "404" THEN "501" ELSE "none"]

Open ==
  /\ pc = "open"
  /\ \/ /\ disk[status] \in Texted /\ pc' = "change"
        /\ page' \in Texts /\ text' = page'
        /\ left' = 1 /\ UNCHANGED status
     \/ /\ disk[status] = "plain" /\ pc' = "send"
        /\ left' \in 1..Chunks /\ UNCHANGED <<status, transform>>
     \/ /\ disk[status] \in {"closed", "absent"}
        /\ status' = NextPage[status]
        /\ pc' = IF status' = "none" THEN "done" ELSE "head"
        /\ UNCHANGED <<transform, left>>
  /\ UNCHANGED <<request, disk, sock, sent, invalid>>

---------------------------------------------------------------------------
(* HTTP_Transform_Change: the first placeholder of the first kind that     *)
(* occurs is replaced, and the search begins again.  "system" stands for   *)
(* the four placeholders with plain values before </body> in the order,    *)
(* "players" for the two after the settings.                               *)
Rank == [name |-> 1, system |-> 2, copyright |-> 7, sign |-> 8, players |-> 9]
        @@ "</body>" :> 3 @@ "<body>" :> 4 @@ "</head>" :> 5 @@ "<head>" :> 6

(* HTTP_Transform_Players_List: nobody plays yet. *)
PlayersList == <<>>

Becomes(t) ==
  IF t \in Settings THEN value[t]
  ELSE IF t = "</body>" THEN <<"sign", "system", "</BODY>">>
  ELSE IF t = "</head>" THEN <<"copyright", "</HEAD>">>
  ELSE IF t = "<body>"  THEN <<"<BODY>">>
  ELSE IF t = "<head>"  THEN <<"<HEAD>">>
  ELSE IF t = "system"  THEN <<"text">>
  ELSE PlayersList

Found(i) ==
  /\ text[i] \in Placeholders
  /\ \A j \in DOMAIN text : text[j] \in Placeholders =>
       Rank[text[i]] < Rank[text[j]] \/ (text[i] = text[j] /\ i <= j)

(* Mutant: what comes after a placeholder is copied from one too far. *)
AdjustTooFar(i) ==
  text' = SubSeq(text, 1, i - 1) \o Becomes(text[i]) \o SubSeq(text, i + 2, Len(text))

(* Mutant: the tags of the body keep their case. *)
AdjustSameCase(i) ==
  text' = SubSeq(text, 1, i - 1)
            \o (IF text[i] = "<body>" THEN <<"<body>">> ELSE Becomes(text[i]))
            \o SubSeq(text, i + 1, Len(text))

Adjust(i) ==
  text' = SubSeq(text, 1, i - 1) \o Becomes(text[i]) \o SubSeq(text, i + 1, Len(text))

Change ==
  /\ pc = "change" /\ Len(text) <= MaxText
  /\ \/ /\ \E i \in DOMAIN text : Found(i) /\ Adjust(i)
        /\ UNCHANGED pc
     \/ /\ \A i \in DOMAIN text : text[i] \notin Placeholders
        /\ pc' = "send" /\ UNCHANGED text
  /\ UNCHANGED <<request, disk, status, page, output, invalid>>

(* The length, and the body part by part unless the method is HEAD; a part *)
(* that cannot be sent is the last one.                                    *)
SendLength ==
  /\ pc = "send" /\ pc' = IF method = "HEAD" THEN "done" ELSE "body"
  /\ Send(Line("length"))
  /\ UNCHANGED <<request, disk, status, transform, left, invalid>>

SendBody ==
  /\ pc = "body"
  /\ Send(<<"body", status>>)
  /\ left' = left - 1
  /\ pc' = IF left' = 0 \/ ~sock' THEN "done" ELSE "body"
  /\ UNCHANGED <<request, disk, status, transform, invalid>>

Answer == Find \/ SendHead \/ Open \/ Change \/ SendLength \/ SendBody

(* Somebody deletes a page. *)
Vanish ==
  /\ pc # "done"
  /\ \E p \in Pages : disk[p] # "absent" /\ disk' = [disk EXCEPT ![p] = "absent"]
  /\ UNCHANGED <<request, pc, status, transform, output, invalid>>

ReplyNext == ~invalid /\ (Answer \/ Vanish)

ReplySpec     == ReplyInit /\ [][ReplyNext]_replyVars
ReplyFairSpec == ReplySpec /\ WF_replyVars(~invalid /\ Answer)

---------------------------------------------------------------------------
Missing(p) == disk[p] \in {"closed", "absent"}

(* The status lines that a reply begins with. *)
Heads == SubSeq(sent, 1, CHOOSE n \in 0..Len(sent) :
                           /\ \A i \in 1..n : sent[i][1] = "status"
                           /\ n < Len(sent) => sent[n + 1][1] # "status")

(* A reply is a status line, its length and, unless the method is HEAD,    *)
(* its body, all of one page; a client that leaves has got the beginning   *)
(* of one.  Its type is that of HTML if placeholders were replaced in it,  *)
(* and no other.  More status lines than one mean that every page but the  *)
(* last could not be opened, and a reply without a body that not even the  *)
(* last page, for 501, could.                                              *)
ReplyIsOfOnePage ==
  LET shown == IF Heads = <<>> THEN "none" ELSE Last(Heads)[2]
      rest  == SubSeq(sent, Len(Heads) + 1, Len(sent))
  IN  /\ \A i \in 1..(Len(Heads) - 1) : Missing(Heads[i][2])
      /\ rest = [i \in 1..Len(rest) |-> <<IF i = 1 THEN "length" ELSE "body", shown>>]
      /\ rest # <<>> => Heads # <<>> /\ (Last(Heads)[3] = "text/html" <=> page # <<>>)
      /\ pc = "done" /\ sock => IF rest = <<>> THEN shown = "501" /\ Missing("501")
                                ELSE method = "HEAD" \/ (left = 0 /\ Len(rest) > 1)

(* What a setting or a tag needs replaced in turn, and what the page leads *)
(* to after n replacements.                                                *)
Chained == Settings \cup {"</body>", "</head>"}
Uses(t) == IF t \in Settings THEN Chained \cap ToSet(value[t])
           ELSE IF t = "</body>" THEN {"sign"}
           ELSE IF t = "</head>" THEN {"copyright"} ELSE {}
Leads == LET l[n \in 0..5] == IF n = 0 THEN ToSet(page)
                              ELSE UNION {Uses(t) : t \in l[n - 1]}
         IN  l

(* The settings lead back to themselves. *)
Circular == Leads[5] # {}

(* The text with every placeholder replaced by what it stands for, and     *)
(* that by what it stands for in turn.                                     *)
Replaced(e) == [t \in Tokens |->
  IF t \notin Placeholders THEN <<t>>
  ELSE FlattenSeq([i \in DOMAIN Becomes(t) |-> e[Becomes(t)[i]]])]
Expansion == LET e[n \in 0..6] == IF n = 0 THEN [t \in Tokens |-> <<t>>] ELSE Replaced(e[n - 1])
             IN  e[6]
Full(s) == FlattenSeq([i \in DOMAIN s |-> Expansion[s[i]]])

(* The order of the replacements, and doing one at a time, do not matter:  *)
(* the page that is sent is the page with everything replaced.             *)
ChangeKeepsTheMeaning ==
  pc \in {"change", "send"} /\ ~Circular => Full(text) = Full(page)

(* A request ends, unless a setting leads back to itself. *)
RequestEnds == <>(pc = "done" \/ invalid \/ Circular)
=============================================================================
