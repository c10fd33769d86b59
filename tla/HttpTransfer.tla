---------------------------- MODULE HttpTransfer ----------------------------
(***************************************************************************)
(* One request of mp1: the client (client.c), the first process of the     *)
(* server, which serves other connections too (HttpServer), and the child  *)
(* that it forks for this one (server.c).  TCP keeps the bytes of each     *)
(* direction in order, and recv gets any part of what has arrived.         *)
(*                                                                         *)
(* A string stands for a byte, or for bytes that are not told apart: "GE"  *)
(* for two, "HTTP" for the nine before the status.                         *)
(***************************************************************************)
EXTENDS Integers, Sequences, HttpServer

CONSTANTS
  Mine,     \* the connection of this client
  Files,    \* the files of the server: the bytes that can be read, by name
  Unreadable, \* those that can be opened, but whose end cannot be read
  ShortReads, \* how many bytes an fread that fails may get
  path,     \* the name that the client asks for
  BUFSIZE,  \* what a recv or fread gets at most (1024)
  headers,  \* the bytes of the request after the path
  Symbols   \* the strings that stand for bytes

ASSUME MineAssumption == Mine \in Conns
ASSUME SymbolsAssumption ==
  {"GE", "T", " ", "/", "HTTP", "200", "400", "404", "text", "\r", "\n", "\\0"} \subseteq Symbols
ASSUME FilesAssumption ==
  \A name \in DOMAIN Files : name \in Seq(Symbols) /\ Files[name] \in Seq(Symbols)
ASSUME UnreadableAssumption == Unreadable \subseteq DOMAIN Files
ASSUME ShortReadsAssumption == ShortReads \subseteq Nat
ASSUME PathAssumption == path \in Seq(Symbols)
ASSUME HttpBufferAssumption == BUFSIZE \in Nat \ {0}
ASSUME HeadersAssumption == headers \in Seq(Symbols)

VARIABLES
  cliPc, bytes_sent,
  buf,       \* the piece that the client received last
  output,    \* the bytes of the output file
  result,    \* what recv_data returned, or the exit code 3
  toServer,  \* the bytes of the connection that can still be received
  toClient,
  srvPc,
  filename,  \* the name that the server found in the request
  readSoFar, \* the position of the server in the file
  sent,      \* history: the bytes that the child has sent
  sendFailed \* history: a send of the child has failed

cliVars == <<cliPc, bytes_sent, buf, output, result>>
sendVars == <<sent, sendFailed>>
childVars == <<srvPc, filename, readSoFar, sendVars>>
srvVars == <<childVars, loopVars>>
vars == <<cliVars, toServer, toClient, srvVars>>

Zero == "\\0"
CRLFCRLF == <<"\r", "\n", "\r", "\n">>

request == <<"GE", "T", " ", "/">> \o path \o <<" ">> \o headers

Response(code) == <<"HTTP", code, "text">> \o CRLFCRLF

NoResult == -2
Smaller(a, b) == IF a <= b THEN a ELSE b

TypeOK ==
  /\ cliPc \in {"send", "first", "code", "scan", "more", "body", "end"}
  /\ bytes_sent \in 0 .. 2 * Len(request)
  /\ buf \in Seq(Symbols) /\ Len(buf) <= BUFSIZE
  /\ output \in Seq(Symbols)
  /\ result \in {NoResult, -1, 0, 1, 3}
  /\ toServer \in Seq(Symbols) /\ toClient \in Seq(Symbols)
  /\ srvPc \in {"none", "recv", "serve", "end"}
  /\ filename \in Seq(Symbols)
  /\ readSoFar \in Nat
  /\ srvPc = "serve" => readSoFar <= Len(Files[filename])
  /\ sent \in Seq(Symbols) /\ sendFailed \in BOOLEAN
  /\ LoopType

Init ==
  /\ cliPc = "send" /\ bytes_sent = 0 /\ buf = <<>>
  /\ output = <<>> /\ result = NoResult
  /\ toServer = <<>> /\ toClient = <<>>
  /\ srvPc = "none" /\ filename = <<>> /\ readSoFar = 0
  /\ sent = <<>> /\ sendFailed = FALSE
  /\ LoopInit

(* What recv may get: a part of what has arrived, or nothing once the other side
   has closed the connection. *)
Pieces(stream, most, closed) ==
  {SubSeq(stream, 1, n) : n \in 1 .. Smaller(most, Len(stream))}
    \cup (IF closed /\ stream = <<>> THEN {<<>>} ELSE {})

(* The server's end is closed when no process of it has the connection open. *)
ServerClosed == srvPc \in {"none", "end"} /\ ~HasOpen(Mine)

Rest(stream, piece) == SubSeq(stream, Len(piece) + 1, Len(stream))

------------------------------------------------------------------------------
(* The client: send_request *)

(* The request, and the zeros that follow it in its buffer. *)
Memory(i) == IF i <= Len(request) THEN request[i] ELSE Zero

(* The child receives once: what arrives later nobody receives. *)
Arrives(part) ==
  toServer' = IF srvPc \in {"none", "recv"} THEN toServer \o part ELSE toServer

(* Variant for testing NameIsOfPath: the start is sent again. *)
SendFromStart(ret) ==
  /\ cliPc = "send" /\ bytes_sent < Len(request)
  /\ Arrives(SubSeq(request, 1, ret))
  /\ bytes_sent' = bytes_sent + ret
  /\ UNCHANGED <<cliPc, buf, output, result, toClient, srvVars>>

(* send is always given the length of the whole request. *)
Send(ret) ==
  /\ cliPc = "send" /\ bytes_sent < Len(request)
  /\ Arrives([i \in 1 .. ret |-> Memory(bytes_sent + i)])
  /\ bytes_sent' = bytes_sent + ret
  /\ UNCHANGED <<cliPc, buf, output, result, toClient, srvVars>>

SendFails ==
  /\ cliPc = "send" /\ bytes_sent < Len(request)
  /\ cliPc' = "end" /\ result' = 3
  /\ UNCHANGED <<bytes_sent, buf, output, toServer, toClient, srvVars>>

(* A connection that is closed at the other end kills the writer (SIGPIPE). *)
SendKilled ==
  /\ cliPc = "send" /\ bytes_sent < Len(request) /\ ServerClosed
  /\ cliPc' = "end"
  /\ UNCHANGED <<bytes_sent, buf, output, result, toServer, toClient, srvVars>>

RequestSent ==
  /\ cliPc = "send" /\ bytes_sent >= Len(request)
  /\ cliPc' = "first" /\ bytes_sent' = 0
  /\ UNCHANGED <<buf, output, result, toServer, toClient, srvVars>>

------------------------------------------------------------------------------
(* The client: recv_data *)

Recv(from, to) ==
  /\ cliPc = from
  /\ \E piece \in Pieces(toClient, BUFSIZE, ServerClosed) :
       buf' = piece /\ toClient' = Rest(toClient, piece)
  /\ cliPc' = to
  /\ UNCHANGED <<bytes_sent, output, result, toServer, srvVars>>

RecvFails ==
  /\ cliPc \in {"first", "more", "body"}
  /\ cliPc' = "end" /\ result' = -1
  /\ UNCHANGED <<bytes_sent, buf, output, toServer, toClient, srvVars>>

(* strncmp(buf + 9, code, 3) *)
CodeIs(code) == Len(buf) >= 2 /\ buf[2] = code

CheckCode ==
  /\ cliPc = "code"
  /\ \/ CodeIs("404") /\ cliPc' = "end" /\ result' = 1
     \/ CodeIs("200") /\ cliPc' = "scan" /\ UNCHANGED result
     \/ ~CodeIs("404") /\ ~CodeIs("200") /\ cliPc' = "end" /\ result' = -1
  /\ UNCHANGED <<bytes_sent, buf, output, toServer, toClient, srvVars>>

(* Where the bytes after the header begin in this piece. *)
HeaderEnds ==
  {i \in 1 .. Len(buf) : i >= 4 /\ SubSeq(buf, i - 3, i) = CRLFCRLF}

(* Variant for testing OutputIsPrefix: the four bytes are not skipped. *)
BodyFoundEarly ==
  /\ cliPc = "scan" /\ HeaderEnds # {}
  /\ LET end == CHOOSE i \in HeaderEnds : \A j \in HeaderEnds : i <= j
     IN  output' = SubSeq(buf, end - 3, Len(buf))
  /\ cliPc' = "body" /\ buf' = <<>>
  /\ UNCHANGED <<bytes_sent, result, toServer, toClient, srvVars>>

BodyFound ==
  /\ cliPc = "scan" /\ HeaderEnds # {}
  /\ LET end == CHOOSE i \in HeaderEnds : \A j \in HeaderEnds : i <= j
     IN  output' = SubSeq(buf, end + 1, Len(buf))
  /\ cliPc' = "body" /\ buf' = <<>>
  /\ UNCHANGED <<bytes_sent, result, toServer, toClient, srvVars>>

BodyNotFound ==
  /\ cliPc = "scan" /\ HeaderEnds = {}
  /\ IF buf = <<>> THEN cliPc' = "end" /\ result' = -1
                   ELSE cliPc' = "more" /\ UNCHANGED result
  /\ buf' = <<>>
  /\ UNCHANGED <<bytes_sent, output, toServer, toClient, srvVars>>

(* Variant for testing ResultIsRight: a piece that does not fill the buffer
   is taken for the last one. *)
RecvBodyShort ==
  /\ cliPc = "body"
  /\ \E piece \in Pieces(toClient, BUFSIZE, ServerClosed) :
       /\ toClient' = Rest(toClient, piece)
       /\ output' = output \o piece
       /\ IF Len(piece) < BUFSIZE THEN cliPc' = "end" /\ result' = 0
                                  ELSE UNCHANGED <<cliPc, result>>
  /\ UNCHANGED <<bytes_sent, buf, toServer, srvVars>>

RecvBody ==
  /\ cliPc = "body"
  /\ \E piece \in Pieces(toClient, BUFSIZE, ServerClosed) :
       /\ toClient' = Rest(toClient, piece)
       /\ output' = output \o piece
       /\ IF piece = <<>> THEN cliPc' = "end" /\ result' = 0
                          ELSE UNCHANGED <<cliPc, result>>
  /\ UNCHANGED <<bytes_sent, buf, toServer, srvVars>>

ClientStep ==
  \/ \E ret \in 1 .. Len(request) : Send(ret)
  \/ SendFails \/ SendKilled \/ RequestSent
  \/ Recv("first", "code") \/ CheckCode
  \/ BodyFound \/ BodyNotFound \/ Recv("more", "scan")
  \/ RecvBody \/ RecvFails

------------------------------------------------------------------------------
(* The child process of the server *)

IsGet(piece) == Len(piece) >= 2 /\ SubSeq(piece, 1, 2) = <<"GE", "T">>

(* The places of the blank or the zero that may end the path. *)
PathEnds(piece) == {i \in 4 .. Len(piece) : piece[i] \in {" ", Zero}}

(* The path up to the first of them, or to the end of the piece, after which
   there are zeros; without the slash. *)
NameIn(piece) ==
  IF PathEnds(piece) = {} THEN SubSeq(piece, 5, Len(piece))
  ELSE SubSeq(piece, 5, (CHOOSE i \in PathEnds(piece) :
                           \A j \in PathEnds(piece) : i <= j) - 1)

(* A send that fails has sent a part or nothing; no caller looks at what send_data
   returns. *)
send_data(data) ==
  \E n \in 0 .. Len(data) :
    /\ toClient' = toClient \o SubSeq(data, 1, n)
    /\ sent' = sent \o SubSeq(data, 1, n)
    /\ sendFailed' = (sendFailed \/ n < Len(data))

Answer(code) == send_data(Response(code))

BadRequest(piece) ==
  /\ ~IsGet(piece)
  /\ Answer("400")
  /\ srvPc' = "end"
  /\ UNCHANGED filename

(* Without a path the length of the name is -1, and copying the name ends the
   process. *)
NoPath(piece) ==
  /\ IsGet(piece) /\ Len(piece) < 4
  /\ srvPc' = "end"
  /\ UNCHANGED <<filename, toClient, sendVars>>

(* After the 404 a null pointer is closed, which ends the process too. *)
GetFile(piece) ==
  /\ IsGet(piece) /\ Len(piece) >= 4
  /\ filename' = NameIn(piece)
  /\ \/ filename' \in DOMAIN Files /\ Answer("200") /\ srvPc' = "serve"
     \/ filename' \notin DOMAIN Files /\ Answer("404") /\ srvPc' = "end"

RecvRequest ==
  /\ srvPc = "recv"
  /\ \E piece \in Pieces(toServer, BUFSIZE - 1, cliPc = "end") :
       /\ BadRequest(piece) \/ NoPath(piece) \/ GetFile(piece)
  /\ toServer' = <<>>
  /\ UNCHANGED <<readSoFar, cliVars, loopVars>>

RecvRequestFails ==
  /\ srvPc = "recv"
  /\ srvPc' = "end"
  /\ UNCHANGED <<filename, readSoFar, sendVars, toServer, toClient, cliVars, loopVars>>

(* Up to where fread may read.  One that fails gets less than it could, or nothing. *)
ReadTo ==
  LET most == Smaller(readSoFar + BUFSIZE, Len(Files[filename]))
  IN  {most} \cup {upTo \in readSoFar .. most : upTo - readSoFar \in ShortReads}

(* The end of the file is met by a read that fills no buffer and does not fail. *)
FeofAt(upTo) ==
  /\ upTo = Len(Files[filename]) /\ upTo - readSoFar < BUFSIZE
  /\ filename \notin Unreadable

(* A part of the file is read and sent.  A read that fails does not return the -1
   that is asked for, and the child goes on until it meets the end of the file. *)
ServePart ==
  /\ srvPc = "serve"
  /\ \E upTo \in ReadTo :
       /\ send_data(SubSeq(Files[filename], readSoFar + 1, upTo))
       /\ readSoFar' = upTo
       /\ srvPc' = "serve" \/ (FeofAt(upTo) /\ srvPc' = "end")
  /\ UNCHANGED <<filename, toServer, cliVars, loopVars>>

(* Nobody is killed who has nothing to send. *)
ServeKilled ==
  /\ srvPc = "serve" /\ cliPc = "end" /\ readSoFar < Len(Files[filename])
  /\ srvPc' = "end"
  /\ UNCHANGED <<filename, readSoFar, sendVars, toServer, toClient, cliVars, loopVars>>

ChildStep == RecvRequest \/ RecvRequestFails \/ ServePart \/ ServeKilled

------------------------------------------------------------------------------
(* The processes of the server *)

transferVars == <<cliVars, toServer, toClient>>

ForkChild ==
  /\ \E c \in Conns :
       /\ Fork(c)
       /\ srvPc' = IF c = Mine THEN "recv" ELSE srvPc
  /\ UNCHANGED <<filename, readSoFar, sendVars, transferVars>>

Loop(A) == A /\ UNCHANGED <<childVars, transferVars>>

ServerLoop == ForkChild \/ Loop(ForkFails \/ AcceptLoop)

MyChildEnds == srvPc = "end" /\ Loop(ChildEnds(Mine))

(* The children of the other connections run as long as they like. *)
OtherChildEnds == \E c \in Conns \ {Mine} : Loop(ChildEnds(c))

ServerStep ==
  ChildStep \/ ServerLoop \/ Loop(sigchld_handler) \/ MyChildEnds \/ OtherChildEnds

------------------------------------------------------------------------------
Next == ClientStep \/ ServerStep

Spec == Init /\ [][Next]_vars

(* Every process but those of other connections runs, a recv with something to get
   returns, and the bytes that can be read are read at last. *)
FairSpec ==
  /\ Spec
  /\ WF_vars(ClientStep) /\ WF_vars(ChildStep) /\ WF_vars(ServerLoop)
  /\ WF_vars(Loop(sigchld_handler)) /\ WF_vars(MyChildEnds)

------------------------------------------------------------------------------
(* Properties *)

(* The four bytes that end a header come again, within the file or from the last
   bytes of the header on. *)
HeaderEndsAgain(file) ==
  \E i \in 2 .. Len(file) + 1 : SubSeq(CRLFCRLF \o file, i, i + 3) = CRLFCRLF

StartOf(part, whole) ==
  Len(part) <= Len(whole) /\ part = SubSeq(whole, 1, Len(part))

(* However often the request is sent in parts, and although every part is sent
   with the length of the whole, the name that the server finds is the start of
   the path that was asked for. *)
NameIsOfPath == TypeOK /\ StartOf(filename, path)

(* What follows the end of a header in a stream. *)
AfterHeader(stream) ==
  {SubSeq(stream, i + 1, Len(stream)) :
     i \in {j \in 4 .. Len(stream) : SubSeq(stream, j - 3, j) = CRLFCRLF}}

(* However the response is cut into pieces, and whatever the server could not send
   of it, what is written is what the server sent after the end of a header, from there on
   without a gap.  As long as no send of the server failed this is the start of the file that it
   opened, unless the four bytes that end a header come again in this file or where
   it begins. *)
OutputIsPrefix ==
  output # <<>> =>
    /\ \E body \in AfterHeader(sent) : StartOf(output, body)
    /\ \/ sendFailed
       \/ /\ filename \in DOMAIN Files
          /\ HeaderEndsAgain(Files[filename]) \/ StartOf(output, Files[filename])

(* Success is reported only after the child has ended, with everything written
   that it sent after the end of a header: the whole of the file, if no send failed.
   A missing file is reported only if the server did not find it, or could not
   send all it had to. *)
ResultIsRight ==
  /\ result = 0 =>
       /\ srvPc = "end" /\ output \in AfterHeader(sent)
       /\ \/ sendFailed
          \/ /\ filename \in DOMAIN Files
             /\ HeaderEndsAgain(Files[filename]) \/ output = Files[filename]
  /\ result = 1 => sendFailed \/ filename \notin DOMAIN Files

==============================================================================
