----------------------------- MODULE HttpProofs -----------------------------
(***************************************************************************)
(* Proofs about one request of mp1: what the client has received and what  *)
(* is still on its way make up what the server has sent, however recv cuts *)
(* it, and the name that the server finds is of the path.                  *)
(***************************************************************************)
EXTENDS HttpTransfer, ProofLemmas

------------------------------------------------------------------------------
(* The inductive invariant *)

(* The connection is accepted once, and its child forked once. *)
ForkedOnce ==
  /\ server.new_fd = Mine => Mine \notin waiting
  /\ srvPc # "none" => Mine \notin waiting /\ ~(server.pc = "fork" /\ server.new_fd = Mine)

(* Until the child receives, all that the client sent is on its way, and the child
   has found and sent nothing. *)
RequestInv ==
  srvPc \in {"none", "recv"} =>
    /\ \A i \in 1 .. Len(toServer) : toServer[i] = Memory(i)
    /\ cliPc = "send" => Len(toServer) = bytes_sent
    /\ filename = <<>> /\ readSoFar = 0
    /\ sent = <<>> /\ ~sendFailed

(* What the child has to send after an answer. *)
Stream(code) ==
  CASE code = "none" -> <<>>
    [] code = "200" -> Response("200") \o SubSeq(Files[filename], 1, readSoFar)
    [] code \in {"400", "404"} -> Response(code)

(* What an answer says about the server. *)
Answered(code) ==
  /\ srvPc \in {"none", "recv"} => code = "none"
  /\ srvPc = "serve" => code = "200"
  /\ code = "200" =>
       /\ filename \in DOMAIN Files /\ readSoFar \in 0 .. Len(Files[filename])
       /\ srvPc = "end" /\ cliPc # "end" => readSoFar = Len(Files[filename])
  /\ code = "404" => filename \notin DOMAIN Files

(* What the client has received is followed by what is on its way; together this is
   all that was to be sent, if no send failed. *)
Sends(got, code) == sent = got \o toClient /\ (sendFailed \/ sent = Stream(code))

(* Where the client keeps what it has received. *)
Keeps(got, code) ==
  /\ cliPc \in {"send", "first"} => got = <<>>
  /\ cliPc = "code" => got = buf
  /\ cliPc \in {"scan", "more", "body"} => sendFailed \/ code = "200"
  /\ cliPc = "scan" => \E before \in Seq(Symbols) : got = before \o buf
  /\ cliPc = "body" => \E before \in Seq(Symbols) : got = (before \o CRLFCRLF) \o output

StreamInv ==
  \E code \in {"none", "200", "400", "404"} : \E got \in Seq(Symbols) :
    Answered(code) /\ Sends(got, code) /\ Keeps(got, code)

(* What has been written and reported. *)
OutcomeInv ==
  /\ srvPc \in {"none", "recv"} => output = <<>> /\ result \notin {0, 1}
  /\ cliPc # "end" => result = NoResult
  /\ cliPc \notin {"body", "end"} => output = <<>>
  /\ OutputIsPrefix /\ ResultIsRight

IInv ==
  /\ TypeOK
  /\ ForkedOnce
  /\ RequestInv /\ StartOf(filename, path)
  /\ StreamInv
  /\ OutcomeInv
------------------------------------------------------------------------------
(* Pieces of a stream *)

(* A piece and what remains make up the stream; nothing is received only at the
   end of a closed stream. *)
LEMMA PieceOf ==
  ASSUME NEW stream \in Seq(Symbols), NEW most \in Nat, NEW closed \in BOOLEAN,
         NEW piece \in Pieces(stream, most, closed)
  PROVE  /\ piece \in Seq(Symbols) /\ Len(piece) <= most
         /\ Len(piece) \in 0 .. Len(stream)
         /\ \A i \in 1 .. Len(piece) : piece[i] = stream[i]
         /\ Rest(stream, piece) \in Seq(Symbols)
         /\ stream = piece \o Rest(stream, piece)
         /\ piece = << >> => closed /\ stream = << >>
  <1> DEFINE len == Len(stream)
  <1>1. len \in Nat
    BY LenProperties
  <1>2. CASE \E n \in 1 .. Smaller(most, len) : piece = SubSeq(stream, 1, n)
    <2>1. PICK n \in 1 .. Smaller(most, len) : piece = SubSeq(stream, 1, n)
      BY <1>2
    <2>2. n \in 0 .. len /\ n <= most /\ n > 0 /\ 0 \in 0 .. len /\ len \in n .. len
          /\ n \in 0 .. n
      BY <1>1 DEF Smaller
    <2>3. piece \in Seq(Symbols) /\ Len(piece) = n
      BY <2>1, <2>2, FirstPart
    <2>4. \A i \in 1 .. n : piece[i] = stream[i]
      <3>1. 0 + 1 = 1 /\ n - 0 = n /\ \A i \in 1 .. n : 0 + i = i
        BY <2>2
      <3>2. \A i \in 1 .. n - 0 : SubSeq(stream, 0 + 1, n)[i] = stream[0 + i]
        BY <2>2, PartOfSeq
      <3> QED
        BY <2>1, <3>1, <3>2
    <2>5. SubSeq(stream, n + 1, len) \in Seq(Symbols)
      BY <2>2, PartOfSeq
    <2>6. SubSeq(stream, 1, n) \o SubSeq(stream, n + 1, len) = SubSeq(stream, 1, len)
      BY <2>2, PartsMeet
    <2>7. SubSeq(stream, 1, len) = stream
      BY SubSeqFull
    <2>8. Rest(stream, piece) = SubSeq(stream, n + 1, len)
      BY <2>3 DEF Rest
    <2>9. piece # << >>
      BY <2>2, <2>3
    <2> QED
      BY <2>1, <2>2, <2>3, <2>4, <2>5, <2>6, <2>7, <2>8, <2>9
  <1>3. CASE piece = << >> /\ closed /\ stream = << >>
    <2>1. Len(piece) = 0 /\ len = 0 /\ piece \in Seq(Symbols)
      BY <1>3
    <2>2. Rest(stream, piece) = << >>
      <3>1. Len(piece) + 1 \in Int /\ len \in Int /\ len < Len(piece) + 1
        BY <2>1
      <3> QED
        BY <3>1, SubSeqEmpty DEF Rest
    <2>3. << >> \o << >> = << >>
      BY ConcatEmptySeq, EmptySeq
    <2>4. stream = piece \o Rest(stream, piece)
      BY <1>3, <2>2, <2>3
    <2>5. Rest(stream, piece) \in Seq(Symbols)
      BY <2>1, <2>2, <1>3
    <2>6. Len(piece) <= most /\ Len(piece) \in 0 .. Len(stream)
      BY <2>1
    <2>7. \A i \in 1 .. Len(piece) : piece[i] = stream[i]
      BY <1>3
    <2> QED
      BY <1>3, <2>1, <2>4, <2>5, <2>6, <2>7
  <1> QED
    BY <1>2, <1>3 DEF Pieces

(* The request begins with four symbols and the path, after which comes a blank. *)
LEMMA RequestIs ==
  /\ request \in Seq(Symbols) /\ Len(path) \in Nat
  /\ Len(request) \in Nat /\ Len(request) >= 5 + Len(path)
  /\ \A i \in 1 .. Len(path) : request[4 + i] = path[i]
  /\ request[5 + Len(path)] = " "
  /\ request[1] = "GE" /\ request[2] = "T" /\ request[3] = " " /\ request[4] = "/"
  <1> DEFINE a == <<"GE", "T", " ", "/">>
             z == <<" ">>
             b == a \o path
             c == b \o z
             n == Len(path)
  <1>1. a \in Seq(Symbols) /\ z \in Seq(Symbols)
    <2>1. "GE" \in Symbols /\ "T" \in Symbols /\ " " \in Symbols /\ "/" \in Symbols
      BY SymbolsAssumption
    <2>2. a \in Seq(Symbols)
      BY <2>1, SeqOfFour
    <2>3. z \in Seq(Symbols)
      BY <2>1, SeqOfOne
    <2> QED
      BY <2>2, <2>3
  <1>2. /\ Len(a) = 4 /\ a[1] = "GE" /\ a[2] = "T" /\ a[3] = " " /\ a[4] = "/"
        /\ Len(z) = 1 /\ z[1] = " "
    OBVIOUS
  <1>3. path \in Seq(Symbols) /\ headers \in Seq(Symbols)
    BY PathAssumption, HeadersAssumption
  <1>4. n \in Nat
    BY <1>3, LenProperties
  <1>5. request = c \o headers
    BY DEF request
  <1> HIDE DEF a, z
  <1>6. /\ b \in Seq(Symbols) /\ Len(b) = Len(a) + n
        /\ \A i \in 1 .. Len(a) : b[i] = a[i]
        /\ \A i \in 1 .. n : b[Len(a) + i] = path[i]
    BY <1>1, <1>3, Joined
  <1> HIDE DEF b, n
  <1>7. /\ c \in Seq(Symbols) /\ Len(c) = Len(b) + Len(z)
        /\ \A i \in 1 .. Len(b) : c[i] = b[i]
        /\ \A i \in 1 .. Len(z) : c[Len(b) + i] = z[i]
    <2>1. b \in Seq(Symbols) /\ z \in Seq(Symbols)
      BY <1>1, <1>6
    <2> QED
      BY <2>1, Joined
  <1> HIDE DEF c
  <1>8. /\ request \in Seq(Symbols) /\ Len(headers) \in Nat
        /\ Len(request) = Len(c) + Len(headers)
        /\ \A i \in 1 .. Len(c) : request[i] = c[i]
    <2>1. c \in Seq(Symbols) /\ headers \in Seq(Symbols)
      BY <1>3, <1>7
    <2>2. /\ c \o headers \in Seq(Symbols) /\ Len(headers) \in Nat
          /\ Len(c \o headers) = Len(c) + Len(headers)
          /\ \A i \in 1 .. Len(c) : (c \o headers)[i] = c[i]
      BY <2>1, Joined
    <2> QED
      BY <1>5, <2>2, Zenon
  <1>9. Len(b) = 4 + n /\ Len(c) = 5 + n
    <2>1. Len(b) = Len(a) + n /\ Len(c) = Len(b) + Len(z) /\ Len(a) = 4 /\ Len(z) = 1
      BY <1>2, <1>6, <1>7
    <2> QED
      BY <1>4, <2>1
  <1>10. /\ \A i \in 1 .. 4 : b[i] = a[i]
         /\ \A i \in 1 .. n : b[4 + i] = path[i]
    BY <1>2, <1>6
  <1>11. \A i \in 1 .. 4 + n : i \in 1 .. 5 + n /\ request[i] = b[i]
    <2>1. \A i \in 1 .. 4 + n : i \in 1 .. 5 + n
      BY <1>4
    <2> QED
      BY <1>7, <1>8, <1>9, <2>1
  <1>12. \A i \in 1 .. n : request[4 + i] = path[i]
    <2>1. \A i \in 1 .. n : 4 + i \in 1 .. 4 + n
      BY <1>4
    <2> QED
      BY <1>10, <1>11, <2>1
  <1>13. request[5 + n] = " "
    <2>1. 5 + n \in 1 .. 5 + n /\ 5 + n = (4 + n) + 1 /\ 1 \in 1 .. 1
      BY <1>4
    <2>2. c[(4 + n) + 1] = z[1]
      BY <1>2, <1>7, <1>9, <2>1
    <2> QED
      BY <1>2, <1>8, <1>9, <2>1, <2>2
  <1>14. \A i \in 1 .. 4 : i \in 1 .. 4 + n
    BY <1>4
  <1>15. \A i \in 1 .. 4 : request[i] = a[i]
    BY <1>10, <1>11, <1>14
  <1>16. request[1] = "GE" /\ request[2] = "T" /\ request[3] = " " /\ request[4] = "/"
    <2>1. 1 \in 1 .. 4 /\ 2 \in 1 .. 4 /\ 3 \in 1 .. 4 /\ 4 \in 1 .. 4
      OBVIOUS
    <2> QED
      BY <1>2, <1>15, <2>1
  <1>17. Len(request) \in Nat /\ Len(request) >= 5 + n
    BY <1>4, <1>8, <1>9
  <1> QED
    BY <1>4, <1>8, <1>12, <1>13, <1>16, <1>17 DEF n

(* The name in a first part of what is sent is a first part of the path. *)
LEMMA NameOfPath ==
  ASSUME NEW piece \in Seq(Symbols), Len(piece) >= 4,
         \A i \in 1 .. Len(piece) : piece[i] = Memory(i)
  PROVE  NameIn(piece) \in Seq(Symbols) /\ StartOf(NameIn(piece), path)
  <1> DEFINE E == PathEnds(piece)
             n == Len(path)
             len == Len(piece)
             to == IF E = {} THEN len ELSE Least(E) - 1
  <1>1. len \in Nat /\ n \in Nat /\ path \in Seq(Symbols) /\ len >= 4
    <2>1. n \in Nat /\ path \in Seq(Symbols)
      BY RequestIs, PathAssumption
    <2> QED
      BY <2>1, LenProperties
  <1>2. E = {i \in 4 .. len : piece[i] \in {" ", Zero}}
    BY DEF PathEnds
  <1>3. NameIn(piece) = SubSeq(piece, 5, to)
    <2>1. CASE E = {}
      BY <2>1 DEF NameIn
    <2>2. CASE E # {}
      <3>1. Least(E) = CHOOSE i \in E : \A j \in E : i <= j
        BY DEF Least
      <3>2. NameIn(piece) = SubSeq(piece, 5, (CHOOSE i \in E : \A j \in E : i <= j) - 1)
        BY <2>2 DEF NameIn
      <3>3. NameIn(piece) = SubSeq(piece, 5, Least(E) - 1)
        BY <3>1, <3>2, Zenon
      <3> QED
        BY <2>2, <3>3
    <2> QED
      BY <2>1, <2>2
  <1>4. 4 \notin E
    <2>1. Len(request) \in Nat /\ 4 <= Len(request) /\ request[4] = "/"
      <3>1. Len(path) \in Nat /\ Len(request) \in Nat /\ Len(request) >= 5 + Len(path)
            /\ request[4] = "/"
        BY RequestIs
      <3> QED
        BY <3>1
    <2>2. Memory(4) = "/"
      BY <2>1 DEF Memory
    <2>3. 4 \in 1 .. Len(piece)
      BY <1>1
    <2>4. piece[4] = "/"
      BY <2>2, <2>3
    <2> QED
      BY <1>2, <2>4 DEF Zero
  <1> HIDE DEF E
  <1>5. E \in SUBSET Nat
    <2>1. \A i \in E : i \in 4 .. len
      BY <1>2
    <2>2. \A i \in 4 .. len : i \in Nat
      BY <1>1
    <2> QED
      BY <2>1, <2>2
  <1>6. len >= 5 + n => 5 + n \in E
    <2> SUFFICES ASSUME len >= 5 + n
                 PROVE  5 + n \in E
      OBVIOUS
    <2>1. 5 + n \in 4 .. len /\ 5 + n \in 1 .. len
      BY <1>1
    <2>2. Memory(5 + n) = " "
      BY <1>1, RequestIs DEF Memory
    <2>3. piece[5 + n] = " "
      BY <2>1, <2>2
    <2> QED
      BY <1>2, <2>1, <2>3
  <1>7. to \in 4 .. len /\ to <= 4 + n
    <2>1. CASE E = {}
      BY <1>1, <1>6, <2>1
    <2>2. CASE E # {}
      <3>1. Least(E) \in E /\ Least(E) \in Nat /\ \A j \in E : Least(E) <= j
        BY <1>5, <2>2, LeastIsMember
      <3>2. Least(E) \in 4 .. len /\ Least(E) # 4
        BY <1>2, <1>4, <3>1
      <3>3. len >= 5 + n => Least(E) <= 5 + n
        BY <1>6, <3>1
      <3>4. to = Least(E) - 1
        BY <2>2
      <3> QED
        BY <1>1, <3>1, <3>2, <3>3, <3>4
    <2> QED
      BY <2>1, <2>2
  <1> HIDE DEF to
  <1> DEFINE k == to - 4
  <1>8. k \in Nat /\ k <= n /\ 4 + k = to /\ 4 \in 0 .. len /\ to \in 4 .. len /\ 4 + 1 = 5
        /\ k \in 0 .. n
    BY <1>1, <1>7
  <1>9. SubSeq(piece, 5, to) \in Seq(Symbols) /\ Len(SubSeq(piece, 5, to)) = k
        /\ \A i \in 1 .. k : SubSeq(piece, 5, to)[i] = piece[4 + i]
    <2>1. SubSeq(piece, 4 + 1, to) \in Seq(Symbols) /\ Len(SubSeq(piece, 4 + 1, to)) = to - 4
          /\ \A i \in 1 .. to - 4 : SubSeq(piece, 4 + 1, to)[i] = piece[4 + i]
      BY <1>8, PartOfSeq
    <2> QED
      BY <1>8, <2>1
  <1>10. SubSeq(path, 1, k) \in Seq(Symbols) /\ Len(SubSeq(path, 1, k)) = k
         /\ \A i \in 1 .. k : SubSeq(path, 1, k)[i] = path[i]
    <2>1. 0 \in 0 .. n /\ k \in 0 .. n /\ 0 + 1 = 1 /\ k - 0 = k /\ \A i \in 1 .. k : 0 + i = i
      BY <1>1, <1>8
    <2>2. SubSeq(path, 0 + 1, k) \in Seq(Symbols) /\ Len(SubSeq(path, 0 + 1, k)) = k - 0
          /\ \A i \in 1 .. k - 0 : SubSeq(path, 0 + 1, k)[i] = path[0 + i]
      BY <1>1, <2>1, PartOfSeq
    <2> QED
      BY <2>1, <2>2
  <1>11. \A i \in 1 .. k : piece[4 + i] = path[i]
    <2> SUFFICES ASSUME NEW i \in 1 .. k
                 PROVE  piece[4 + i] = path[i]
      OBVIOUS
    <2>1. Len(request) \in Nat /\ Len(request) >= 5 + n /\ request[4 + i] = path[i]
      <3>1. i \in 1 .. Len(path)
        BY <1>1, <1>8
      <3> QED
        BY <3>1, RequestIs
    <2>2. 4 + i \in 1 .. Len(piece) /\ 4 + i <= Len(request)
      BY <1>1, <1>8, <2>1
    <2>3. piece[4 + i] = Memory(4 + i)
      BY <2>2
    <2> QED
      BY <2>1, <2>2, <2>3 DEF Memory
  <1> HIDE DEF k
  <1>12. SubSeq(piece, 5, to) = SubSeq(path, 1, k)
    BY <1>9, <1>10, <1>11, SeqEqual
  <1> QED
    BY <1>3, <1>8, <1>9, <1>12 DEF StartOf

(* An answer: three symbols and the end of the header. *)
LEMMA ResponseIs ==
  ASSUME NEW code \in {"200", "400", "404"}
  PROVE  /\ CRLFCRLF \in Seq(Symbols) /\ Len(CRLFCRLF) = 4 /\ CRLFCRLF[1] = "\r"
         /\ Response(code) \in Seq(Symbols) /\ Len(Response(code)) = 7
         /\ Response(code)[1] = "HTTP" /\ Response(code)[2] = code
         /\ Response(code)[3] = "text"
         /\ \A i \in 1 .. 4 : Response(code)[3 + i] = CRLFCRLF[i]
  <1> DEFINE h == <<"HTTP", code, "text">>
             z == CRLFCRLF
             r == h \o z
  <1>1. "HTTP" \in Symbols /\ code \in Symbols /\ "text" \in Symbols
        /\ "\r" \in Symbols /\ "\n" \in Symbols
    BY SymbolsAssumption
  <1>2. h \in Seq(Symbols) /\ Len(h) = 3 /\ h[1] = "HTTP" /\ h[2] = code /\ h[3] = "text"
    BY <1>1, SeqOfThree
  <1>3. z \in Seq(Symbols) /\ Len(z) = 4 /\ z[1] = "\r"
    BY <1>1, SeqOfFour DEF CRLFCRLF
  <1>4. Response(code) = r
    BY DEF Response
  <1> HIDE DEF h, z
  <1>5. /\ r \in Seq(Symbols) /\ Len(r) = Len(h) + Len(z)
        /\ \A i \in 1 .. Len(h) : r[i] = h[i]
        /\ \A i \in 1 .. Len(z) : r[Len(h) + i] = z[i]
    <2>1. h \in Seq(Symbols) /\ z \in Seq(Symbols)
      BY <1>2, <1>3
    <2> QED
      BY <2>1, Joined
  <1> HIDE DEF r
  <1>6. Len(r) = 7
    <2>1. Len(r) = Len(h) + Len(z) /\ Len(h) = 3 /\ Len(z) = 4
      BY <1>2, <1>3, <1>5
    <2> QED
      BY <2>1
  <1>7. r[1] = "HTTP" /\ r[2] = code /\ r[3] = "text"
    <2>1. 1 \in 1 .. 3 /\ 2 \in 1 .. 3 /\ 3 \in 1 .. 3
      OBVIOUS
    <2>2. \A i \in 1 .. 3 : r[i] = h[i]
      BY <1>2, <1>5
    <2> QED
      BY <1>2, <2>1, <2>2
  <1>8. \A i \in 1 .. 4 : r[3 + i] = z[i]
    BY <1>2, <1>3, <1>5
  <1> QED
    BY <1>3, <1>4, <1>5, <1>6, <1>7, <1>8 DEF z

(* What was sent after an answer: its header, and the file from its start. *)
LEMMA StreamIs ==
  ASSUME NEW f \in Seq(Symbols), NEW k \in 0 .. Len(f)
  PROVE  LET left == Response("200") \o SubSeq(f, 1, k)
         IN  /\ left \in Seq(Symbols) /\ Len(left) = 7 + k
             /\ left[1] = "HTTP" /\ left[2] = "200" /\ left[3] = "text"
             /\ \A i \in 1 .. 4 : left[3 + i] = CRLFCRLF[i]
             /\ \A i \in 1 .. k : left[7 + i] = f[i]
  <1> DEFINE r == Response("200")
             g == SubSeq(f, 1, k)
             left == r \o g
  <1>1. /\ r \in Seq(Symbols) /\ Len(r) = 7
        /\ r[1] = "HTTP" /\ r[2] = "200" /\ r[3] = "text"
        /\ \A i \in 1 .. 4 : r[3 + i] = CRLFCRLF[i]
    <2>1. "200" \in {"200", "400", "404"}
      OBVIOUS
    <2> QED
      BY <2>1, ResponseIs
  <1>2. g \in Seq(Symbols) /\ Len(g) = k /\ k \in Nat
    <2>1. Len(f) \in Nat
      BY LenProperties
    <2> QED
      BY <2>1, FirstPart
  <1>3. \A i \in 1 .. k : g[i] = f[i]
    BY <1>2
  <1> HIDE DEF r, g
  <1>4. /\ left \in Seq(Symbols) /\ Len(left) = Len(r) + Len(g)
        /\ \A i \in 1 .. Len(r) : left[i] = r[i]
        /\ \A i \in 1 .. Len(g) : left[Len(r) + i] = g[i]
    <2>1. r \in Seq(Symbols) /\ g \in Seq(Symbols)
      BY <1>1, <1>2
    <2> QED
      BY <2>1, Joined
  <1> HIDE DEF left
  <1>5. \A i \in 1 .. 7 : left[i] = r[i]
    BY <1>1, <1>4
  <1>6. \A i \in 1 .. k : left[7 + i] = f[i]
    BY <1>1, <1>2, <1>3, <1>4
  <1>7. Len(left) = 7 + k
    <2>1. Len(left) = Len(r) + Len(g) /\ Len(r) = 7 /\ Len(g) = k
      BY <1>1, <1>2, <1>4
    <2> QED
      BY <2>1
  <1>8. left[1] = "HTTP" /\ left[2] = "200" /\ left[3] = "text"
    <2>1. 1 \in 1 .. 7 /\ 2 \in 1 .. 7 /\ 3 \in 1 .. 7
      OBVIOUS
    <2> QED
      BY <1>1, <1>5, <2>1
  <1>9. \A i \in 1 .. 4 : left[3 + i] = CRLFCRLF[i]
    <2>1. \A i \in 1 .. 4 : 3 + i \in 1 .. 7
      OBVIOUS
    <2> QED
      BY <1>1, <1>5, <2>1
  <1> QED
    BY <1>4, <1>6, <1>7, <1>8, <1>9 DEF left, r, g

(* What is taken for the body is of the file from its start, if the bytes that end
   a header do not come again. *)
LEMMA BodyIsOfFile ==
  ASSUME NEW f \in Seq(Symbols), NEW k \in 0 .. Len(f),
         NEW before \in Seq(Symbols), NEW out \in Seq(Symbols), NEW rest \in Seq(Symbols),
         Response("200") \o SubSeq(f, 1, k) = ((before \o CRLFCRLF) \o out) \o rest
  PROVE  \/ HeaderEndsAgain(f)
         \/ StartOf(out, f) /\ (rest = << >> /\ k = Len(f) => out = f)
  <1> DEFINE z == CRLFCRLF
             left == Response("200") \o SubSeq(f, 1, k)
             c == before \o z
             d == c \o out
             right == d \o rest
             b == Len(before)
             o == Len(out)
             n == Len(f)
  <1>1. n \in Nat /\ b \in Nat /\ o \in Nat /\ Len(rest) \in Nat /\ k \in Nat /\ k <= n
    BY LenProperties
  <1>2. z \in Seq(Symbols) /\ Len(z) = 4 /\ z[1] = "\r"
    <2>1. "200" \in {"200", "400", "404"}
      OBVIOUS
    <2> QED
      BY <2>1, ResponseIs
  <1>3. /\ left \in Seq(Symbols) /\ Len(left) = 7 + k
        /\ left[1] = "HTTP" /\ left[2] = "200" /\ left[3] = "text"
        /\ \A i \in 1 .. 4 : left[3 + i] = z[i]
        /\ \A i \in 1 .. k : left[7 + i] = f[i]
    BY StreamIs
  <1>4. left = right
    OBVIOUS
  <1> HIDE DEF z, left
  <1>5. /\ c \in Seq(Symbols) /\ Len(c) = b + Len(z)
        /\ \A i \in 1 .. Len(z) : c[b + i] = z[i]
    <2>1. z \in Seq(Symbols)
      BY <1>2
    <2> QED
      BY <2>1, Joined
  <1> HIDE DEF c
  <1>6. /\ d \in Seq(Symbols) /\ Len(d) = Len(c) + o
        /\ \A i \in 1 .. Len(c) : d[i] = c[i]
        /\ \A i \in 1 .. o : d[Len(c) + i] = out[i]
    <2>1. c \in Seq(Symbols)
      BY <1>5
    <2> QED
      BY <2>1, Joined
  <1> HIDE DEF d
  <1>7. /\ Len(right) = Len(d) + Len(rest)
        /\ \A i \in 1 .. Len(d) : right[i] = d[i]
    <2>1. d \in Seq(Symbols)
      BY <1>6
    <2> QED
      BY <2>1, Joined
  <1> HIDE DEF right, b, o, n
  <1>8. Len(c) = b + 4 /\ Len(d) = b + 4 + o /\ 7 + k = b + 4 + o + Len(rest)
    <2>1. /\ Len(c) = b + Len(z) /\ Len(z) = 4 /\ Len(d) = Len(c) + o
          /\ Len(right) = Len(d) + Len(rest) /\ Len(right) = 7 + k
      BY <1>2, <1>3, <1>4, <1>5, <1>6, <1>7
    <2> QED
      BY <1>1, <2>1
  <1>9. \A i \in 1 .. b + 4 : left[i] = c[i]
    <2>1. \A i \in 1 .. b + 4 : i \in 1 .. b + 4 + o
      BY <1>1
    <2> QED
      BY <1>4, <1>6, <1>7, <1>8, <2>1
  <1>10. \A i \in 1 .. 4 : left[b + i] = z[i]
    <2>1. \A i \in 1 .. 4 : b + i \in 1 .. b + 4
      BY <1>1
    <2> QED
      BY <1>2, <1>5, <1>9, <2>1
  <1>11. \A i \in 1 .. o : left[(b + 4) + i] = out[i]
    <2>1. \A i \in 1 .. o : (b + 4) + i \in 1 .. b + 4 + o
      BY <1>1
    <2> QED
      BY <1>4, <1>6, <1>7, <1>8, <2>1
  <1>12. b >= 3
    <2>1. left[b + 1] = "\r"
      <3>1. 1 \in 1 .. 4
        OBVIOUS
      <3> QED
        BY <1>2, <1>10, <3>1
    <2>2. b # 0 /\ b # 1 /\ b # 2
      <3>1. 0 + 1 = 1 /\ 1 + 1 = 2 /\ 2 + 1 = 3
        OBVIOUS
      <3> QED
        BY <1>3, <2>1, <3>1
    <2> QED
      BY <1>1, <2>2
  <1>13. CASE b = 3
    <2>1. o \in 0 .. n /\ o <= k /\ b + 4 = 7 /\ \A i \in 1 .. o : i \in 1 .. k
      BY <1>1, <1>8, <1>13
    <2>2. \A i \in 1 .. o : out[i] = f[i]
      <3>1. ASSUME NEW i \in 1 .. o
            PROVE  out[i] = f[i]
        <4>1. left[7 + i] = out[i]
          BY <1>11, <2>1
        <4>2. left[7 + i] = f[i]
          BY <1>3, <2>1
        <4> QED
          BY <4>1, <4>2
      <3> QED
        BY <3>1
    <2>3. out = SubSeq(f, 1, o)
      <3>1. SubSeq(f, 1, o) \in Seq(Symbols) /\ Len(SubSeq(f, 1, o)) = o
        BY <2>1, FirstPart DEF n
      <3>2. \A i \in 1 .. o : SubSeq(f, 1, o)[i] = f[i]
        BY <1>1, <2>1, <3>1 DEF n
      <3> QED
        BY <2>2, <3>1, <3>2, SeqEqual DEF o
    <2>4. rest = << >> /\ k = n => out = f
      <3> SUFFICES ASSUME rest = << >>, k = n
                   PROVE  out = f
        OBVIOUS
      <3>1. Len(rest) = 0
        OBVIOUS
      <3>2. o = n
        BY <1>1, <1>8, <1>13, <3>1
      <3> QED
        BY <2>3, <3>2, SubSeqFull DEF n
    <2> QED
      BY <2>1, <2>3, <2>4 DEF StartOf, o, n
  <1>14. CASE b > 3
    <2> DEFINE y == z \o f
               j == b - 2
    <2>1. /\ y \in Seq(Symbols) /\ Len(y) = Len(z) + n
          /\ \A i \in 1 .. Len(z) : y[i] = z[i]
          /\ \A i \in 1 .. n : y[Len(z) + i] = f[i]
      <3>1. z \in Seq(Symbols)
        BY <1>2
      <3> QED
        BY <3>1, Joined, SMTT(30) DEF n
    <2> HIDE DEF y
    <2>2. Len(y) = 4 + n
      <3>1. Len(y) = Len(z) + n /\ Len(z) = 4
        BY <1>2, <2>1
      <3> QED
        BY <3>1
    <2>3. j \in 2 .. n + 1 /\ j + 3 = b + 1 /\ b + 1 <= k + 4
      BY <1>1, <1>8, <1>14
    <2>4. \A i \in 1 .. k + 4 : y[i] = left[3 + i]
      <3> SUFFICES ASSUME NEW i \in 1 .. k + 4
                   PROVE  y[i] = left[3 + i]
        OBVIOUS
      <3>1. CASE i <= 4
        <4>1. i \in 1 .. 4
          BY <1>1, <3>1
        <4> QED
          BY <1>2, <1>3, <2>1, <4>1
      <3>2. CASE ~(i <= 4)
        <4>1. i - 4 \in 1 .. k /\ i - 4 \in 1 .. n /\ 4 + (i - 4) = i /\ 7 + (i - 4) = 3 + i
          BY <1>1, <3>2
        <4>2. y[4 + (i - 4)] = f[i - 4]
          BY <1>2, <2>1, <4>1
        <4>3. left[7 + (i - 4)] = f[i - 4]
          BY <1>3, <4>1
        <4> QED
          BY <4>1, <4>2, <4>3
      <3> QED
        BY <3>1, <3>2
    <2> DEFINE w == SubSeq(y, j, j + 3)
    <2>5. w \in Seq(Symbols) /\ Len(w) = 4 /\ \A i \in 1 .. 4 : w[i] = y[(j - 1) + i]
      <3> DEFINE l == j - 1
                 m == j + 3
      <3>1. l \in 0 .. Len(y) /\ m \in l .. Len(y) /\ l + 1 = j /\ m - l = 4
        BY <1>1, <2>2, <2>3
      <3>2. /\ SubSeq(y, l + 1, m) \in Seq(Symbols) /\ Len(SubSeq(y, l + 1, m)) = m - l
            /\ \A i \in 1 .. m - l : SubSeq(y, l + 1, m)[i] = y[l + i]
        <4> HIDE DEF l, m, j
        <4> QED
          BY <2>1, <3>1, PartOfSeq
      <3> HIDE DEF l, m, j
      <3> QED
        BY <3>1, <3>2 DEF l, m
    <2>6. \A i \in 1 .. 4 : w[i] = z[i]
      <3> SUFFICES ASSUME NEW i \in 1 .. 4
                   PROVE  w[i] = z[i]
        OBVIOUS
      <3>1. (j - 1) + i \in 1 .. k + 4 /\ 3 + ((j - 1) + i) = b + i
        BY <1>1, <1>8, <1>14
      <3> HIDE DEF w, j
      <3>2. w[i] = left[3 + ((j - 1) + i)]
        BY <2>4, <2>5, <3>1
      <3> QED
        BY <1>10, <3>1, <3>2
    <2>7. w = z
      <3> HIDE DEF w
      <3> QED
        BY <1>2, <2>5, <2>6, SeqEqual
    <2> HIDE DEF j
    <2>8. \E i \in 2 .. n + 1 : SubSeq(y, i, i + 3) = z
      BY <2>3, <2>7
    <2> QED
      BY <2>8 DEF HeaderEndsAgain, y, z, n
  <1> QED
    BY <1>1, <1>12, <1>13, <1>14

(* The end of a header in a piece divides it. *)
LEMMA HeaderDivides ==
  ASSUME NEW piece \in Seq(Symbols), NEW end \in 4 .. Len(piece),
         SubSeq(piece, end - 3, end) = CRLFCRLF
  PROVE  \E x \in Seq(Symbols) :
           /\ SubSeq(piece, end + 1, Len(piece)) \in Seq(Symbols)
           /\ piece = (x \o CRLFCRLF) \o SubSeq(piece, end + 1, Len(piece))
  <1> DEFINE a == end - 4
             len == Len(piece)
             x == SubSeq(piece, 1, a)
  <1>1. /\ len \in Nat /\ a \in 0 .. len /\ end \in a .. len /\ a + 1 = end - 3
        /\ end \in 0 .. len /\ len \in end .. len
    <2>1. len \in Nat
      BY LenProperties
    <2> QED
      BY <2>1
  <1>2. x \in Seq(Symbols)
    BY <1>1, FirstPart
  <1>3. SubSeq(piece, end + 1, len) \in Seq(Symbols)
    BY <1>1, PartOfSeq
  <1>4. SubSeq(piece, 1, a) \o SubSeq(piece, a + 1, end) = SubSeq(piece, 1, end)
    <2> HIDE DEF a
    <2> QED
      BY <1>1, PartsMeet
  <1>5. SubSeq(piece, 1, end) \o SubSeq(piece, end + 1, len) = SubSeq(piece, 1, len)
    BY <1>1, PartsMeet
  <1>6. SubSeq(piece, 1, len) = piece
    BY SubSeqFull
  <1>7. SubSeq(piece, a + 1, end) = CRLFCRLF
    BY <1>1
  <1> HIDE DEF x, a, len
  <1>8. x \o CRLFCRLF = SubSeq(piece, 1, end)
    BY <1>4, <1>7, Zenon DEF x
  <1>9. piece = (x \o CRLFCRLF) \o SubSeq(piece, end + 1, len)
    BY <1>5, <1>6, <1>8, Zenon
  <1> QED
    BY <1>2, <1>3, <1>9, Zenon DEF len

(* Two sequences that are joined can be cut again. *)
LEMMA JoinedIsCut ==
  ASSUME NEW s \in Seq(Symbols), NEW t \in Seq(Symbols)
  PROVE  /\ SubSeq(s \o t, 1, Len(s)) = s
         /\ SubSeq(s \o t, Len(s) + 1, Len(s \o t)) = t
  <1> DEFINE all == s \o t
             a == Len(s)
             b == Len(t)
             n == Len(all)
  <1>1. /\ all \in Seq(Symbols) /\ a \in Nat /\ b \in Nat /\ n = a + b
        /\ \A i \in 1 .. a : all[i] = s[i]
        /\ \A i \in 1 .. b : all[a + i] = t[i]
    BY Joined
  <1>2. 0 \in 0 .. n /\ a \in 0 .. n /\ n \in a .. n /\ n - a = b /\ a - 0 = a /\ 0 + 1 = 1
        /\ \A i \in 1 .. a : 0 + i = i
    BY <1>1
  <1> HIDE DEF all, n
  <1>3. SubSeq(all, 1, a) = s
    <2>1. /\ SubSeq(all, 0 + 1, a) \in Seq(Symbols) /\ Len(SubSeq(all, 0 + 1, a)) = a - 0
          /\ \A i \in 1 .. a - 0 : SubSeq(all, 0 + 1, a)[i] = all[0 + i]
      BY <1>1, <1>2, PartOfSeq DEF n
    <2>2. /\ SubSeq(all, 1, a) \in Seq(Symbols) /\ Len(SubSeq(all, 1, a)) = a
          /\ \A i \in 1 .. a : SubSeq(all, 1, a)[i] = s[i]
      BY <1>1, <1>2, <2>1
    <2> QED
      BY <2>2, SeqEqual
  <1>4. SubSeq(all, a + 1, n) = t
    <2>1. /\ SubSeq(all, a + 1, n) \in Seq(Symbols) /\ Len(SubSeq(all, a + 1, n)) = n - a
          /\ \A i \in 1 .. n - a : SubSeq(all, a + 1, n)[i] = all[a + i]
      BY <1>1, <1>2, PartOfSeq DEF n
    <2>2. /\ Len(SubSeq(all, a + 1, n)) = b
          /\ \A i \in 1 .. b : SubSeq(all, a + 1, n)[i] = t[i]
      BY <1>1, <1>2, <2>1
    <2> QED
      BY <2>1, <2>2, SeqEqual
  <1> QED
    BY <1>3, <1>4 DEF all, n

(* Where the four bytes that end a header are. *)
LEMMA HeaderAt ==
  ASSUME NEW stream \in Seq(Symbols), NEW b \in Nat, NEW n \in 4 .. Len(stream), n = b + 4,
         \A i \in 1 .. 4 : stream[b + i] = CRLFCRLF[i]
  PROVE  SubSeq(stream, n - 3, n) = CRLFCRLF
  <1>1. CRLFCRLF \in Seq(Symbols) /\ Len(CRLFCRLF) = 4
    <2>1. "200" \in {"200", "400", "404"}
      OBVIOUS
    <2> QED
      BY <2>1, ResponseIs
  <1>2. b \in 0 .. Len(stream) /\ n \in b .. Len(stream) /\ n - b = 4 /\ n - 3 = b + 1
    <2>1. Len(stream) \in Nat
      BY LenProperties
    <2> QED
      BY <2>1
  <1>3. /\ SubSeq(stream, b + 1, n) \in Seq(Symbols) /\ Len(SubSeq(stream, b + 1, n)) = n - b
        /\ \A i \in 1 .. n - b : SubSeq(stream, b + 1, n)[i] = stream[b + i]
    BY <1>2, PartOfSeq
  <1>4. /\ Len(SubSeq(stream, b + 1, n)) = 4
        /\ \A i \in 1 .. 4 : SubSeq(stream, b + 1, n)[i] = CRLFCRLF[i]
    BY <1>2, <1>3
  <1>5. SubSeq(stream, b + 1, n) = CRLFCRLF
    BY <1>1, <1>3, <1>4, SeqEqual
  <1> QED
    BY <1>2, <1>5

(* What stands behind the end of a header was sent after one. *)
LEMMA SentAfterHeader ==
  ASSUME NEW before \in Seq(Symbols), NEW out \in Seq(Symbols), NEW rest \in Seq(Symbols),
         NEW all, all = ((before \o CRLFCRLF) \o out) \o rest
  PROVE  /\ \E body \in AfterHeader(all) : StartOf(out, body)
         /\ rest = << >> => out \in AfterHeader(all)
  <1> DEFINE z == CRLFCRLF
             c == before \o z
             tail == out \o rest
             b == Len(before)
             n == Len(c)
  <1>1. z \in Seq(Symbols) /\ Len(z) = 4 /\ b \in Nat
    <2>1. "200" \in {"200", "400", "404"}
      OBVIOUS
    <2> QED
      BY <2>1, ResponseIs, LenProperties
  <1> HIDE DEF z
  <1>2. /\ c \in Seq(Symbols) /\ n = b + 4
        /\ \A i \in 1 .. 4 : c[b + i] = z[i]
    <2>1. z \in Seq(Symbols)
      BY <1>1
    <2>2. /\ c \in Seq(Symbols) /\ Len(c) = Len(before) + Len(z)
          /\ \A i \in 1 .. Len(z) : c[Len(before) + i] = z[i]
      BY <2>1, Joined
    <2> QED
      BY <1>1, <2>2
  <1>3. all = (c \o out) \o rest
    BY DEF z
  <1> HIDE DEF c
  <1>4. all = c \o tail
    <2>1. c \in Seq(Symbols)
      BY <1>2
    <2>2. (c \o out) \o rest = c \o (out \o rest)
      BY <2>1, ConcatAssociative, SMTT(30)
    <2> QED
      BY <1>3, <2>2, Zenon
  <1>5. tail \in Seq(Symbols)
    BY Joined
  <1>6. SubSeq(tail, 1, Len(out)) = out /\ Len(out) <= Len(tail)
    <2>1. SubSeq(tail, 1, Len(out)) = out
      BY JoinedIsCut
    <2>2. Len(tail) = Len(out) + Len(rest) /\ Len(out) \in Nat /\ Len(rest) \in Nat
      BY Joined
    <2> QED
      BY <2>1, <2>2
  <1>7. rest = << >> => tail = out
    BY ConcatEmptySeq
  <1> HIDE DEF tail
  <1>8. /\ all \in Seq(Symbols) /\ Len(all) = n + Len(tail) /\ Len(tail) \in Nat
        /\ \A i \in 1 .. n : all[i] = c[i]
    <2>1. c \in Seq(Symbols) /\ tail \in Seq(Symbols)
      BY <1>2, <1>5
    <2>2. /\ c \o tail \in Seq(Symbols) /\ Len(c \o tail) = Len(c) + Len(tail)
          /\ Len(tail) \in Nat /\ \A i \in 1 .. Len(c) : (c \o tail)[i] = c[i]
      BY <2>1, Joined
    <2> QED
      BY <1>4, <2>2
  <1>9. SubSeq(all, n + 1, Len(all)) = tail
    <2>1. c \in Seq(Symbols) /\ tail \in Seq(Symbols)
      BY <1>2, <1>5
    <2>2. SubSeq(c \o tail, Len(c) + 1, Len(c \o tail)) = tail
      BY <2>1, JoinedIsCut
    <2> QED
      BY <1>4, <2>2
  <1> HIDE DEF n, b
  <1>10. n \in 4 .. Len(all) /\ n - 3 = b + 1
    BY <1>1, <1>2, <1>8
  <1>11. \A i \in 1 .. 4 : all[b + i] = z[i]
    <2>1. \A i \in 1 .. 4 : b + i \in 1 .. n
      BY <1>1, <1>2
    <2> QED
      BY <1>2, <1>8, <2>1
  <1>12. SubSeq(all, n - 3, n) = z
    BY <1>1, <1>2, <1>8, <1>10, <1>11, HeaderAt DEF z
  <1>13. tail \in AfterHeader(all)
    BY <1>9, <1>10, <1>12 DEF AfterHeader, z
  <1> QED
    BY <1>6, <1>7, <1>13 DEF StartOf

(* Four sequences that are joined can be taken two by two. *)
LEMMA FourJoined ==
  ASSUME NEW s \in Seq(Symbols), NEW t \in Seq(Symbols),
         NEW u \in Seq(Symbols), NEW v \in Seq(Symbols)
  PROVE  (s \o (t \o u)) \o v = (s \o t) \o (u \o v)
  <1> DEFINE st == s \o t
  <1>1. (s \o t) \o u = s \o (t \o u)
    BY ConcatAssociative, SMTT(30)
  <1>2. st \in Seq(Symbols)
    BY Joined
  <1> HIDE DEF st
  <1>3. (st \o u) \o v = st \o (u \o v)
    BY <1>2, ConcatAssociative, SMTT(60)
  <1> QED
    BY <1>1, <1>3, Zenon DEF st

(* What was sent after the end of a header stays so when more is sent. *)
LEMMA MoreSent ==
  ASSUME NEW stream \in Seq(Symbols), NEW part \in Seq(Symbols), NEW out \in Seq(Symbols),
         \E body \in AfterHeader(stream) : StartOf(out, body)
  PROVE  \E body \in AfterHeader(stream \o part) : StartOf(out, body)
  <1> DEFINE z == CRLFCRLF
  <1>1. PICK i \in 4 .. Len(stream) :
          /\ SubSeq(stream, i - 3, i) = CRLFCRLF
          /\ StartOf(out, SubSeq(stream, i + 1, Len(stream)))
    BY DEF AfterHeader
  <1>2. PICK x \in Seq(Symbols), w \in Seq(Symbols) :
          w = SubSeq(stream, i + 1, Len(stream)) /\ stream = (x \o z) \o w
    BY <1>1, HeaderDivides
  <1>3. Len(out) <= Len(w) /\ out = SubSeq(w, 1, Len(out))
    BY <1>1, <1>2 DEF StartOf
  <1>4. PICK r \in Seq(Symbols) : w = out \o r
    <2> DEFINE a == Len(out)
               b == Len(w)
               v == SubSeq(w, a + 1, b)
    <2>1. a \in 0 .. b /\ b \in a .. b
      <3>1. a \in Nat /\ b \in Nat
        BY LenProperties
      <3> QED
        BY <1>3, <3>1
    <2>2. v \in Seq(Symbols)
      BY <2>1, PartOfSeq
    <2>3. SubSeq(w, 1, a) \o v = SubSeq(w, 1, b)
      BY <2>1, PartsMeet
    <2>4. SubSeq(w, 1, b) = w
      BY SubSeqFull
    <2>5. SubSeq(w, 1, a) = out
      BY <1>3
    <2> HIDE DEF v, a, b
    <2>6. w = out \o v
      BY <2>3, <2>4, <2>5, Zenon
    <2> QED
      BY <2>2, <2>6
  <1>5. z \in Seq(Symbols)
    <2>1. "200" \in {"200", "400", "404"}
      OBVIOUS
    <2> QED
      BY <2>1, ResponseIs
  <1> HIDE DEF z
  <1> DEFINE c == x \o z
             d == c \o out
             rest == r \o part
  <1> HIDE DEF rest
  <1>6. c \in Seq(Symbols) /\ rest \in Seq(Symbols)
    BY <1>5, Joined DEF rest
  <1>7. stream = c \o (out \o r)
    BY <1>2, <1>4
  <1> HIDE DEF c
  <1> HIDE DEF d
  <1>9. (c \o (out \o r)) \o part = (c \o out) \o (r \o part)
    <2>1. \A s, t, u, v \in Seq(Symbols) : (s \o (t \o u)) \o v = (s \o t) \o (u \o v)
      BY FourJoined
    <2>2. \A t, u, v \in Seq(Symbols) : (c \o (t \o u)) \o v = (c \o t) \o (u \o v)
      BY <1>6, <2>1, Zenon
    <2>3. \A u, v \in Seq(Symbols) : (c \o (out \o u)) \o v = (c \o out) \o (u \o v)
      BY <2>2, Zenon
    <2> QED
      BY <2>3, Zenon
  <1>11. stream \o part = d \o rest
    BY <1>7, <1>9, Zenon DEF d, rest
  <1>12. stream \o part = ((x \o CRLFCRLF) \o out) \o rest
    BY <1>11, Zenon DEF c, d, z
  <1> QED
    BY <1>6, <1>12, SentAfterHeader

(* A part of what is to be sent is sent, all of it if the send does not fail. *)
LEMMA SendData ==
  ASSUME NEW data \in Seq(Symbols), send_data(data),
         NEW got \in Seq(Symbols), toClient \in Seq(Symbols), sendFailed \in BOOLEAN,
         sent = got \o toClient
  PROVE  \E part \in Seq(Symbols) :
           /\ toClient' = toClient \o part /\ sent' = sent \o part
           /\ toClient' \in Seq(Symbols) /\ sent \in Seq(Symbols) /\ sent' \in Seq(Symbols)
           /\ sent' = got \o toClient'
           /\ sendFailed' \in BOOLEAN /\ (sendFailed => sendFailed')
           /\ ~sendFailed' => part = data
  <1>1. PICK n \in 0 .. Len(data) :
          /\ toClient' = toClient \o SubSeq(data, 1, n)
          /\ sent' = sent \o SubSeq(data, 1, n)
          /\ sendFailed' = (sendFailed \/ n < Len(data))
    BY DEF send_data
  <1> DEFINE part == SubSeq(data, 1, n)
  <1>2. part \in Seq(Symbols)
    BY FirstPart
  <1>3. n = Len(data) => part = data
    BY SubSeqFull
  <1>4. n < Len(data) \/ n = Len(data)
    <2>1. Len(data) \in Nat
      BY LenProperties
    <2> QED
      BY <2>1
  <1>5. toClient' = toClient \o part /\ sent' = sent \o part
    BY <1>1
  <1> HIDE DEF part
  <1>6. toClient \o part \in Seq(Symbols) /\ sent \in Seq(Symbols)
    BY <1>2, Joined
  <1>7. sent \o part \in Seq(Symbols)
    BY <1>2, <1>6, Joined
  <1>8. (got \o toClient) \o part = got \o (toClient \o part)
    BY <1>2, ConcatAssociative, SMTT(30)
  <1>9. sent' = got \o toClient'
    BY <1>5, <1>8, Zenon
  <1>10. ~sendFailed' => part = data
    BY <1>1, <1>3, <1>4
  <1>11. sendFailed' \in BOOLEAN /\ (sendFailed => sendFailed')
    BY <1>1
  <1> QED
    BY <1>2, <1>5, <1>6, <1>7, <1>9, <1>10, <1>11

------------------------------------------------------------------------------
(* The steps of the first process of the server, and those of the client *)

(* What the first process and the children of other connections do leaves the
   transfer as it is. *)
LEMMA LoopKeeps ==
  ASSUME IInv, UNCHANGED <<childVars, transferVars>>, LoopType', ForkedOnce'
  PROVE  IInv'
  <1>0. /\ srvPc' = srvPc /\ filename' = filename /\ readSoFar' = readSoFar
        /\ cliPc' = cliPc /\ bytes_sent' = bytes_sent /\ buf' = buf /\ output' = output
        /\ result' = result /\ toServer' = toServer /\ toClient' = toClient
        /\ sent' = sent /\ sendFailed' = sendFailed
    BY DEF childVars, sendVars, transferVars, cliVars
  <1>1. TypeOK'
    BY <1>0 DEF IInv, TypeOK
  <1>2. RequestInv'
    BY <1>0 DEF IInv, RequestInv, Memory
  <1>3. StartOf(filename, path)'
    BY <1>0 DEF IInv, StartOf
  <1>4. StreamInv'
    <2>1. PICK code \in {"none", "200", "400", "404"}, got \in Seq(Symbols) :
            Answered(code) /\ Sends(got, code) /\ Keeps(got, code)
      BY DEF IInv, StreamInv
    <2>2. Answered(code)'
      BY <1>0, <2>1 DEF Answered
    <2>3. Sends(got, code)'
      BY <1>0, <2>1 DEF Sends, Stream
    <2>4. Keeps(got, code)'
      BY <1>0, <2>1 DEF Keeps
    <2> QED
      BY <2>2, <2>3, <2>4 DEF StreamInv
  <1>5. OutcomeInv'
    BY <1>0 DEF IInv, OutcomeInv, OutputIsPrefix, ResultIsRight, StartOf
  <1> QED
    BY <1>1, <1>2, <1>3, <1>4, <1>5 DEF IInv

(* Who changes nothing of the stream leaves it in order. *)
LEMMA SendsSame ==
  ASSUME NEW code, NEW got, Sends(got, code),
         UNCHANGED <<toClient, filename, readSoFar, sent, sendFailed>>
  PROVE  Sends(got, code)'
  <1>1. Stream(code)' = Stream(code)
    BY DEF Stream
  <1> QED
    BY <1>1, Zenon DEF Sends

(* A client that gives up reports neither success nor a missing file. *)
LEMMA ClientGivesUp ==
  ASSUME IInv, cliPc # "end", cliPc' = "end", result' \in {result, -1, 3},
         UNCHANGED <<bytes_sent, buf, output, toServer, toClient, srvVars>>
  PROVE  IInv'
  <1> USE DEF srvVars, childVars, sendVars, loopVars
  <1>1. result = NoResult /\ result' \in {NoResult, -1, 3}
    BY DEF IInv, OutcomeInv
  <1>2. TypeOK'
    BY <1>1 DEF IInv, TypeOK, LoopType, NoResult
  <1>3. ForkedOnce' /\ RequestInv' /\ StartOf(filename, path)'
    BY DEF IInv, ForkedOnce, RequestInv, Memory, StartOf
  <1>4. StreamInv'
    <2>0. /\ cliPc # "end" /\ cliPc' = "end"
          /\ UNCHANGED <<buf, output, toClient, srvPc, filename, readSoFar, sent, sendFailed>>
      OBVIOUS
    <2>1. PICK code \in {"none", "200", "400", "404"}, got \in Seq(Symbols) :
            Answered(code) /\ Sends(got, code) /\ Keeps(got, code)
      BY DEF IInv, StreamInv
    <2>2. Answered(code)'
      BY <2>0, <2>1 DEF Answered
    <2>3. Sends(got, code)'
      BY <2>0, <2>1, SendsSame
    <2>4. Keeps(got, code)'
      BY <2>0, <2>1 DEF Keeps
    <2> QED
      BY <2>2, <2>3, <2>4 DEF StreamInv
  <1>5. OutcomeInv'
    BY <1>1 DEF IInv, OutcomeInv, OutputIsPrefix, ResultIsRight, StartOf, NoResult
  <1> QED
    BY <1>2, <1>3, <1>4, <1>5 DEF IInv

(* The client goes on to receive. *)
LEMMA RequestSentKeeps ==
  ASSUME IInv, RequestSent
  PROVE  IInv'
  <1> USE DEF srvVars, childVars, sendVars, loopVars, RequestSent
  <1>1. TypeOK'
    <2>1. cliPc' = "first" /\ bytes_sent' \in 0 .. 2 * Len(request)
      <3>1. Len(request) \in Nat
        BY RequestIs
      <3> QED
        BY <3>1
    <2>2. UNCHANGED <<buf, output, result, toServer, toClient, srvVars>>
      OBVIOUS
    <2> QED
      BY <2>1, <2>2, SMTT(30) DEF IInv, TypeOK, LoopType
  <1>2. ForkedOnce' /\ StartOf(filename, path)'
    BY DEF IInv, ForkedOnce, StartOf
  <1>3. RequestInv'
    BY SMTT(30) DEF IInv, RequestInv, Memory
  <1>4. StreamInv'
    <2>0. /\ cliPc = "send" /\ cliPc' = "first"
          /\ UNCHANGED <<buf, output, toClient, srvPc, filename, readSoFar, sent, sendFailed>>
      OBVIOUS
    <2>1. PICK code \in {"none", "200", "400", "404"}, got \in Seq(Symbols) :
            Answered(code) /\ Sends(got, code) /\ Keeps(got, code)
      BY DEF IInv, StreamInv
    <2>2. Answered(code)'
      BY <2>0, <2>1 DEF Answered
    <2>3. Sends(got, code)'
      BY <2>0, <2>1, SendsSame
    <2>4. Keeps(got, code)'
      BY <2>0, <2>1 DEF Keeps
    <2> QED
      BY <2>2, <2>3, <2>4 DEF StreamInv
  <1>5. OutcomeInv'
    BY SMTT(30) DEF IInv, OutcomeInv, OutputIsPrefix, ResultIsRight, StartOf
  <1> QED
    BY <1>1, <1>2, <1>3, <1>4, <1>5 DEF IInv

(* A part of the request follows what was sent before. *)
LEMMA SendKeeps ==
  ASSUME IInv, NEW ret \in 1 .. Len(request), Send(ret)
  PROVE  IInv'
  <1> DEFINE part == [i \in 1 .. ret |-> Memory(bytes_sent + i)]
  <1> USE DEF srvVars, childVars, sendVars, loopVars
  <1>0. request \in Seq(Symbols) /\ Len(request) \in Nat /\ ret \in Nat
        /\ ret <= Len(request) /\ ret > 0
    <2>1. request \in Seq(Symbols) /\ Len(request) \in Nat
      BY RequestIs
    <2> QED
      BY <2>1
  <1>1. /\ cliPc = "send" /\ bytes_sent < Len(request) /\ bytes_sent \in Nat
        /\ toServer' = (IF srvPc \in {"none", "recv"} THEN toServer \o part ELSE toServer)
        /\ bytes_sent' = bytes_sent + ret
        /\ UNCHANGED <<cliPc, buf, output, result, toClient, srvVars>>
    BY <1>0 DEF Send, Arrives, IInv, TypeOK
  <1>2. part \in Seq(Symbols) /\ Len(part) = ret
    <2>1. \A i \in 1 .. ret : Memory(bytes_sent + i) \in Symbols
      <3> SUFFICES ASSUME NEW i \in 1 .. ret
                   PROVE  Memory(bytes_sent + i) \in Symbols
        OBVIOUS
      <3>1. CASE bytes_sent + i <= Len(request)
        <4>1. bytes_sent + i \in 1 .. Len(request)
          BY <1>0, <1>1, <3>1
        <4>2. request[bytes_sent + i] \in Symbols
          BY <1>0, <4>1
        <4> QED
          BY <3>1, <4>2 DEF Memory
      <3>2. CASE ~(bytes_sent + i <= Len(request))
        BY <3>2, SymbolsAssumption DEF Memory, Zero
      <3> QED
        BY <3>1, <3>2
    <2> QED
      BY <1>0, <2>1
  <1>3. toServer \in Seq(Symbols)
    BY DEF IInv, TypeOK
  <1> HIDE DEF part
  <1>4. /\ toServer' \in Seq(Symbols)
        /\ srvPc \in {"none", "recv"} =>
             /\ Len(toServer') = Len(toServer) + Len(part)
             /\ \A i \in 1 .. Len(toServer) : toServer'[i] = toServer[i]
             /\ \A i \in 1 .. Len(part) : toServer'[Len(toServer) + i] = part[i]
    <2>1. part \in Seq(Symbols)
      BY <1>2
    <2>2. /\ toServer \o part \in Seq(Symbols)
          /\ Len(toServer \o part) = Len(toServer) + Len(part)
          /\ \A i \in 1 .. Len(toServer) : (toServer \o part)[i] = toServer[i]
          /\ \A i \in 1 .. Len(part) : (toServer \o part)[Len(toServer) + i] = part[i]
      BY <1>3, <2>1, Joined
    <2>3. CASE srvPc \in {"none", "recv"}
      <3>1. toServer' = toServer \o part
        BY <1>1, <2>3
      <3> QED
        BY <2>2, <3>1, Zenon
    <2>4. CASE srvPc \notin {"none", "recv"}
      <3>1. toServer' = toServer
        BY <1>1, <2>4
      <3> QED
        BY <1>3, <2>4, <3>1
    <2> QED
      BY <2>3, <2>4
  <1>5. TypeOK'
    <2>1. bytes_sent' \in 0 .. 2 * Len(request)
      BY <1>0, <1>1
    <2> QED
      BY <1>1, <1>4, <2>1 DEF IInv, TypeOK, LoopType
  <1>6. RequestInv'
    <2> SUFFICES ASSUME srvPc \in {"none", "recv"}
                 PROVE  /\ Len(toServer') = bytes_sent'
                        /\ \A i \in 1 .. bytes_sent' : toServer'[i] = Memory(i)
      BY <1>1 DEF IInv, RequestInv, Memory
    <2>1. Len(toServer) = bytes_sent /\ \A i \in 1 .. bytes_sent : toServer[i] = Memory(i)
      BY <1>1 DEF IInv, RequestInv
    <2>2. ASSUME NEW i \in 1 .. bytes_sent'
          PROVE  toServer'[i] = Memory(i)
      <3>1. CASE i <= bytes_sent
        <4>1. i \in 1 .. bytes_sent
          BY <1>1, <3>1
        <4> QED
          BY <1>4, <2>1, <4>1
      <3>2. CASE ~(i <= bytes_sent)
        <4> DEFINE j == i - bytes_sent
        <4>1. j \in 1 .. ret /\ bytes_sent + j = i
          BY <1>1, <3>2
        <4> HIDE DEF j
        <4>2. toServer'[bytes_sent + j] = part[j]
          BY <1>2, <1>4, <2>1, <4>1
        <4>3. part[j] = Memory(bytes_sent + j)
          BY <4>1 DEF part
        <4> QED
          BY <4>1, <4>2, <4>3
      <3> QED
        BY <3>1, <3>2
    <2>3. Len(toServer') = bytes_sent'
      BY <1>1, <1>2, <1>4, <2>1
    <2> QED
      BY <2>2, <2>3
  <1>7. ForkedOnce' /\ StartOf(filename, path)'
    BY <1>1 DEF IInv, ForkedOnce, StartOf
  <1>8. StreamInv'
    <2>1. /\ cliPc = "send" /\ cliPc' = "send"
          /\ UNCHANGED <<buf, output, toClient, srvPc, filename, readSoFar, sent, sendFailed>>
      BY <1>1 DEF srvVars, childVars, sendVars
    <2>2. PICK code \in {"none", "200", "400", "404"}, got \in Seq(Symbols) :
            Answered(code) /\ Sends(got, code) /\ Keeps(got, code)
      BY DEF IInv, StreamInv
    <2>3. Answered(code)' /\ Keeps(got, code)'
      BY <2>1, <2>2 DEF Answered, Keeps
    <2>4. Sends(got, code)'
      BY <2>1, <2>2 DEF Sends, Stream
    <2> QED
      BY <2>2, <2>3, <2>4 DEF StreamInv
  <1>9. OutcomeInv'
    BY <1>1 DEF IInv, OutcomeInv, OutputIsPrefix, ResultIsRight, StartOf
  <1> QED
    BY <1>5, <1>6, <1>7, <1>8, <1>9 DEF IInv


(* A received piece continues what was received before. *)
LEMMA GotMore ==
  ASSUME NEW got \in Seq(Symbols), NEW most \in Nat, NEW closed \in BOOLEAN,
         NEW stream \in Seq(Symbols), NEW piece \in Pieces(stream, most, closed)
  PROVE  /\ got \o piece \in Seq(Symbols)
         /\ got \o stream = (got \o piece) \o Rest(stream, piece)
  <1>1. /\ piece \in Seq(Symbols) /\ Rest(stream, piece) \in Seq(Symbols)
        /\ stream = piece \o Rest(stream, piece)
    BY PieceOf
  <1>2. got \o piece \in Seq(Symbols)
    BY <1>1, Joined
  <1>3. (got \o piece) \o Rest(stream, piece) = got \o (piece \o Rest(stream, piece))
    <2>1. piece \in Seq(Symbols) /\ Rest(stream, piece) \in Seq(Symbols)
      BY <1>1
    <2> QED
      BY <2>1, ConcatAssociative, SMTT(30)
  <1> QED
    BY <1>1, <1>2, <1>3, Zenon

(* The client takes a piece: the first one, or one that goes on searching for the
   end of the header. *)
LEMMA RecvKeeps ==
  ASSUME IInv, NEW from, NEW to,
         \/ from = "first" /\ to = "code"
         \/ from = "more" /\ to = "scan",
         Recv(from, to)
  PROVE  IInv'
  <1>1. /\ cliPc = from /\ cliPc' = to
        /\ UNCHANGED <<bytes_sent, output, result, toServer, srvVars>>
        /\ \E piece \in Pieces(toClient, BUFSIZE, ServerClosed) :
             buf' = piece /\ toClient' = Rest(toClient, piece)
    BY DEF Recv
  <1>2. /\ bytes_sent' = bytes_sent /\ output' = output /\ result' = result
        /\ toServer' = toServer /\ srvPc' = srvPc /\ filename' = filename
        /\ readSoFar' = readSoFar /\ sent' = sent /\ sendFailed' = sendFailed
        /\ UNCHANGED loopVars
    BY <1>1 DEF srvVars, childVars, sendVars
  <1>3. toClient \in Seq(Symbols) /\ BUFSIZE \in Nat /\ ServerClosed \in BOOLEAN
    BY HttpBufferAssumption DEF IInv, TypeOK, ServerClosed
  <1>4. PICK piece \in Pieces(toClient, BUFSIZE, ServerClosed) :
          buf' = piece /\ toClient' = Rest(toClient, piece)
    BY <1>1
  <1>5. /\ buf' \in Seq(Symbols) /\ Len(buf') <= BUFSIZE
        /\ toClient' \in Seq(Symbols)
    BY <1>3, <1>4, PieceOf
  <1>6. PICK code \in {"none", "200", "400", "404"}, got \in Seq(Symbols) :
          Answered(code) /\ Sends(got, code) /\ Keeps(got, code)
    BY DEF IInv, StreamInv
  <1>7. /\ got \o piece \in Seq(Symbols)
        /\ got \o toClient = (got \o piece) \o Rest(toClient, piece)
    <2>1. toClient \in Seq(Symbols) /\ BUFSIZE \in Nat /\ ServerClosed \in BOOLEAN
      BY <1>3
    <2> QED
      BY <2>1, GotMore, SMTT(60)
  <1>8. TypeOK'
    BY <1>1, <1>2, <1>5 DEF IInv, TypeOK, LoopType, loopVars
  <1>9. ForkedOnce' /\ RequestInv' /\ StartOf(filename, path)'
    BY <1>1, <1>2 DEF IInv, ForkedOnce, RequestInv, Memory, StartOf, loopVars
  <1>10. OutcomeInv'
    BY <1>1, <1>2 DEF IInv, OutcomeInv, OutputIsPrefix, ResultIsRight, StartOf
  <1>11. StreamInv'
    <2>1. Answered(code)'
      BY <1>1, <1>2, <1>6 DEF Answered
    <2>2. Sends(got \o piece, code)'
      <3>1. Stream(code)' = Stream(code)
        BY <1>2 DEF Stream
      <3> QED
        BY <1>2, <1>4, <1>6, <1>7, <3>1 DEF Sends
    <2>3. Keeps(got \o piece, code)'
      <3>1. CASE from = "first" /\ to = "code"
        <4>1. got = << >>
          BY <1>1, <1>6, <3>1 DEF Keeps
        <4>2. got \o piece = piece
          BY <1>3, <4>1, ConcatEmptySeq, PieceOf
        <4> QED
          BY <1>1, <1>4, <3>1, <4>2 DEF Keeps
      <3>2. CASE from = "more" /\ to = "scan"
        <4>1. sendFailed \/ code = "200"
          BY <1>1, <1>6, <3>2 DEF Keeps
        <4> QED
          BY <1>1, <1>2, <1>4, <3>2, <4>1 DEF Keeps
      <3> QED
        BY <3>1, <3>2
    <2> QED
      BY <1>7, <2>1, <2>2, <2>3 DEF StreamInv
  <1> QED
    BY <1>8, <1>9, <1>10, <1>11 DEF IInv

(* The code in the first piece is the one that the server sent. *)
LEMMA CheckCodeKeeps ==
  ASSUME IInv, CheckCode
  PROVE  IInv'
  <1>1. /\ cliPc = "code" /\ cliPc' \in {"end", "scan"}
        /\ UNCHANGED <<bytes_sent, buf, output, toServer, toClient, srvVars>>
        /\ \/ CodeIs("404") /\ cliPc' = "end" /\ result' = 1
           \/ CodeIs("200") /\ cliPc' = "scan" /\ result' = result
           \/ cliPc' = "end" /\ result' = -1
    BY DEF CheckCode
  <1>2. /\ bytes_sent' = bytes_sent /\ output' = output /\ buf' = buf
        /\ toServer' = toServer /\ srvPc' = srvPc /\ filename' = filename
        /\ readSoFar' = readSoFar /\ toClient' = toClient /\ sent' = sent
        /\ sendFailed' = sendFailed /\ UNCHANGED loopVars
    BY <1>1 DEF srvVars, childVars, sendVars
  <1>3. PICK code \in {"none", "200", "400", "404"}, got \in Seq(Symbols) :
          Answered(code) /\ Sends(got, code) /\ Keeps(got, code)
    BY DEF IInv, StreamInv
  <1>4. got = buf /\ buf \in Seq(Symbols) /\ toClient \in Seq(Symbols)
    BY <1>1, <1>3 DEF Keeps, IInv, TypeOK
  <1>5. ASSUME NEW c, CodeIs(c), ~sendFailed
        PROVE  code = c
    <2>1. 2 \in 1 .. Len(buf) /\ buf[2] = c
      <3>1. Len(buf) \in Nat
        BY <1>4, LenProperties
      <3> QED
        BY <1>5, <3>1 DEF CodeIs
    <2>2. Stream(code)[2] = c /\ Len(Stream(code)) >= 2
      <3>1. /\ Len(buf \o toClient) = Len(buf) + Len(toClient)
            /\ Len(buf) \in Nat /\ Len(toClient) \in Nat
            /\ \A i \in 1 .. Len(buf) : (buf \o toClient)[i] = buf[i]
        BY <1>4, Joined
      <3>2. Len(buf \o toClient) >= 2 /\ (buf \o toClient)[2] = c
        BY <2>1, <3>1
      <3> QED
        BY <1>3, <1>4, <1>5, <3>2 DEF Sends
    <2>3. CASE code = "none"
      <3>1. Len(Stream(code)) = 0
        BY <2>3 DEF Stream
      <3> QED
        BY <2>2, <3>1
    <2>4. CASE code \in {"400", "404"}
      <3>1. Stream(code) = Response(code)
        BY <2>4 DEF Stream
      <3>2. Response(code)[2] = code
        <4>1. code \in {"200", "400", "404"}
          BY <2>4
        <4> QED
          BY <4>1, ResponseIs
      <3> QED
        BY <2>2, <3>1, <3>2
    <2>5. CASE code = "200"
      <3> DEFINE f == Files[filename]
      <3>1. f \in Seq(Symbols) /\ readSoFar \in 0 .. Len(f)
        BY <1>3, <2>5, FilesAssumption DEF Answered
      <3>2. Stream(code) = Response("200") \o SubSeq(f, 1, readSoFar)
        BY <2>5 DEF Stream
      <3> HIDE DEF f
      <3>3. (Response("200") \o SubSeq(f, 1, readSoFar))[2] = "200"
        BY <3>1, StreamIs
      <3> QED
        BY <2>2, <2>5, <3>2, <3>3
    <2> QED
      BY <2>3, <2>4, <2>5
  <1>6. result = NoResult
    BY <1>1 DEF IInv, OutcomeInv
  <1>7. TypeOK'
    BY <1>1, <1>2 DEF IInv, TypeOK, LoopType, loopVars
  <1>8. ForkedOnce' /\ RequestInv' /\ StartOf(filename, path)'
    BY <1>1, <1>2 DEF IInv, ForkedOnce, RequestInv, Memory, StartOf, loopVars
  <1>9. OutcomeInv'
    <2>1. result' = 1 => sendFailed \/ code = "404"
      BY <1>1, <1>5, <1>6 DEF NoResult
    <2>2. result' = 1 => /\ sendFailed \/ filename \notin DOMAIN Files
                         /\ srvPc \notin {"none", "recv"}
      BY <1>3, <2>1 DEF Answered, IInv, RequestInv
    <2>3. result' # 0 /\ (cliPc' # "end" => result' = NoResult)
      BY <1>1, <1>6 DEF NoResult
    <2> QED
      BY <1>1, <1>2, <2>2, <2>3 DEF IInv, OutcomeInv, OutputIsPrefix, ResultIsRight, StartOf
  <1>10. StreamInv'
    <2>1. Answered(code)'
      BY <1>1, <1>2, <1>3 DEF Answered
    <2>2. Sends(got, code)'
      BY <1>2, <1>3 DEF Sends, Stream
    <2>3. Keeps(got, code)'
      <3>1. CASE cliPc' = "end"
        BY <3>1 DEF Keeps
      <3>2. CASE cliPc' = "scan"
        <4>1. sendFailed \/ code = "200"
          BY <1>1, <1>5, <3>2
        <4>2. << >> \in Seq(Symbols) /\ got = << >> \o buf
          BY <1>4, ConcatEmptySeq, EmptySeq
        <4> QED
          BY <1>2, <3>2, <4>1, <4>2 DEF Keeps
      <3> QED
        BY <1>1, <3>1, <3>2
    <2> QED
      BY <2>1, <2>2, <2>3 DEF StreamInv
  <1> QED
    BY <1>7, <1>8, <1>9, <1>10 DEF IInv


(* What is written from the piece in which the header ends was sent after it. *)
LEMMA BodyFoundKeeps ==
  ASSUME IInv, BodyFound
  PROVE  IInv'
  <1> DEFINE end == Least(HeaderEnds)
  <1>1. /\ cliPc = "scan" /\ cliPc' = "body" /\ HeaderEnds # {}
        /\ output' = SubSeq(buf, end + 1, Len(buf))
        /\ buf' = << >>
        /\ UNCHANGED <<bytes_sent, result, toServer, toClient, srvVars>>
    <2>1. end = CHOOSE i \in HeaderEnds : \A j \in HeaderEnds : i <= j
      BY DEF Least
    <2> HIDE DEF end
    <2> QED
      BY <2>1 DEF BodyFound
  <1>2. /\ bytes_sent' = bytes_sent /\ result' = result
        /\ toServer' = toServer /\ srvPc' = srvPc /\ filename' = filename
        /\ readSoFar' = readSoFar /\ toClient' = toClient /\ sent' = sent
        /\ sendFailed' = sendFailed /\ UNCHANGED loopVars
    BY <1>1 DEF srvVars, childVars, sendVars
  <1>3. PICK code \in {"none", "200", "400", "404"}, got \in Seq(Symbols) :
          Answered(code) /\ Sends(got, code) /\ Keeps(got, code)
    BY DEF IInv, StreamInv
  <1>4. (sendFailed \/ code = "200") /\ \E before \in Seq(Symbols) : got = before \o buf
    BY <1>1, <1>3 DEF Keeps
  <1>5. PICK before \in Seq(Symbols) : got = before \o buf
    BY <1>4
  <1>6. buf \in Seq(Symbols) /\ Len(buf) \in Nat /\ toClient \in Seq(Symbols)
    BY LenProperties DEF IInv, TypeOK
  <1>7. end \in 4 .. Len(buf) /\ SubSeq(buf, end - 3, end) = CRLFCRLF
    <2>1. \A i \in HeaderEnds :
            i \in 4 .. Len(buf) /\ i \in Nat /\ SubSeq(buf, i - 3, i) = CRLFCRLF
      BY <1>6 DEF HeaderEnds
    <2>2. end \in HeaderEnds
      BY <1>1, <2>1, LeastIsMember
    <2> QED
      BY <2>1, <2>2
  <1> HIDE DEF end
  <1>8. PICK x \in Seq(Symbols) :
          /\ output' \in Seq(Symbols)
          /\ buf = (x \o CRLFCRLF) \o output'
    BY <1>1, <1>6, <1>7, HeaderDivides
  <1>9. before \o x \in Seq(Symbols) /\ got = ((before \o x) \o CRLFCRLF) \o output'
    <2> DEFINE z == CRLFCRLF
    <2>1. z \in Seq(Symbols)
      <3>1. "200" \in {"200", "400", "404"}
        OBVIOUS
      <3> QED
        BY <3>1, ResponseIs
    <2> HIDE DEF z
    <2>2. PICK w \in Seq(Symbols) : w = output'
      BY <1>8
    <2>3. before \o x \in Seq(Symbols) /\ x \o z \in Seq(Symbols)
      BY <2>1, Joined
    <2>4. (before \o (x \o z)) \o w = before \o ((x \o z) \o w)
      <3> DEFINE y == x \o z
      <3>1. y \in Seq(Symbols)
        BY <2>3
      <3> HIDE DEF y
      <3>2. (before \o y) \o w = before \o (y \o w)
        BY <3>1, ConcatAssociative, SMTT(30)
      <3> QED
        BY <3>2, Zenon DEF y
    <2>5. (before \o x) \o z = before \o (x \o z)
      BY <2>1, ConcatAssociative, SMTT(30)
    <2>6. buf = (x \o z) \o w
      BY <1>8, <2>2, Zenon DEF z
    <2>7. got = ((before \o x) \o z) \o w
      BY <1>5, <2>4, <2>5, <2>6, Zenon
    <2> QED
      BY <2>2, <2>3, <2>7, Zenon DEF z
  <1>10. TypeOK'
    <2>1. output' \in Seq(Symbols) /\ cliPc' = "body"
      BY <1>1, <1>8
    <2>2. buf' = << >> /\ Len(<< >>) = 0 /\ << >> \in Seq(Symbols)
      BY <1>1, EmptySeq
    <2>3. buf' \in Seq(Symbols) /\ Len(buf') <= BUFSIZE
      BY <2>2, HttpBufferAssumption
    <2> QED
      BY <1>2, <2>1, <2>3 DEF IInv, TypeOK, LoopType, loopVars
  <1>11. ForkedOnce' /\ RequestInv' /\ StartOf(filename, path)'
    BY <1>1, <1>2 DEF IInv, ForkedOnce, RequestInv, Memory, StartOf, loopVars
  <1>12. srvPc \notin {"none", "recv"}
    <2>1. CASE sendFailed
      BY <2>1 DEF IInv, RequestInv
    <2>2. CASE code = "200"
      BY <1>3, <2>2 DEF Answered
    <2> QED
      BY <1>4, <2>1, <2>2
  <1>13. PICK b \in Seq(Symbols), w \in Seq(Symbols) :
           w = output' /\ got = (b \o CRLFCRLF) \o w
    BY <1>8, <1>9
  <1>14. sent = ((b \o CRLFCRLF) \o w) \o toClient
    <2>1. sent = got \o toClient
      BY <1>3 DEF Sends
    <2> QED
      BY <1>13, <2>1, Zenon
  <1>15. \E body \in AfterHeader(sent) : StartOf(w, body)
    BY <1>6, <1>14, SentAfterHeader
  <1>16. ASSUME ~sendFailed
         PROVE  /\ filename \in DOMAIN Files
                /\ HeaderEndsAgain(Files[filename]) \/ StartOf(w, Files[filename])
    <2>1. code = "200"
      BY <1>4, <1>16
    <2>2. filename \in DOMAIN Files /\ readSoFar \in 0 .. Len(Files[filename])
          /\ Files[filename] \in Seq(Symbols)
      BY <1>3, <2>1, FilesAssumption DEF Answered
    <2>3. PICK f \in Seq(Symbols) : f = Files[filename] /\ readSoFar \in 0 .. Len(f)
      BY <2>2
    <2>4. Response("200") \o SubSeq(f, 1, readSoFar) = ((b \o CRLFCRLF) \o w) \o toClient
      <3>1. Stream(code) = Response("200") \o SubSeq(f, 1, readSoFar)
        BY <2>1, <2>3 DEF Stream
      <3>2. sent = Stream(code)
        BY <1>3, <1>16 DEF Sends
      <3> QED
        BY <1>14, <3>1, <3>2, Zenon
    <2>5. HeaderEndsAgain(f) \/ StartOf(w, f)
      BY <1>6, <2>3, <2>4, BodyIsOfFile
    <2> QED
      BY <2>2, <2>3, <2>5
  <1>17. OutcomeInv'
    <2>1. result = NoResult
      BY <1>1 DEF IInv, OutcomeInv
    <2>2. srvPc' \notin {"none", "recv"} /\ cliPc' # "end" /\ result' = NoResult
          /\ cliPc' \in {"body", "end"} /\ filename' = filename
      BY <1>1, <1>2, <1>12, <2>1
    <2>3. OutputIsPrefix'
      <3>1. output' = w /\ sent' = sent /\ sendFailed' = sendFailed
        BY <1>2, <1>13
      <3> QED
        BY <1>15, <1>16, <2>2, <3>1 DEF OutputIsPrefix, StartOf
    <2>4. ResultIsRight'
      BY <2>2 DEF ResultIsRight, NoResult
    <2> QED
      BY <2>2, <2>3, <2>4 DEF OutcomeInv
  <1>18. StreamInv'
    <2>1. Answered(code)'
      BY <1>1, <1>2, <1>3 DEF Answered
    <2>2. Sends(got, code)'
      BY <1>2, <1>3 DEF Sends, Stream
    <2>3. Keeps(got, code)'
      BY <1>1, <1>2, <1>4, <1>9 DEF Keeps
    <2> QED
      BY <2>1, <2>2, <2>3 DEF StreamInv
  <1> QED
    BY <1>10, <1>11, <1>17, <1>18 DEF IInv

(* Without it the client goes on, or gives up at the end of the stream. *)
LEMMA BodyNotFoundKeeps ==
  ASSUME IInv, BodyNotFound
  PROVE  IInv'
  <1>1. CASE buf = << >>
    BY <1>1, ClientGivesUp DEF BodyNotFound
  <1>2. CASE buf # << >>
    <2>1. /\ cliPc = "scan" /\ cliPc' = "more" /\ result' = result
          /\ buf' = << >>
          /\ UNCHANGED <<bytes_sent, output, toServer, toClient, srvVars>>
      BY <1>2 DEF BodyNotFound
    <2>2. /\ bytes_sent' = bytes_sent /\ result' = result /\ output' = output
          /\ toServer' = toServer /\ srvPc' = srvPc /\ filename' = filename
          /\ readSoFar' = readSoFar /\ toClient' = toClient /\ sent' = sent
        /\ sendFailed' = sendFailed /\ UNCHANGED loopVars
      BY <2>1 DEF srvVars, childVars, sendVars
    <2>3. TypeOK'
      <3>1. buf' \in Seq(Symbols) /\ Len(buf') = 0 /\ Len(buf') <= BUFSIZE
        BY <2>1, EmptySeq, HttpBufferAssumption
      <3> QED
        BY <2>1, <2>2, <3>1 DEF IInv, TypeOK, LoopType, loopVars
    <2>4. ForkedOnce' /\ RequestInv' /\ StartOf(filename, path)'
      BY <2>1, <2>2 DEF IInv, ForkedOnce, RequestInv, Memory, StartOf, loopVars
    <2>5. OutcomeInv'
      BY <2>1, <2>2 DEF IInv, OutcomeInv, OutputIsPrefix, ResultIsRight, StartOf
    <2>6. StreamInv'
      <3>1. PICK code \in {"none", "200", "400", "404"}, got \in Seq(Symbols) :
              Answered(code) /\ Sends(got, code) /\ Keeps(got, code)
        BY DEF IInv, StreamInv
      <3>2. Answered(code)'
        BY <2>1, <2>2, <3>1 DEF Answered
      <3>3. Sends(got, code)'
        BY <2>2, <3>1 DEF Sends, Stream
      <3>4. Keeps(got, code)'
        BY <2>1, <2>2, <3>1 DEF Keeps
      <3> QED
        BY <3>2, <3>3, <3>4 DEF StreamInv
    <2> QED
      BY <2>3, <2>4, <2>5, <2>6 DEF IInv
  <1> QED
    BY <1>1, <1>2


(* The rest: what is received is written behind what was written, and the client has
   all that was sent when the stream ends. *)
LEMMA RecvBodyKeeps ==
  ASSUME IInv, RecvBody
  PROVE  IInv'
  <1>1. toClient \in Seq(Symbols) /\ BUFSIZE \in Nat /\ ServerClosed \in BOOLEAN
        /\ output \in Seq(Symbols)
    BY HttpBufferAssumption DEF IInv, TypeOK, ServerClosed
  <1>2. PICK piece \in Pieces(toClient, BUFSIZE, ServerClosed) :
          /\ toClient' = Rest(toClient, piece)
          /\ output' = output \o piece
          /\ IF piece = << >> THEN cliPc' = "end" /\ result' = 0
                              ELSE UNCHANGED <<cliPc, result>>
    BY DEF RecvBody
  <1>3. /\ cliPc = "body" /\ cliPc' \in {"body", "end"}
        /\ \/ piece = << >> /\ cliPc' = "end" /\ result' = 0
           \/ cliPc' = "body" /\ result' = result
        /\ bytes_sent' = bytes_sent /\ buf' = buf
        /\ toServer' = toServer /\ srvPc' = srvPc /\ filename' = filename
        /\ readSoFar' = readSoFar /\ sent' = sent /\ sendFailed' = sendFailed
        /\ UNCHANGED loopVars
    BY <1>2 DEF RecvBody, srvVars, childVars, sendVars
  <1>4. PICK code \in {"none", "200", "400", "404"}, got \in Seq(Symbols) :
          Answered(code) /\ Sends(got, code) /\ Keeps(got, code)
    BY DEF IInv, StreamInv
  <1>5. (sendFailed \/ code = "200") /\ \E before \in Seq(Symbols) : got = (before \o CRLFCRLF) \o output
    BY <1>3, <1>4 DEF Keeps
  <1>6. PICK before \in Seq(Symbols) : got = (before \o CRLFCRLF) \o output
    BY <1>5
  <1>7. /\ piece \in Seq(Symbols) /\ toClient' \in Seq(Symbols)
        /\ piece = << >> => ServerClosed /\ toClient = << >>
    BY <1>1, <1>2, PieceOf
  <1>8. /\ got \o piece \in Seq(Symbols)
        /\ got \o toClient = (got \o piece) \o toClient'
    <2> DEFINE left == Rest(toClient, piece)
    <2>0. /\ piece \in Seq(Symbols) /\ left \in Seq(Symbols)
          /\ toClient = piece \o left
      BY <1>1, PieceOf
    <2> HIDE DEF left
    <2>1. /\ got \o piece \in Seq(Symbols)
          /\ got \o toClient = (got \o piece) \o left
      <3>1. got \o piece \in Seq(Symbols)
        BY <2>0, Joined
      <3>2. (got \o piece) \o left = got \o (piece \o left)
        <4>1. piece \in Seq(Symbols) /\ left \in Seq(Symbols)
          BY <2>0
        <4> QED
          BY <4>1, ConcatAssociative, SMTT(30)
      <3> QED
        BY <2>0, <3>1, <3>2, Zenon
    <2>2. toClient' = left
      BY <1>2 DEF left
    <2> QED
      BY <2>1, <2>2, Zenon
  <1>9. output' \in Seq(Symbols) /\ got \o piece = (before \o CRLFCRLF) \o output'
    <2> DEFINE c == before \o CRLFCRLF
    <2>1. c \in Seq(Symbols)
      <3>1. "200" \in {"200", "400", "404"}
        OBVIOUS
      <3>2. CRLFCRLF \in Seq(Symbols)
        BY <3>1, ResponseIs
      <3> QED
        BY <3>2, Joined
    <2> HIDE DEF c
    <2>2. output \o piece \in Seq(Symbols)
      BY <1>1, <1>7, Joined
    <2>3. (c \o output) \o piece = c \o (output \o piece)
      <3>1. output \in Seq(Symbols) /\ piece \in Seq(Symbols)
        BY <1>1, <1>7
      <3> QED
        BY <2>1, <3>1, ConcatAssociative, SMTT(30)
    <2>4. got = c \o output
      BY <1>6 DEF c
    <2> QED
      BY <1>2, <2>2, <2>3, <2>4, Zenon DEF c
  <1>10. TypeOK'
    BY <1>3, <1>7, <1>9, SMTT(30) DEF IInv, TypeOK, LoopType, loopVars
  <1>11. ForkedOnce' /\ RequestInv' /\ StartOf(filename, path)'
    BY <1>3 DEF IInv, ForkedOnce, RequestInv, Memory, StartOf, loopVars
  <1>12. srvPc \notin {"none", "recv"}
    <2>1. CASE sendFailed
      BY <2>1 DEF IInv, RequestInv
    <2>2. CASE code = "200"
      BY <1>4, <2>2 DEF Answered
    <2> QED
      BY <1>5, <2>1, <2>2
  <1>13. PICK w \in Seq(Symbols), rest \in Seq(Symbols) :
           w = output' /\ rest = toClient' /\ got \o piece = (before \o CRLFCRLF) \o w
    BY <1>7, <1>9
  <1>14. sent = ((before \o CRLFCRLF) \o w) \o rest
    <2>1. sent = got \o toClient
      BY <1>4 DEF Sends
    <2> QED
      BY <1>8, <1>13, <2>1, Zenon
  <1>15. /\ \E body \in AfterHeader(sent) : StartOf(w, body)
         /\ rest = << >> => w \in AfterHeader(sent)
    BY <1>14, SentAfterHeader
  <1>16. result' = 0 => rest = << >> /\ srvPc = "end"
    <2> SUFFICES ASSUME result' = 0
                 PROVE  rest = << >> /\ srvPc = "end"
      OBVIOUS
    <2>1. result = NoResult
      BY <1>3 DEF IInv, OutcomeInv
    <2>2. piece = << >>
      BY <1>3, <2>1 DEF NoResult
    <2>3. ServerClosed /\ toClient = << >>
      BY <1>7, <2>2
    <2>4. srvPc = "end"
      BY <1>12, <2>3 DEF ServerClosed
    <2>5. toClient' = << >>
      <3>1. << >> = << >> \o Rest(<< >>, << >>)
        BY <1>1, <1>2, <2>2, <2>3, PieceOf
      <3>2. Rest(<< >>, << >>) \in Seq(Symbols)
        BY <1>2, <1>7, <2>2, <2>3
      <3>3. Rest(<< >>, << >>) = << >>
        BY <3>1, <3>2, ConcatEmptySeq
      <3> QED
        BY <1>2, <2>2, <2>3, <3>3
    <2> QED
      BY <1>13, <2>4, <2>5
  <1>17. ASSUME ~sendFailed
         PROVE  /\ filename \in DOMAIN Files
                /\ HeaderEndsAgain(Files[filename]) \/ StartOf(w, Files[filename])
                /\ result' = 0 => HeaderEndsAgain(Files[filename]) \/ w = Files[filename]
    <2>1. code = "200"
      BY <1>5, <1>17
    <2>2. filename \in DOMAIN Files /\ readSoFar \in 0 .. Len(Files[filename])
          /\ Files[filename] \in Seq(Symbols)
      BY <1>4, <2>1, FilesAssumption DEF Answered
    <2>3. PICK f \in Seq(Symbols) : f = Files[filename] /\ readSoFar \in 0 .. Len(f)
      BY <2>2
    <2>4. Response("200") \o SubSeq(f, 1, readSoFar) = ((before \o CRLFCRLF) \o w) \o rest
      <3>1. Stream(code) = Response("200") \o SubSeq(f, 1, readSoFar)
        BY <2>1, <2>3 DEF Stream
      <3>2. sent = Stream(code)
        BY <1>4, <1>17 DEF Sends
      <3> QED
        BY <1>14, <3>1, <3>2, Zenon
    <2>5. \/ HeaderEndsAgain(f)
          \/ StartOf(w, f) /\ (rest = << >> /\ readSoFar = Len(f) => w = f)
      BY <2>3, <2>4, BodyIsOfFile
    <2>6. result' = 0 => readSoFar = Len(f)
      BY <1>3, <1>4, <1>16, <2>1, <2>3 DEF Answered
    <2> QED
      BY <1>16, <2>2, <2>3, <2>5, <2>6
  <1>18. OutcomeInv'
    <2>1. result = NoResult
      BY <1>3 DEF IInv, OutcomeInv
    <2>2. /\ srvPc' \notin {"none", "recv"} /\ (cliPc' # "end" => result' = NoResult)
          /\ result' # 1 /\ cliPc' \in {"body", "end"} /\ filename' = filename
      BY <1>3, <1>12, <2>1 DEF NoResult
    <2>3. output' = w /\ sent' = sent /\ sendFailed' = sendFailed /\ srvPc' = srvPc
      BY <1>3, <1>13
    <2>4. OutputIsPrefix'
      BY <1>15, <1>17, <2>2, <2>3 DEF OutputIsPrefix, StartOf
    <2>5. ResultIsRight'
      BY <1>15, <1>16, <1>17, <2>2, <2>3 DEF ResultIsRight
    <2> QED
      BY <2>2, <2>4, <2>5 DEF OutcomeInv
  <1>19. StreamInv'
    <2>1. Answered(code)'
      BY <1>3, <1>4 DEF Answered
    <2>2. Sends(got \o piece, code)'
      <3>1. Stream(code)' = Stream(code)
        BY <1>3 DEF Stream
      <3> QED
        BY <1>3, <1>4, <1>8, <3>1 DEF Sends
    <2>3. Keeps(got \o piece, code)'
      BY <1>3, <1>5, <1>9 DEF Keeps
    <2> QED
      BY <1>8, <2>1, <2>2, <2>3 DEF StreamInv
  <1> QED
    BY <1>10, <1>11, <1>18, <1>19 DEF IInv

(* Whatever the client does. *)
LEMMA ClientKeeps ==
  ASSUME IInv, ClientStep
  PROVE  IInv'
  <1>1. ASSUME NEW ret \in 1 .. Len(request), Send(ret)
        PROVE  IInv'
    BY <1>1, SendKeeps
  <1>2. CASE SendFails
    BY <1>2, ClientGivesUp DEF SendFails
  <1>3. CASE SendKilled
    BY <1>3, ClientGivesUp DEF SendKilled
  <1>4. CASE RequestSent
    BY <1>4, RequestSentKeeps
  <1>5. CASE Recv("first", "code")
    BY <1>5, RecvKeeps
  <1>6. CASE CheckCode
    BY <1>6, CheckCodeKeeps
  <1>7. CASE BodyFound
    BY <1>7, BodyFoundKeeps
  <1>8. CASE BodyNotFound
    BY <1>8, BodyNotFoundKeeps
  <1>9. CASE Recv("more", "scan")
    BY <1>9, RecvKeeps
  <1>10. CASE RecvBody
    BY <1>10, RecvBodyKeeps
  <1>11. CASE RecvFails
    BY <1>11, ClientGivesUp DEF RecvFails
  <1> QED
    BY <1>1, <1>2, <1>3, <1>4, <1>5, <1>6, <1>7, <1>8, <1>9, <1>10, <1>11 DEF ClientStep


------------------------------------------------------------------------------
(* The steps of the child *)

(* A child that ends before it has answered, or after the client, leaves what was
   sent as it is. *)
LEMMA ChildGivesUp ==
  ASSUME IInv, srvPc = "recv" \/ (srvPc = "serve" /\ cliPc = "end"), srvPc' = "end",
         toServer' \in Seq(Symbols),
         UNCHANGED <<filename, readSoFar, sendVars, toClient, cliVars, loopVars>>
  PROVE  IInv'
  <1>1. /\ bytes_sent' = bytes_sent /\ result' = result /\ buf' = buf /\ output' = output
        /\ cliPc' = cliPc /\ filename' = filename /\ readSoFar' = readSoFar
        /\ toClient' = toClient /\ sent' = sent /\ sendFailed' = sendFailed
        /\ UNCHANGED loopVars
    BY DEF cliVars, sendVars
  <1>2. TypeOK'
    BY <1>1 DEF IInv, TypeOK, LoopType, loopVars
  <1>3. ForkedOnce'
    BY <1>1 DEF IInv, ForkedOnce, loopVars
  <1>4. RequestInv' /\ StartOf(filename, path)'
    BY <1>1 DEF IInv, RequestInv, StartOf
  <1>5. OutcomeInv'
    BY <1>1 DEF IInv, OutcomeInv, OutputIsPrefix, ResultIsRight, StartOf
  <1>6. StreamInv'
    <2>1. PICK code \in {"none", "200", "400", "404"}, got \in Seq(Symbols) :
            Answered(code) /\ Sends(got, code) /\ Keeps(got, code)
      BY DEF IInv, StreamInv
    <2>2. Answered(code)'
      BY <1>1, <2>1 DEF Answered
    <2>3. Sends(got, code)'
      BY <1>1, <2>1 DEF Sends, Stream
    <2>4. Keeps(got, code)'
      BY <1>1, <2>1 DEF Keeps
    <2> QED
      BY <2>2, <2>3, <2>4 DEF StreamInv
  <1> QED
    BY <1>2, <1>3, <1>4, <1>5, <1>6 DEF IInv

(* The first thing that is sent to the client is an answer; only after that the
   client has something to receive. *)
LEMMA AnswerKeeps ==
  ASSUME IInv, srvPc = "recv", NEW c \in {"200", "400", "404"}, Answer(c),
         srvPc' = IF c = "200" THEN "serve" ELSE "end",
         toServer' \in Seq(Symbols), filename' \in Seq(Symbols), StartOf(filename', path),
         c = "200" => filename' \in DOMAIN Files, c = "404" => filename' \notin DOMAIN Files,
         UNCHANGED <<readSoFar, cliVars, loopVars>>
  PROVE  IInv'
  <1>1. /\ bytes_sent' = bytes_sent /\ result' = result /\ buf' = buf /\ output' = output
        /\ cliPc' = cliPc /\ readSoFar' = readSoFar /\ UNCHANGED loopVars
    BY DEF cliVars
  <1>2. /\ readSoFar = 0 /\ output = << >> /\ result \notin {0, 1}
        /\ sent = << >> /\ ~sendFailed
    BY DEF IInv, RequestInv, OutcomeInv
  <1>3. PICK code \in {"none", "200", "400", "404"}, got \in Seq(Symbols) :
          Answered(code) /\ Sends(got, code) /\ Keeps(got, code)
    BY DEF IInv, StreamInv
  <1>4. code = "none"
    BY <1>3 DEF Answered
  <1>5. toClient \in Seq(Symbols) /\ sendFailed \in BOOLEAN
    BY DEF IInv, TypeOK
  <1>6. got = << >> /\ toClient = << >>
    <2>1. got \o toClient = << >>
      BY <1>2, <1>3 DEF Sends
    <2> QED
      BY <1>5, <2>1, ConcatEqualIffEmpty
  <1>7. Response(c) \in Seq(Symbols)
    BY ResponseIs
  <1>8. /\ toClient' \in Seq(Symbols) /\ sent' \in Seq(Symbols)
        /\ sent' = << >> \o toClient'
        /\ sendFailed' \in BOOLEAN /\ (~sendFailed' => sent' = Response(c))
    <2> DEFINE data == Response(c)
    <2>1. data \in Seq(Symbols) /\ send_data(data)
      BY <1>7 DEF Answer
    <2> HIDE DEF data
    <2>2. sent = << >> \o toClient /\ << >> \in Seq(Symbols)
      BY <1>2, <1>3, <1>6, EmptySeq DEF Sends
    <2>3. PICK part \in Seq(Symbols) :
            /\ sent' = sent \o part /\ toClient' \in Seq(Symbols)
            /\ sent' \in Seq(Symbols) /\ sent' = << >> \o toClient'
            /\ sendFailed' \in BOOLEAN /\ (~sendFailed' => part = data)
      BY <1>5, <2>1, <2>2, SendData
    <2>4. sent' = part
      BY <1>2, <2>3, ConcatEmptySeq
    <2> QED
      BY <2>3, <2>4 DEF data
  <1>9. Files[filename'] \in Seq(Symbols) \/ c # "200"
    BY FilesAssumption
  <1>10. TypeOK'
    <2>1. srvPc' = "serve" => readSoFar' <= Len(Files[filename'])
      <3>1. srvPc' = "serve" => Len(Files[filename']) \in Nat
        BY <1>9, LenProperties
      <3> QED
        BY <1>1, <1>2, <3>1
    <2> QED
      BY <1>1, <1>8, <2>1 DEF IInv, TypeOK, LoopType, loopVars
  <1>11. ForkedOnce'
    BY <1>1 DEF IInv, ForkedOnce, loopVars
  <1>12. RequestInv'
    BY DEF RequestInv
  <1>13. StartOf(filename, path)'
    BY DEF StartOf
  <1>14. OutcomeInv'
    BY <1>1, <1>2 DEF IInv, OutcomeInv, OutputIsPrefix, ResultIsRight
  <1>15. StreamInv'
    <2>1. Answered(c)'
      <3>1. c = "200" => readSoFar' \in 0 .. Len(Files[filename'])
        <4>1. c = "200" => Len(Files[filename']) \in Nat
          BY <1>9, LenProperties
        <4> QED
          BY <1>1, <1>2, <4>1
      <3> QED
        BY <3>1 DEF Answered
    <2>2. Stream(c)' = Response(c)
      <3>1. CASE c = "200"
        <4>1. SubSeq(Files[filename'], 1, readSoFar') = << >>
          <5>1. 1 \in Int /\ 0 \in Int /\ 0 < 1
            OBVIOUS
          <5> QED
            BY <1>1, <1>2, <3>1, <5>1, SubSeqEmpty
        <4>2. Response("200") \o << >> = Response("200")
          BY <1>7, <3>1, ConcatEmptySeq
        <4> QED
          BY <3>1, <4>1, <4>2 DEF Stream
      <3>2. CASE c \in {"400", "404"}
        BY <3>2 DEF Stream
      <3> QED
        BY <3>1, <3>2
    <2>3. << >> \in Seq(Symbols)
      BY EmptySeq
    <2>4. Keeps(<< >>, c)'
      BY <1>1, <1>2, <1>3, <1>4, <1>6 DEF Keeps
    <2>5. Sends(<< >>, c)'
      BY <1>8, <2>2 DEF Sends
    <2>6. c \in {"none", "200", "400", "404"}
      OBVIOUS
    <2> QED
      BY <2>1, <2>3, <2>4, <2>5, <2>6 DEF StreamInv
  <1> QED
    BY <1>10, <1>11, <1>12, <1>13, <1>14, <1>15 DEF IInv

(* The name that the child finds is of the path, whatever it has received of the
   request. *)
LEMMA RecvRequestKeeps ==
  ASSUME IInv, RecvRequest
  PROVE  IInv'
  <1>1. PICK piece \in Pieces(toServer, BUFSIZE - 1, cliPc = "end") :
          BadRequest(piece) \/ NoPath(piece) \/ GetFile(piece)
    BY DEF RecvRequest
  <1>2. /\ srvPc = "recv" /\ UNCHANGED <<readSoFar, cliVars, loopVars>>
        /\ toServer' \in Seq(Symbols)
    BY EmptySeq DEF RecvRequest
  <1>3. toServer \in Seq(Symbols) /\ BUFSIZE - 1 \in Nat /\ (cliPc = "end") \in BOOLEAN
    BY HttpBufferAssumption DEF IInv, TypeOK
  <1>4. /\ piece \in Seq(Symbols)
        /\ Len(piece) \in 0 .. Len(toServer)
        /\ \A i \in 1 .. Len(piece) : piece[i] = toServer[i]
    <2>1. PICK closed \in BOOLEAN : piece \in Pieces(toServer, BUFSIZE - 1, closed)
      <3>1. piece \in Pieces(toServer, BUFSIZE - 1, cliPc = "end")
        OBVIOUS
      <3> QED
        BY <1>3, <3>1, Zenon
    <2> QED
      BY <1>3, <2>1, PieceOf
  <1>5. \A i \in 1 .. Len(toServer) : toServer[i] = Memory(i)
    BY <1>2 DEF IInv, RequestInv
  <1>6. \A i \in 1 .. Len(piece) : piece[i] = Memory(i)
    <2>1. \A i \in 1 .. Len(piece) : i \in 1 .. Len(toServer)
      <3>1. Len(toServer) \in Nat
        BY <1>3, LenProperties
      <3> QED
        BY <1>4, <3>1
    <2> QED
      BY <1>4, <1>5, <2>1
  <1>7. filename \in Seq(Symbols) /\ StartOf(filename, path)
    BY DEF IInv, TypeOK
  <1>8. CASE BadRequest(piece)
    <2>1. filename' = filename /\ srvPc' = "end" /\ Answer("400")
      BY <1>8 DEF BadRequest
    <2>2. "400" \in {"200", "400", "404"} /\ "400" # "200" /\ "400" # "404"
      OBVIOUS
    <2>3. filename' \in Seq(Symbols) /\ StartOf(filename', path)
      BY <1>7, <2>1
    <2>4. srvPc' = IF "400" = "200" THEN "serve" ELSE "end"
      BY <2>1
    <2> QED
      BY <1>2, <1>4, <2>1, <2>2, <2>3, <2>4, AnswerKeeps
  <1>9. CASE NoPath(piece)
    BY <1>2, <1>4, <1>9, ChildGivesUp DEF NoPath
  <1>10. CASE GetFile(piece)
    <2>1. Len(piece) >= 4 /\ filename' = NameIn(piece)
      BY <1>10 DEF GetFile
    <2>2. filename' \in Seq(Symbols) /\ StartOf(filename', path)
      BY <1>4, <1>6, <2>1, NameOfPath
    <2>3. PICK c \in {"200", "404"} :
            /\ Answer(c) /\ srvPc' = IF c = "200" THEN "serve" ELSE "end"
            /\ c = "200" => filename' \in DOMAIN Files
            /\ c = "404" => filename' \notin DOMAIN Files
      BY <1>10 DEF GetFile
    <2>4. c \in {"200", "400", "404"}
      OBVIOUS
    <2> QED
      BY <1>2, <1>4, <2>2, <2>3, <2>4, AnswerKeeps
  <1> QED
    BY <1>1, <1>8, <1>9, <1>10

(* The next part of the file follows what was sent of it, unless a send failed. *)
LEMMA ServePartKeeps ==
  ASSUME IInv, ServePart
  PROVE  IInv'
  <1> DEFINE file == Files[filename]
  <1>1. PICK upTo \in ReadTo :
          /\ send_data(SubSeq(file, readSoFar + 1, upTo))
          /\ readSoFar' = upTo
          /\ srvPc' = "serve" \/ (FeofAt(upTo) /\ srvPc' = "end")
    BY DEF ServePart
  <1>2. /\ srvPc = "serve" /\ bytes_sent' = bytes_sent /\ result' = result /\ buf' = buf
        /\ output' = output /\ cliPc' = cliPc /\ filename' = filename
        /\ toServer' = toServer /\ UNCHANGED loopVars
    BY DEF ServePart, cliVars
  <1>3. PICK code \in {"none", "200", "400", "404"}, got \in Seq(Symbols) :
          Answered(code) /\ Sends(got, code) /\ Keeps(got, code)
    BY DEF IInv, StreamInv
  <1>4. /\ code = "200" /\ filename \in DOMAIN Files /\ file \in Seq(Symbols)
        /\ readSoFar \in 0 .. Len(file)
    BY <1>2, <1>3, FilesAssumption DEF Answered
  <1>5. /\ toClient \in Seq(Symbols) /\ sendFailed \in BOOLEAN /\ output \in Seq(Symbols)
        /\ BUFSIZE \in Nat \ {0}
    BY HttpBufferAssumption DEF IInv, TypeOK
  <1>6. /\ srvPc' \in {"serve", "end"}
        /\ srvPc' = "end" => upTo = Len(file)
    BY <1>1 DEF FeofAt
  <1>7. upTo \in {Smaller(readSoFar + BUFSIZE, Len(file))}
                   \cup readSoFar .. Smaller(readSoFar + BUFSIZE, Len(file))
    BY DEF ReadTo
  <1> HIDE DEF file
  <1>8. /\ Len(file) \in Nat /\ readSoFar \in Nat /\ upTo \in readSoFar .. Len(file)
        /\ upTo \in Nat /\ upTo \in 0 .. Len(file)
    <2>1. Len(file) \in Nat
      BY <1>4, LenProperties
    <2> QED
      BY <1>4, <1>5, <1>7, <2>1 DEF Smaller
  <1> DEFINE data == SubSeq(file, readSoFar + 1, upTo)
  <1>9. data \in Seq(Symbols) /\ send_data(data)
    BY <1>1, <1>4, <1>8, PartOfSeq
  <1>10. SubSeq(file, 1, readSoFar) \o data = SubSeq(file, 1, upTo)
    BY <1>4, <1>8, PartsMeet
  <1> HIDE DEF data
  <1>11. sent = got \o toClient
    BY <1>3 DEF Sends
  <1>12. PICK part \in Seq(Symbols) :
           /\ sent' = sent \o part /\ toClient' \in Seq(Symbols)
           /\ sent \in Seq(Symbols) /\ sent' \in Seq(Symbols)
           /\ sent' = got \o toClient'
           /\ sendFailed' \in BOOLEAN /\ (sendFailed => sendFailed')
           /\ ~sendFailed' => part = data
    BY <1>5, <1>9, <1>11, SendData
  <1>13. TypeOK'
    <2>1. readSoFar' \in Nat /\ readSoFar' <= Len(file)
      BY <1>1, <1>8
    <2>2. Files[filename'] = file
      BY <1>2 DEF file
    <2>3. LoopType'
      BY <1>2 DEF IInv, TypeOK, LoopType, loopVars
    <2> QED
      BY <1>2, <1>6, <1>12, <2>1, <2>2, <2>3, SMTT(30) DEF IInv, TypeOK
  <1>14. ForkedOnce'
    BY <1>2, <1>6 DEF IInv, ForkedOnce, loopVars
  <1>15. RequestInv' /\ StartOf(filename, path)'
    BY <1>2, <1>6 DEF IInv, RequestInv, StartOf
  <1>16. OutcomeInv'
    <2>1. OutputIsPrefix'
      <3> SUFFICES ASSUME output # << >>
                   PROVE  OutputIsPrefix'
        BY <1>2 DEF OutputIsPrefix
      <3>1. /\ \E body \in AfterHeader(sent) : StartOf(output, body)
            /\ \/ sendFailed
               \/ /\ filename \in DOMAIN Files
                  /\ HeaderEndsAgain(Files[filename]) \/ StartOf(output, Files[filename])
        BY DEF IInv, OutcomeInv, OutputIsPrefix
      <3>2. \E body \in AfterHeader(sent \o part) : StartOf(output, body)
        BY <1>5, <1>12, <3>1, MoreSent
      <3>3. \E body \in AfterHeader(sent') : StartOf(output, body)
        BY <1>12, <3>2
      <3> QED
        BY <1>2, <1>12, <3>1, <3>3 DEF OutputIsPrefix, StartOf
    <2>2. ResultIsRight'
      <3>1. result # 0
        BY <1>2 DEF IInv, OutcomeInv, ResultIsRight
      <3>2. result = 1 => sendFailed \/ filename \notin DOMAIN Files
        BY DEF IInv, OutcomeInv, ResultIsRight
      <3> QED
        BY <1>2, <1>12, <3>1, <3>2 DEF ResultIsRight
    <2> QED
      BY <1>2, <1>6, <2>1, <2>2 DEF IInv, OutcomeInv
  <1>17. StreamInv'
    <2>1. Answered(code)'
      BY <1>1, <1>2, <1>4, <1>6, <1>8 DEF Answered, file
    <2>2. Sends(got, code)'
      <3> SUFFICES ASSUME ~sendFailed'
                   PROVE  sent' = Stream(code)'
        BY <1>12 DEF Sends
      <3> DEFINE r == Response("200")
                 s == SubSeq(file, 1, readSoFar)
      <3>1. r \in Seq(Symbols)
        <4>1. "200" \in {"200", "400", "404"}
          OBVIOUS
        <4> QED
          BY <4>1, ResponseIs
      <3>2. s \in Seq(Symbols)
        BY <1>4, FirstPart
      <3>3. sent = r \o s
        <4>1. ~sendFailed
          BY <1>12
        <4> QED
          BY <1>3, <1>4, <4>1 DEF Sends, Stream, file
      <3>4. Stream(code)' = r \o SubSeq(file, 1, upTo)
        BY <1>1, <1>2, <1>4 DEF Stream, file
      <3> HIDE DEF r, s
      <3>5. (r \o s) \o data = r \o (s \o data)
        <4>1. data \in Seq(Symbols)
          BY <1>9
        <4> QED
          BY <3>1, <3>2, <4>1, ConcatAssociative, SMTT(60)
      <3>6. sent' = sent \o data
        BY <1>12
      <3>7. s \o data = SubSeq(file, 1, upTo)
        BY <1>10 DEF s
      <3> QED
        BY <3>3, <3>4, <3>5, <3>6, <3>7, Zenon
    <2>3. Keeps(got, code)'
      BY <1>2, <1>3, <1>4 DEF Keeps
    <2> QED
      BY <2>1, <2>2, <2>3 DEF StreamInv
  <1> QED
    BY <1>13, <1>14, <1>15, <1>16, <1>17 DEF IInv


(* Whatever the child does. *)
LEMMA ChildKeeps ==
  ASSUME IInv, ChildStep
  PROVE  IInv'
  <1>1. CASE RecvRequest
    BY <1>1, RecvRequestKeeps
  <1>2. CASE RecvRequestFails
    <2>1. toServer' \in Seq(Symbols)
      BY <1>2 DEF RecvRequestFails, IInv, TypeOK
    <2> QED
      BY <1>2, <2>1, ChildGivesUp DEF RecvRequestFails
  <1>3. CASE ServePart
    BY <1>3, ServePartKeeps
  <1>4. CASE ServeKilled
    <2>1. toServer' \in Seq(Symbols)
      BY <1>4 DEF ServeKilled, IInv, TypeOK
    <2> QED
      BY <1>4, <2>1, ChildGivesUp DEF ServeKilled
  <1> QED
    BY <1>1, <1>2, <1>3, <1>4 DEF ChildStep

------------------------------------------------------------------------------
(* The steps of the first process *)

(* Each step keeps the types of its variables. *)
LEMMA LoopTypeKept ==
  ASSUME LoopType,
         \/ \E c \in Conns : Fork(c)
         \/ ForkFails \/ AcceptLoop \/ sigchld_handler
         \/ \E c \in Conns : ChildEnds(c)
  PROVE  LoopType'
  <1>1. CASE \E c \in Conns : Fork(c)
    BY <1>1 DEF LoopType, Fork
  <1>2. CASE ForkFails
    BY <1>2 DEF LoopType, ForkFails
  <1>3. CASE AcceptLoop
    BY <1>3 DEF LoopType, AcceptLoop, Accept, CloseNewFd
  <1>4. CASE sigchld_handler
    BY <1>4 DEF LoopType, sigchld_handler, HandlerStarts, HandlerReaps, HandlerReturns
  <1>5. CASE \E c \in Conns : ChildEnds(c)
    BY <1>5 DEF LoopType, ChildEnds
  <1> QED
    BY <1>1, <1>2, <1>3, <1>4, <1>5

(* A child that was forked is not forked again: its connection is not waiting, and
   the first process goes from fork on to close. *)
LEMMA ForkedOnceKept ==
  ASSUME LoopType, ForkedOnce, srvPc' = srvPc,
         \/ ForkFails \/ AcceptLoop \/ sigchld_handler
         \/ \E c \in Conns : ChildEnds(c)
  PROVE  ForkedOnce'
  <1>1. CASE ForkFails
    BY <1>1 DEF LoopType, ForkedOnce, ForkFails
  <1>2. CASE AcceptLoop
    <2>1. ASSUME NEW c \in Conns, Accept(c)
          PROVE  ForkedOnce'
      <3>1. c \in waiting /\ waiting' = waiting \ {c} /\ server'.new_fd = c
        BY <2>1 DEF Accept
      <3> QED
        BY <3>1 DEF ForkedOnce
    <2>2. CASE CloseNewFd
      <3>1. waiting' = waiting /\ server'.new_fd = NoConn /\ server'.pc = "accept"
        BY <2>2 DEF CloseNewFd
      <3>2. NoConn # Mine
        BY MineAssumption, ConnsAssumption
      <3> QED
        BY <3>1, <3>2 DEF ForkedOnce
    <2> QED
      BY <1>2, <2>1, <2>2 DEF AcceptLoop
  <1>3. CASE sigchld_handler
    BY <1>3 DEF ForkedOnce, sigchld_handler, HandlerStarts, HandlerReaps, HandlerReturns
  <1>4. CASE \E c \in Conns : ChildEnds(c)
    BY <1>4 DEF ForkedOnce, ChildEnds
  <1> QED
    BY <1>1, <1>2, <1>3, <1>4

(* The child of this connection begins to receive; until then nobody has answered. *)
LEMMA ForkKeeps ==
  ASSUME IInv, NEW c \in Conns, Fork(c), srvPc' = IF c = Mine THEN "recv" ELSE srvPc,
         UNCHANGED <<filename, readSoFar, sendVars, transferVars>>
  PROVE  IInv'
  <1>1. LoopType /\ LoopType' /\ ForkedOnce
    BY LoopTypeKept DEF IInv, TypeOK
  <1>2. /\ server.pc = "fork" /\ c = server.new_fd /\ waiting' = waiting
        /\ server'.pc = "close" /\ server'.new_fd = server.new_fd
    BY <1>1 DEF Fork, LoopType
  <1>3. CASE c # Mine
    <2>1. srvPc' = srvPc
      BY <1>3
    <2>2. ForkedOnce'
      BY <1>1, <1>2, <2>1 DEF ForkedOnce
    <2>3. UNCHANGED <<childVars, transferVars>>
      BY <2>1 DEF childVars
    <2> QED
      BY <1>1, <2>2, <2>3, LoopKeeps
  <1>4. CASE c = Mine
    <2>1. /\ srvPc = "none" /\ srvPc' = "recv"
      BY <1>1, <1>2, <1>4 DEF ForkedOnce, IInv, TypeOK
    <2>2. /\ filename' = filename /\ readSoFar' = readSoFar
          /\ cliPc' = cliPc /\ bytes_sent' = bytes_sent /\ buf' = buf /\ output' = output
          /\ result' = result /\ toServer' = toServer /\ toClient' = toClient
          /\ sent' = sent /\ sendFailed' = sendFailed
      BY DEF transferVars, cliVars, sendVars
    <2>3. TypeOK'
      BY <1>1, <2>1, <2>2 DEF IInv, TypeOK
    <2>4. ForkedOnce'
      BY <1>1, <1>2, <1>4 DEF ForkedOnce
    <2>5. RequestInv' /\ StartOf(filename, path)'
      BY <2>1, <2>2 DEF IInv, RequestInv, Memory, StartOf
    <2>6. OutcomeInv'
      BY <2>1, <2>2 DEF IInv, OutcomeInv, OutputIsPrefix, ResultIsRight, StartOf
    <2>7. StreamInv'
      <3>1. PICK code \in {"none", "200", "400", "404"}, got \in Seq(Symbols) :
              Answered(code) /\ Sends(got, code) /\ Keeps(got, code)
        BY DEF IInv, StreamInv
      <3>2. Answered(code)'
        BY <2>1, <2>2, <3>1 DEF Answered
      <3>3. Sends(got, code)'
        BY <2>2, <3>1 DEF Sends, Stream
      <3>4. Keeps(got, code)'
        BY <2>2, <3>1 DEF Keeps
      <3> QED
        BY <3>2, <3>3, <3>4 DEF StreamInv
    <2> QED
      BY <2>3, <2>4, <2>5, <2>6, <2>7 DEF IInv
  <1> QED
    BY <1>3, <1>4

(* Whatever the server does. *)
LEMMA ServerKeeps ==
  ASSUME IInv, ServerStep
  PROVE  IInv'
  <1>1. ASSUME UNCHANGED <<childVars, transferVars>>,
               \/ ForkFails \/ AcceptLoop \/ sigchld_handler
               \/ \E c \in Conns : ChildEnds(c)
        PROVE  IInv'
    <2>1. LoopType /\ ForkedOnce /\ srvPc' = srvPc
      BY <1>1 DEF IInv, TypeOK, childVars
    <2>2. LoopType'
      BY <1>1, <2>1, LoopTypeKept
    <2>3. ForkedOnce'
      BY <1>1, <2>1, ForkedOnceKept
    <2> QED
      BY <1>1, <2>2, <2>3, LoopKeeps
  <1>2. CASE ChildStep
    BY <1>2, ChildKeeps
  <1>3. CASE ForkChild
    BY <1>3, ForkKeeps DEF ForkChild
  <1>4. CASE Loop(ForkFails \/ AcceptLoop)
    BY <1>1, <1>4 DEF Loop
  <1>5. CASE Loop(sigchld_handler)
    BY <1>1, <1>5 DEF Loop
  <1>6. CASE MyChildEnds
    BY <1>1, <1>6, MineAssumption DEF MyChildEnds, Loop
  <1>7. CASE OtherChildEnds
    BY <1>1, <1>7 DEF OtherChildEnds, Loop
  <1> QED
    BY <1>2, <1>3, <1>4, <1>5, <1>6, <1>7 DEF ServerStep, ServerLoop

------------------------------------------------------------------------------
(* The theorems *)

(* IInv is an invariant: what the client has received (recv_data, client.c) and what is
   on its way make up what the child has sent (send_data, server.c), which is all that
   it had to send as long as none of its sends has failed. *)
THEOREM HttpInvariant == Spec => []IInv
  <1>1. Init => IInv
    <2> SUFFICES ASSUME Init
                 PROVE  IInv
      OBVIOUS
    <2>1. << >> \in Seq(Symbols) /\ Len(<< >>) = 0 /\ << >> \o << >> = << >>
      BY EmptySeq, ConcatEmptySeq
    <2>2. Len(request) \in Nat /\ Len(path) \in Nat
      BY RequestIs
    <2>3. TypeOK
      <3>1. LoopType
        BY DEF Init, LoopInit, LoopType
      <3>2. 0 \in 0 .. 2 * Len(request) /\ 0 <= BUFSIZE
        BY <2>2, HttpBufferAssumption
      <3> QED
        BY <2>1, <3>1, <3>2 DEF Init, TypeOK
    <2>4. ForkedOnce
      BY MineAssumption, ConnsAssumption DEF Init, LoopInit, ForkedOnce
    <2>5. RequestInv
      BY <2>1 DEF Init, RequestInv
    <2>6. StartOf(filename, path)
      <3>1. SubSeq(path, 1, 0) = << >>
        <4>1. 1 \in Int /\ 0 \in Int /\ 0 < 1
          OBVIOUS
        <4> QED
          BY <4>1, SubSeqEmpty
      <3> QED
        BY <2>1, <2>2, <3>1 DEF Init, StartOf
    <2>7. StreamInv
      <3>1. Answered("none")
        BY DEF Init, Answered
      <3>2. Sends(<< >>, "none")
        BY <2>1 DEF Init, Sends, Stream
      <3>3. Keeps(<< >>, "none")
        BY DEF Init, Keeps
      <3>4. "none" \in {"none", "200", "400", "404"}
        OBVIOUS
      <3> QED
        BY <2>1, <3>1, <3>2, <3>3, <3>4 DEF StreamInv
    <2>8. OutcomeInv
      BY DEF Init, OutcomeInv, OutputIsPrefix, ResultIsRight, NoResult
    <2> QED
      BY <2>3, <2>4, <2>5, <2>6, <2>7, <2>8 DEF IInv
  <1>2. IInv /\ [Next]_vars => IInv'
    <2> SUFFICES ASSUME IInv, [Next]_vars
                 PROVE  IInv'
      OBVIOUS
    <2>1. CASE ClientStep
      BY <2>1, ClientKeeps
    <2>2. CASE ServerStep
      BY <2>2, ServerKeeps
    <2>3. CASE UNCHANGED vars
      <3>1. UNCHANGED <<childVars, transferVars>> /\ UNCHANGED loopVars /\ srvPc' = srvPc
        BY <2>3 DEF vars, srvVars, transferVars, childVars, sendVars
      <3>2. LoopType' /\ ForkedOnce'
        BY <3>1 DEF IInv, TypeOK, LoopType, ForkedOnce, loopVars
      <3> QED
        BY <3>1, <3>2, LoopKeeps
    <2> QED
      BY <2>1, <2>2, <2>3 DEF Next
  <1> QED
    BY <1>1, <1>2, PTL DEF Spec

(* However often the request is sent in parts, the name that the server finds is
   the start of the path (get_filename, server.c). *)
THEOREM HttpNameIsOfPath == Spec => []NameIsOfPath
  <1>1. IInv => NameIsOfPath
    BY DEF IInv, NameIsOfPath
  <1> QED
    BY <1>1, HttpInvariant, PTL

(* What recv_data writes (client.c) is what the child has sent behind the end of a
   header, from there on without a gap, even when sends of the child fail, which
   send_data's callers ignore (server.c).  As long as none has failed, it is the
   start of the file that was opened, unless the bytes that end a header come again. *)
THEOREM HttpOutputIsPrefix == Spec => []OutputIsPrefix
  <1>1. IInv => OutputIsPrefix
    BY DEF IInv, OutcomeInv
  <1> QED
    BY <1>1, HttpInvariant, PTL

(* What recv_data returns (client.c): success only after the child has ended, with
   everything written that it sent behind the end of a header, and as long as no
   send of the child has failed this is the whole of the file, unless the bytes
   that end a header come again; a missing file only if the server did not
   find it or a send of it has failed. *)
THEOREM HttpResultIsRight == Spec => []ResultIsRight
  <1>1. IInv => ResultIsRight
    BY DEF IInv, OutcomeInv
  <1> QED
    BY <1>1, HttpInvariant, PTL

(* No child that has ended is forgotten by sigchld_handler (server.c), although
   signals merge. *)
THEOREM HttpNoZombieForgotten == Spec => []NoZombieForgotten
  <1>1. Init => NoZombieForgotten
    BY DEF Init, LoopInit, NoZombieForgotten
  <1>2. NoZombieForgotten /\ [Next]_vars => NoZombieForgotten'
    <2> SUFFICES ASSUME NoZombieForgotten, [Next]_vars
                 PROVE  NoZombieForgotten'
      OBVIOUS
    <2>1. UNCHANGED loopVars => NoZombieForgotten'
      BY DEF NoZombieForgotten, loopVars
    <2>2. CASE ClientStep
      <3>1. UNCHANGED srvVars
        BY <2>2 DEF ClientStep, Send, SendFails, SendKilled, RequestSent, Recv, CheckCode,
                    BodyFound, BodyNotFound, RecvBody, RecvFails
      <3> QED
        BY <2>1, <3>1 DEF srvVars
    <2>3. CASE ChildStep
      <3>1. UNCHANGED loopVars
        BY <2>3 DEF ChildStep, RecvRequest, RecvRequestFails, ServePart, ServeKilled
      <3> QED
        BY <2>1, <3>1
    <2>4. CASE ForkChild
      BY <2>4 DEF ForkChild, Fork, NoZombieForgotten
    <2>5. CASE Loop(ForkFails \/ AcceptLoop)
      BY <2>5 DEF Loop, ForkFails, AcceptLoop, Accept, CloseNewFd, NoZombieForgotten
    <2>6. CASE Loop(sigchld_handler)
      BY <2>6 DEF Loop, sigchld_handler, HandlerStarts, HandlerReaps, HandlerReturns,
                  NoZombieForgotten
    <2>7. CASE MyChildEnds \/ OtherChildEnds
      BY <2>7 DEF MyChildEnds, OtherChildEnds, Loop, ChildEnds, NoZombieForgotten
    <2>8. CASE UNCHANGED vars
      BY <2>1, <2>8 DEF vars, srvVars
    <2> QED
      BY <2>2, <2>3, <2>4, <2>5, <2>6, <2>7, <2>8 DEF Next, ServerStep, ServerLoop
  <1> QED
    BY <1>1, <1>2, PTL DEF Spec


==============================================================================
