---------------------------- MODULE WindowProofs ----------------------------
(***************************************************************************)
(* Proofs about the transfer of mp2 with a window: what the sender counts  *)
(* as acknowledged was accepted, the file is closed complete, and no byte  *)
(* of an earlier window is written in the place of a later one.            *)
(***************************************************************************)
EXTENDS WindowTransfer, ProofLemmas

------------------------------------------------------------------------------
(* The inductive invariant *)

Closed == sndPc \in {"fin", "finselect", "end"}

(* The byte may stand at position i of the output: it is from there or, when
   the buffer was read into while a packet waited, from further on. *)
Fits(byte, i) ==
  \E place \in i .. Len(File) : byte = File[place] /\ (~overwritten => place = i)

(* The buffer holds the bytes that were numbered last; unless the transfer was
   cut short, all the bytes read are numbered. *)
Buffer ==
  /\ seqNum <= filePos
  /\ ~stopSending => seqNum = filePos
  /\ Len(to_send) <= seqNum
  /\ to_send = SubSeq(File, seqNum - Len(to_send) + 1, seqNum)

(* The packets of the window are at least a buffer apart; the last one ends where
   the numbered bytes end.  While the window is filled, only the last packet of
   the file is not full. *)
Window ==
  /\ IsFiniteSet(packets_sent)
  /\ \A s \in packets_sent : sendBase <= s /\ s + Len(to_send) <= seqNum
  /\ \A s, t \in packets_sent : s < t => s + Len(to_send) <= t
  /\ packets_sent # {} => seqNum - Len(to_send) \in packets_sent
  /\ ~overwritten => packets_sent \subseteq {seqNum - Len(to_send)}
  /\ sndPc = "read" =>
       /\ totSentSoFar < bytesToTransfer
       /\ packets_sent # {} /\ ~stopSending =>
            Len(to_send) = DATASIZE \/ filePos = Len(File)

(* What is acknowledged was accepted, and what was accepted was numbered. *)
Accepted ==
  /\ sendBase <= bytesRcvdSoFar /\ bytesRcvdSoFar <= seqNum
  /\ packets_sent = {} => bytesRcvdSoFar = seqNum
  /\ sndPc = "loop" \/ Closed => packets_sent = {}

(* No acknowledgement is ahead of the receiver. *)
AcksAccepted ==
  /\ \A i \in 1 .. Len(rcvrACK_q) : rcvrACK_q[i] <= bytesRcvdSoFar
  /\ sa.rcvdSoFar <= bytesRcvdSoFar
  /\ \A m \in ackNet : m.ack <= bytesRcvdSoFar

Packets ==
  \A m \in dataNet :
    /\ FLAG_FIN \in m.flags => Closed
    /\ FLAG_FIN \notin m.flags =>
         /\ m.seq + Len(m.data) <= seqNum
         /\ \A j \in 1 .. Len(m.data) : Fits(m.data[j], m.seq + j)

(* Every accepted byte is written or about to be written. *)
Written ==
  /\ bytesRcvdSoFar = Len(outfile) + Len(rx.data)
  /\ rx.pc \notin {"push", "write"} => rx.data = <<>>
  /\ rx.pc \in {"fin", "close", "exit"} => Closed
  /\ \A i \in 1 .. Len(outfile) : Fits(outfile[i], i)
  /\ \A j \in 1 .. Len(rx.data) : Fits(rx.data[j], Len(outfile) + j)

IInv ==
  TypeOK /\ Buffer /\ Window /\ Accepted /\ AcksAccepted /\ Packets /\ Written

------------------------------------------------------------------------------
(* Numbers *)

(* A word holds more than one number, and a small number as it is. *)
LEMMA Words ==
  /\ WORD \in Nat \ {0}
  /\ \A n \in Nat : n < WORD => UInt32(n) = n
  <1>1. WORD \in Nat \ {0}
    BY IntMaxAssumption DEF WORD
  <1>2. ASSUME NEW n \in Nat, n < WORD
        PROVE  n % WORD = n
    BY <1>1, <1>2, RemainderOfSmall
  <1> QED
    BY <1>1, <1>2 DEF UInt32

(* The file has a length, and the bytes to transfer are some of its bytes. *)
LEMMA FileLength ==
  /\ Len(File) \in Nat
  /\ bytesToTransfer \in Nat /\ bytesToTransfer <= Len(File)
  BY WtFileAssumption, WtAskedAssumption DEF bytesToTransfer, Smaller

(* Numbers between two bounds, each at least l before the next and the last at
   least l before the upper bound, are so few that their gaps fit in between. *)
LEMMA GapsFit ==
  ASSUME NEW l \in Nat, NEW a \in Nat, NEW b \in Nat,
         NEW S \in SUBSET Nat, IsFiniteSet(S), a <= b,
         \A s \in S : a <= s /\ s + l <= b,
         \A s, t \in S : s < t => s + l <= t
  PROVE  a + Cardinality(S) * l <= b
  <1> DEFINE Gaps(A, c) ==
               /\ IsFiniteSet(A) /\ a <= c
               /\ \A s \in A : a <= s /\ s + l <= c
               /\ \A s, t \in A : s < t => s + l <= t
             Fit(c) == \A A \in SUBSET Nat : Gaps(A, c) => a + Cardinality(A) * l <= c
             W == {n \in Nat : \A c \in 0 .. n : Fit(c)}
  <1>1. CASE l = 0
    BY <1>1, FS_CardinalityType
  <1>2. CASE l > 0
    <2>1. Cardinality({}) * l = 0
      BY FS_EmptySet
    <2>2. Fit(0)
      <3> SUFFICES ASSUME NEW A \in SUBSET Nat, Gaps(A, 0)
                   PROVE  a + Cardinality(A) * l <= 0
        OBVIOUS
      <3>1. A = {} /\ a = 0
        BY <1>2
      <3> QED
        BY <2>1, <3>1
    <2>3. ASSUME NEW n \in Nat, n \in W
          PROVE  Fit(n + 1)
      <3> SUFFICES ASSUME NEW A \in SUBSET Nat, Gaps(A, n + 1)
                   PROVE  a + Cardinality(A) * l <= n + 1
        OBVIOUS
      <3>1. Cardinality(A) \in Nat
        BY FS_CardinalityType
      <3>2. CASE n + 1 - l \in A
        <4> DEFINE t == n + 1 - l
                   B == A \ {t}
        <4>1. t \in Nat /\ t <= n /\ t + l = n + 1 /\ a <= t
          BY <1>2, <3>2
        <4>2. ASSUME NEW s \in B
              PROVE  a <= s /\ s + l <= t
          <5>1. s \in A /\ s # t /\ s + l <= n + 1 /\ a <= s
            OBVIOUS
          <5>2. s \in Nat /\ s < t
            BY <4>1, <5>1
          <5> QED
            BY <3>2, <5>1, <5>2
        <4>3. IsFiniteSet(B) /\ Cardinality(B) = Cardinality(A) - 1
          BY <3>2, FS_RemoveElement
        <4>4. Gaps(B, t)
          BY <4>1, <4>2, <4>3
        <4>5. Fit(t)
          BY <2>3, <4>1
        <4>6. a + Cardinality(B) * l <= t
          <5> HIDE DEF t, B
          <5>1. B \in SUBSET Nat
            BY DEF B
          <5> QED
            BY <4>4, <4>5, <5>1
        <4>7. Cardinality(B) * l = Cardinality(A) * l - l
          BY <3>1, <4>3
        <4>8. Cardinality(A) * l \in Nat
          BY <3>1
        <4> HIDE DEF t, B
        <4> QED
          BY <4>1, <4>6, <4>7, <4>8
      <3>3. CASE n + 1 - l \notin A
        <4>1. ASSUME NEW s \in A
              PROVE  s + l <= n
          <5>1. s \in Nat /\ s + l <= n + 1 /\ s # n + 1 - l
            BY <3>3
          <5> QED
            BY <5>1
        <4>2. CASE a <= n
          <5>1. Gaps(A, n) /\ Fit(n)
            BY <2>3, <4>1, <4>2
          <5>2. a + Cardinality(A) * l <= n
            BY <5>1
          <5>3. Cardinality(A) * l \in Nat
            BY <3>1
          <5> QED
            BY <5>2, <5>3
        <4>3. CASE ~(a <= n)
          <5>1. A = {} /\ a = n + 1
            BY <1>2, <4>1, <4>3
          <5> QED
            BY <2>1, <5>1
        <4> QED
          BY <4>2, <4>3
      <3> QED
        BY <3>2, <3>3
    <2> HIDE DEF Fit
    <2>4. 0 \in W
      BY <2>2
    <2>5. ASSUME NEW n \in Nat, n \in W
          PROVE  n + 1 \in W
      <3>1. \A c \in 0 .. n + 1 : c \in 0 .. n \/ c = n + 1
        OBVIOUS
      <3> QED
        BY <2>3, <2>5, <3>1
    <2>6. Nat \subseteq W
      <3> HIDE DEF W
      <3> QED
        BY <2>4, <2>5, AllNumbers
    <2>7. Fit(b)
      BY <2>6
    <2> QED
      BY <2>7 DEF Fit
  <1> QED
    BY <1>1, <1>2

------------------------------------------------------------------------------
(* The invariant at first, and its types *)

(* It holds at first. *)
LEMMA IInvInit == Init => IInv
  <1> SUFFICES ASSUME Init PROVE IInv
    OBVIOUS
  <1> USE DEF Init, NetInit, ReceiverInit
  <1>1. << >> \in Seq(Nat) /\ Len(<< >>) = 0
    BY EmptySeq
  <1>2. TypeOK
    <2>1. NetType
      BY DEF NetType
    <2>2. ReceiverType
      BY <1>1 DEF ReceiverType
    <2>3. SenderType
      <3>1. 0 \in 0 .. WORD - 1 /\ 0 \in 0 .. Len(File)
        BY Words, FileLength
      <3>2. DATASIZE \in Nat /\ 0 <= DATASIZE
        BY WtSizeAssumption
      <3> QED
        BY <1>1, <3>1, <3>2 DEF SenderType
    <2> QED
      BY <2>1, <2>2, <2>3 DEF TypeOK
  <1>3. Buffer
    <2>1. SubSeq(File, 0 - 0 + 1, 0) = << >>
      BY SubSeqEmpty
    <2> QED
      BY <1>1, <2>1 DEF Buffer
  <1>4. Window
    BY FS_EmptySet DEF Window
  <1>5. Accepted /\ AcksAccepted /\ Packets
    BY <1>1 DEF Accepted, AcksAccepted, Packets, Closed
  <1>6. Written
    BY <1>1 DEF Written
  <1> QED
    BY <1>2, <1>3, <1>4, <1>5, <1>6 DEF IInv

(* The types of what the steps compare and add. *)
LEMMA Types ==
  ASSUME TypeOK
  PROVE  /\ seqNum \in Nat /\ sendBase \in Nat /\ filePos \in Nat /\ filePos <= Len(File)
         /\ totSentSoFar \in Nat /\ cwnd \in Nat
         /\ to_send \in Seq(Nat) /\ Len(to_send) \in Nat
         /\ packets_sent \in SUBSET Nat
         /\ bytesRcvdSoFar \in Nat
         /\ rcvrACK_q \in Seq(Nat) /\ Len(rcvrACK_q) \in Nat
         /\ sa.rcvdSoFar \in Nat
         /\ outfile \in Seq(Nat) /\ Len(outfile) \in Nat
         /\ rx.data \in Seq(Nat) /\ Len(rx.data) \in Nat
         /\ \A m \in dataNet : m.seq \in Nat /\ m.data \in Seq(Nat) /\ Len(m.data) \in Nat
         /\ \A m \in ackNet : m.ack \in Nat
  BY Words, FileLength DEF TypeOK, NetType, ReceiverType, SenderType

(* A step that leaves the numbers of the sender and the network alone preserves
   the parts of the invariant that are about the receiver. *)
LEMMA ReceiverKept ==
  ASSUME IInv, UNCHANGED <<seqNum, overwritten, receiverVars, ackNet>>, Closed => Closed'
  PROVE  AcksAccepted' /\ Written'
  <1> USE DEF IInv, receiverVars
  <1>1. AcksAccepted'
    BY DEF AcksAccepted
  <1>2. Written'
    BY DEF Written, Fits
  <1> QED
    BY <1>1, <1>2

------------------------------------------------------------------------------
(* The sender *)

(* What a turn of the loop that fills the window reads and numbers. *)
LEMMA ReadPartReads ==
  ASSUME IInv, ReadPart
  PROVE  \E size \in 0 .. DATASIZE :
           /\ Len(to_send') = size /\ to_send' \in Seq(Nat)
           /\ seqNum' = seqNum + size /\ seqNum' <= Len(File)
           /\ to_send' = SubSeq(File, seqNum + 1, seqNum + size)
           /\ filePos' \in 0 .. Len(File) /\ seqNum' <= filePos'
           /\ ~stopSending' =>
                seqNum' = filePos' /\ (size = DATASIZE \/ filePos' = Len(File))
           /\ packets_sent # {} => size <= Len(to_send)
           /\ stopSending' \in BOOLEAN
  <1> USE DEF IInv
  <1> DEFINE e == Smaller(seqNum + DATASIZE, Len(File))
             left == bytesToTransfer - totSentSoFar
             size == Smaller(e - seqNum, left)
  <1>1. /\ sndPc = "read" /\ ~stopSending /\ seqNum = filePos
        /\ seqNum \in Nat /\ seqNum <= Len(File)
    BY Types DEF ReadPart, WindowOpen, Buffer
  <1>2. left \in Nat
    BY <1>1, Types, FileLength, SMTT(30) DEF Window
  <1>3. e \in Nat /\ e >= seqNum /\ e <= Len(File) /\ e - seqNum <= DATASIZE
    BY <1>1, FileLength, WtSizeAssumption DEF Smaller
  <1>4. e - seqNum = DATASIZE \/ e = Len(File)
    BY <1>1, FileLength, WtSizeAssumption DEF Smaller
  <1>5. size \in 0 .. DATASIZE /\ size <= e - seqNum /\ (left >= e - seqNum => size = e - seqNum)
    <2> HIDE DEF e, left
    <2> QED
      BY <1>1, <1>2, <1>3, WtSizeAssumption DEF Smaller
  <1>6. NextPart = SubSeq(File, seqNum + 1, e) /\ Len(NextPart) = e - seqNum
    <2>1. NextPart = SubSeq(File, seqNum + 1, e)
      BY <1>1 DEF NextPart
    <2>2. seqNum \in 0 .. Len(File) /\ e \in seqNum .. Len(File)
      BY <1>1, <1>3, FileLength
    <2> HIDE DEF e
    <2> QED
      BY <2>1, <2>2, WtFileAssumption, PartOfSeq
  <1>7. /\ to_send' = SubSeq(NextPart, 1, size)
        /\ stopSending' = (e - seqNum > left)
        /\ seqNum' = UInt32(seqNum + size)
        /\ filePos' = seqNum + (e - seqNum)
    BY <1>1, <1>6 DEF ReadPart
  <1> HIDE DEF e, left, size
  <1>8. /\ seqNum \in 0 .. Len(File) /\ e \in seqNum .. Len(File)
        /\ size \in 0 .. e - seqNum /\ seqNum + size \in seqNum .. Len(File)
    BY <1>1, <1>3, <1>5, FileLength
  <1>9. to_send' = SubSeq(File, seqNum + 1, seqNum + size)
    BY <1>6, <1>7, <1>8, WtFileAssumption, PartOfPart
  <1>10. to_send' \in Seq(Nat) /\ Len(to_send') = size
    <2>1. (seqNum + size) - seqNum = size
      BY <1>1, <1>5
    <2> QED
      BY <1>8, <1>9, <2>1, WtFileAssumption, PartOfSeq
  <1>11. seqNum' = seqNum + size
    <2>1. seqNum + size \in Nat /\ seqNum + size < WORD
      BY <1>1, <1>8, FileLength, NumbersSuffice, Words
    <2> QED
      BY <1>7, <2>1, Words
  <1>12. filePos' = e
    BY <1>1, <1>3, <1>7
  <1>13. ~stopSending' => size = e - seqNum
    <2>1. left >= e - seqNum \/ e - seqNum > left
      BY <1>1, <1>2, <1>3
    <2>2. e - seqNum > left => stopSending'
      BY <1>7, Zenon
    <2> QED
      BY <1>5, <2>1, <2>2
  <1>14. packets_sent # {} => size <= Len(to_send)
    <2> SUFFICES ASSUME packets_sent # {}
                 PROVE  size <= Len(to_send)
      OBVIOUS
    <2>1. CASE Len(to_send) = DATASIZE
      BY <1>5, <2>1
    <2>2. CASE filePos = Len(File)
      <3>1. e = Len(File) /\ e - seqNum = 0
        BY <1>1, <1>3, <2>2, FileLength
      <3> QED
        BY <1>5, <3>1, Types
    <2> QED
      BY <1>1, <2>1, <2>2 DEF Window
  <1>15. seqNum' <= Len(File) /\ seqNum' <= filePos'
    <2>1. size \in Int /\ seqNum + size <= e
      BY <1>1, <1>3, <1>5
    <2> QED
      BY <1>1, <1>3, <2>1, <1>11, <1>12, FileLength
  <1>16. ~stopSending' => seqNum' = filePos' /\ (size = DATASIZE \/ filePos' = Len(File))
    BY <1>1, <1>3, <1>4, <1>11, <1>12, <1>13
  <1>17. filePos' \in 0 .. Len(File)
    BY <1>3, <1>12, FileLength
  <1>18. stopSending' \in BOOLEAN
    BY <1>7
  <1> QED
    BY <1>5, <1>9, <1>10, <1>11, <1>14, <1>15, <1>16, <1>17, <1>18

(* Filling the window preserves the invariant. *)
LEMMA ReadPartPreserves ==
  ASSUME IInv, ReadPart, UNCHANGED receiverVars
  PROVE  IInv'
  <1> USE DEF IInv
  <1>1. PICK size \in 0 .. DATASIZE :
           /\ Len(to_send') = size /\ to_send' \in Seq(Nat)
           /\ seqNum' = seqNum + size /\ seqNum' <= Len(File)
           /\ to_send' = SubSeq(File, seqNum + 1, seqNum + size)
           /\ filePos' \in 0 .. Len(File) /\ seqNum' <= filePos'
           /\ ~stopSending' =>
                seqNum' = filePos' /\ (size = DATASIZE \/ filePos' = Len(File))
           /\ packets_sent # {} => size <= Len(to_send)
           /\ stopSending' \in BOOLEAN
    BY ReadPartReads
  <1>2. /\ sndPc = "read" /\ packets_sent' = packets_sent \cup {seqNum}
        /\ UNCHANGED <<sndPc, totSentSoFar, unsent, sendBase, cwnd, resendPackets,
                       dataNet, ackNet, bytesRcvdSoFar, rcvrACK_q, rx, sa, outfile>>
        /\ overwritten' = (overwritten \/ packets_sent # {})
    BY DEF ReadPart, netVars, receiverVars
  <1>3. /\ size \in Nat /\ seqNum \in Nat /\ seqNum' \in Nat /\ sendBase \in Nat
        /\ seqNum' - size = seqNum /\ seqNum <= seqNum'
    <2>1. size \in Nat
      BY WtSizeAssumption
    <2>2. seqNum \in Nat /\ sendBase \in Nat
      BY Types
    <2> QED
      BY <1>1, <2>1, <2>2
  <1>4. overwritten' \in BOOLEAN
    BY <1>2
  <1>5. TypeOK'
    <2>1. NetType' /\ ReceiverType'
      BY <1>2 DEF TypeOK, NetType, ReceiverType
    <2>2. size <= DATASIZE
      BY <1>1, WtSizeAssumption
    <2>3. SenderType'
      BY <1>1, <1>2, <1>3, <1>4, <2>2 DEF TypeOK, SenderType
    <2> QED
      BY <2>1, <2>3 DEF TypeOK
  <1>6. Buffer'
    BY <1>1, <1>3 DEF Buffer
  <1>7. Window'
    <2>1. IsFiniteSet(packets_sent')
      BY <1>2, FS_AddElement DEF Window
    <2>2. ASSUME NEW s \in packets_sent'
          PROVE  sendBase' <= s /\ s + Len(to_send') <= seqNum'
      <3>1. CASE s = seqNum
        <4>1. sendBase <= seqNum
          BY Types DEF Accepted
        <4> QED
          BY <1>1, <1>2, <1>3, <3>1, <4>1
      <3>2. CASE s \in packets_sent
        <4>1. sendBase <= s /\ s + Len(to_send) <= seqNum /\ s \in Nat
          BY <3>2, Types DEF Window
        <4>2. size <= Len(to_send)
          BY <1>1, <3>2
        <4> QED
          BY <1>1, <1>2, <1>3, <4>1, <4>2, Types
      <3> QED
        BY <1>2, <3>1, <3>2
    <2>3. ASSUME NEW s \in packets_sent', NEW t \in packets_sent', s < t
          PROVE  s + Len(to_send') <= t
      <3>1. CASE s = seqNum
        <4>1. t \in packets_sent /\ t + Len(to_send) <= seqNum /\ t \in Nat
          BY <1>2, <1>3, <2>3, <3>1, Types DEF Window
        <4> QED
          BY <1>3, <2>3, <3>1, <4>1, Types
      <3>2. CASE s \in packets_sent
        <4>1. s \in Nat /\ size <= Len(to_send) /\ s + Len(to_send) <= seqNum
          BY <1>1, <3>2, Types DEF Window
        <4>2. s + Len(to_send) <= t /\ t \in Nat
          <5>1. CASE t = seqNum
            BY <1>3, <4>1, <5>1
          <5>2. CASE t \in packets_sent
            BY <2>3, <3>2, <5>2, Types DEF Window
          <5> QED
            BY <1>2, <5>1, <5>2
        <4> QED
          BY <1>1, <1>3, <4>1, <4>2, Types
      <3> QED
        BY <1>2, <3>1, <3>2
    <2>4. seqNum' - Len(to_send') \in packets_sent'
      BY <1>1, <1>2, <1>3
    <2>5. ASSUME ~overwritten'
          PROVE  packets_sent' \subseteq {seqNum' - Len(to_send')}
      <3>1. packets_sent = {}
        BY <1>2, <2>5
      <3> QED
        BY <1>1, <1>2, <1>3, <3>1
    <2>6. ASSUME ~stopSending'
          PROVE  Len(to_send') = DATASIZE \/ filePos' = Len(File)
      BY <1>1, <2>6
    <2>7. (totSentSoFar < bytesToTransfer)'
      BY <1>2 DEF Window
    <2> QED
      BY <2>1, <2>2, <2>3, <2>4, <2>5, <2>6, <2>7 DEF Window
  <1>8. Accepted'
    <2>1. /\ sendBase <= bytesRcvdSoFar /\ bytesRcvdSoFar <= seqNum
          /\ bytesRcvdSoFar \in Nat
      BY Types DEF Accepted
    <2>2. bytesRcvdSoFar <= seqNum'
      BY <1>3, <2>1
    <2> QED
      BY <1>2, <2>1, <2>2 DEF Accepted, Closed
  <1>9. ~overwritten' => ~overwritten
    BY <1>2
  <1>10. ASSUME NEW byte, NEW i \in Nat, Fits(byte, i)
         PROVE  Fits(byte, i)'
    BY <1>9, <1>10 DEF Fits
  <1>11. AcksAccepted'
    BY <1>2 DEF AcksAccepted
  <1>12. Packets'
    <2> SUFFICES ASSUME NEW m \in dataNet, FLAG_FIN \notin m.flags
                 PROVE  /\ m.seq + Len(m.data) <= seqNum'
                        /\ \A j \in 1 .. Len(m.data) : Fits(m.data[j], m.seq + j)'
      BY <1>2 DEF Packets, Closed
    <2>1. /\ m.seq + Len(m.data) <= seqNum
          /\ \A j \in 1 .. Len(m.data) : Fits(m.data[j], m.seq + j)
          /\ m.seq \in Nat /\ Len(m.data) \in Nat
      BY Types DEF Packets
    <2> QED
      BY <1>3, <1>10, <2>1
  <1>13. Written'
    <2>1. ASSUME NEW i \in 1 .. Len(outfile)
          PROVE  Fits(outfile[i], i)'
      <3>1. Fits(outfile[i], i) /\ i \in Nat
        BY Types DEF Written
      <3> QED
        BY <1>2, <1>10, <3>1
    <2>2. ASSUME NEW j \in 1 .. Len(rx.data)
          PROVE  Fits(rx.data[j], Len(outfile) + j)'
      <3>1. Fits(rx.data[j], Len(outfile) + j) /\ Len(outfile) + j \in Nat
        BY Types, SMTT(30) DEF Written
      <3> QED
        BY <1>2, <1>10, <3>1
    <2> QED
      BY <1>2, <2>1, <2>2 DEF Written, Closed
  <1> QED
    BY <1>5, <1>6, <1>7, <1>8, <1>11, <1>12, <1>13

(* Sending a packet of the window preserves the invariant: whatever its number,
   the bytes it carries may stand there. *)
LEMMA SendPacketPreserves ==
  ASSUME IInv, NEW s \in packets_sent, SendPacket(s), UNCHANGED receiverVars
  PROVE  IInv'
  <1> USE DEF IInv
  <1>1. /\ sndPc = "send" /\ sndPc' \in {"select", "send"} /\ unsent' = unsent \ {s}
        /\ dataNet' = dataNet \cup {DataPacket(s, to_send)}
        /\ totSentSoFar' = UInt32(totSentSoFar + HEADERSIZE + Len(to_send))
        /\ UNCHANGED <<seqNum, filePos, to_send, packets_sent, sendBase, cwnd,
                       resendPackets, stopSending, overwritten, ackNet,
                       bytesRcvdSoFar, rcvrACK_q, rx, sa, outfile>>
    BY DEF SendPacket, SendToReceiver, receiverVars
  <1>2. s \in Nat /\ Len(to_send) \in Nat /\ seqNum \in Nat
        /\ s + Len(to_send) <= seqNum /\ seqNum <= Len(File)
    BY Types, FileLength DEF Window, Buffer
  <1>3. DataPacket(s, to_send) = [flags |-> {}, seq |-> s, data |-> to_send]
    <2>1. s < WORD
      BY <1>2, FileLength, NumbersSuffice, Words
    <2> QED
      BY <1>2, <2>1, Words DEF DataPacket
  <1>4. TypeOK'
    <2>1. totSentSoFar' \in 0 .. WORD - 1
      <3>1. totSentSoFar + HEADERSIZE + Len(to_send) \in Nat
        BY <1>2, Types, WtSizeAssumption, SMTT(30)
      <3>2. \A n \in Nat : n % WORD \in 0 .. WORD - 1
        BY Words
      <3> QED
        BY <1>1, <3>1, <3>2 DEF UInt32
    <2>2. NetType'
      BY <1>1, <1>2, <1>3, Types, SMTT(30) DEF TypeOK, NetType
    <2>3. ReceiverType' /\ SenderType'
      BY <1>1, <2>1 DEF TypeOK, ReceiverType, SenderType
    <2> QED
      BY <2>2, <2>3 DEF TypeOK
  <1>5. Buffer' /\ Window' /\ Accepted' /\ AcksAccepted'
    BY <1>1 DEF Buffer, Window, Accepted, AcksAccepted, Closed
  <1>6. Written'
    BY <1>1 DEF Written, Fits, Closed
  <1>7. Packets'
    <2>1. ASSUME NEW j \in 1 .. Len(to_send)
          PROVE  Fits(to_send[j], s + j)
      <3> DEFINE base == seqNum - Len(to_send)
      <3>1. base \in Nat /\ base + Len(to_send) = seqNum /\ s <= base
        BY <1>2
      <3>2. to_send[j] = File[base + j]
        <4>1. base \in 0 .. Len(File) /\ seqNum \in base .. Len(File) /\ seqNum - base = Len(to_send)
          BY <1>2, <3>1, FileLength
        <4>2. to_send = SubSeq(File, base + 1, seqNum)
          BY DEF Buffer
        <4> HIDE DEF base
        <4> QED
          <5> DEFINE size == seqNum - base
          <5>1. Len(to_send) = size /\ j \in 1 .. size
            BY <4>1
          <5>2. \A i \in 1 .. seqNum - base : SubSeq(File, base + 1, seqNum)[i] = File[base + i]
            BY <4>1, WtFileAssumption, PartOfSeq
          <5> QED
            BY <4>2, <5>1, <5>2
      <3>3. ~overwritten => s = base
        BY DEF Window
      <3>4. base + j \in s + j .. Len(File)
        BY <1>2, <3>1, FileLength
      <3> HIDE DEF base
      <3> QED
        BY <3>2, <3>3, <3>4 DEF Fits
    <2>2. ASSUME NEW m \in dataNet'
          PROVE  /\ FLAG_FIN \in m.flags => Closed'
                 /\ FLAG_FIN \notin m.flags =>
                      /\ m.seq + Len(m.data) <= seqNum'
                      /\ \A j \in 1 .. Len(m.data) : Fits(m.data[j], m.seq + j)'
      <3>1. CASE m \in dataNet
        BY <1>1, <3>1 DEF Packets, Closed, Fits
      <3>2. CASE m = DataPacket(s, to_send)
        <4>1. m.flags = {} /\ m.seq = s /\ m.data = to_send
          BY <1>3, <3>2
        <4> QED
          BY <1>1, <1>2, <2>1, <4>1 DEF Fits
      <3> QED
        BY <1>1, <3>1, <3>2
    <2> QED
      BY <2>2 DEF Packets
  <1> QED
    BY <1>4, <1>5, <1>6, <1>7

(* What an ACK that arrives in time does: it erases packets that were accepted,
   from the lower end of the window, and moves sendBase over them. *)
LEMMA GotAckErases ==
  ASSUME IInv, NEW m \in ackNet, GotAck(m)
  PROVE  /\ packets_sent' = packets_sent \ Acked(m.ack) /\ IsFiniteSet(packets_sent')
         /\ sendBase' \in Nat /\ sendBase <= sendBase' /\ sendBase' <= bytesRcvdSoFar
         /\ \A t \in packets_sent' : sendBase' <= t
         /\ packets_sent' # {} => seqNum - Len(to_send) \in packets_sent'
         /\ packets_sent' = {} => bytesRcvdSoFar = seqNum
         /\ cwnd' \in Nat
  <1> USE DEF IInv
  <1> DEFINE l == Len(to_send)
             gone == Acked(m.ack)
             n == Cardinality(gone)
  <1>1. /\ packets_sent' = packets_sent \ gone
        /\ sendBase' = sendBase + n * l
        /\ cwnd' = IF gone # {} THEN cwnd + DATASIZE ELSE cwnd
    BY DEF GotAck, SendAll
  <1>2. /\ l \in Nat /\ sendBase \in Nat /\ cwnd \in Nat /\ m.ack \in Nat
        /\ seqNum \in Nat /\ bytesRcvdSoFar \in Nat /\ packets_sent \in SUBSET Nat
    BY Types
  <1>3. /\ IsFiniteSet(packets_sent)
        /\ \A s \in packets_sent : sendBase <= s /\ s + l <= seqNum
        /\ \A s, t \in packets_sent : s < t => s + l <= t
        /\ packets_sent # {} => seqNum - l \in packets_sent
    BY DEF Window
  <1>4. gone = {s \in packets_sent : s + l <= m.ack}
    BY DEF Acked
  <1> HIDE DEF l, gone
  <1>5. IsFiniteSet(gone) /\ gone \in SUBSET packets_sent /\ IsFiniteSet(packets_sent \ gone)
    BY <1>3, <1>4, FS_Subset
  <1>6. n \in Nat /\ n * l \in Nat
    BY <1>2, <1>5, FS_CardinalityType
  <1>7. m.ack <= bytesRcvdSoFar /\ bytesRcvdSoFar <= seqNum /\ sendBase <= bytesRcvdSoFar
    BY DEF AcksAccepted, Accepted
  <1>8. sendBase + n * l <= bytesRcvdSoFar
    <2>1. CASE gone = {}
      <3>1. n * l = 0
        BY <1>2, <2>1, FS_EmptySet
      <3> QED
        BY <1>2, <1>7, <3>1
    <2>2. CASE gone # {}
      <3>1. sendBase <= m.ack
        <4>1. PICK s \in gone : TRUE
          BY <2>2
        <4>2. s \in Nat /\ sendBase <= s /\ s + l <= m.ack
          BY <1>2, <1>3, <1>4, <4>1
        <4> QED
          BY <1>2, <4>2
      <3>2. gone \in SUBSET Nat
        BY <1>2, <1>5
      <3>3. sendBase + n * l <= m.ack
        BY <1>2, <1>3, <1>4, <1>5, <3>1, <3>2, GapsFit
      <3> QED
        BY <1>2, <1>6, <1>7, <3>3
    <2> QED
      BY <2>1, <2>2
  <1>9. ASSUME NEW t \in packets_sent \ gone
        PROVE  sendBase + n * l <= t
    <2>1. t \in Nat /\ sendBase <= t /\ ~(t + l <= m.ack)
      BY <1>2, <1>3, <1>4
    <2>2. ASSUME NEW s \in gone
          PROVE  sendBase <= s /\ s + l <= t
      <3>1. s \in packets_sent /\ s \in Nat /\ s + l <= m.ack /\ sendBase <= s
        BY <1>2, <1>3, <1>4
      <3>2. s < t
        BY <1>2, <2>1, <3>1
      <3> QED
        BY <1>3, <3>1, <3>2
    <2>3. gone \in SUBSET Nat
      BY <1>2, <1>5
    <2>4. \A s1, s2 \in gone : s1 < s2 => s1 + l <= s2
      BY <1>3, <1>5
    <2> QED
      BY <1>2, <1>5, <2>1, <2>2, <2>3, <2>4, GapsFit
  <1>10. seqNum - l \in gone => packets_sent \ gone = {} /\ bytesRcvdSoFar = seqNum
    <2> SUFFICES ASSUME seqNum - l \in gone
                 PROVE  packets_sent \ gone = {} /\ bytesRcvdSoFar = seqNum
      OBVIOUS
    <2>1. seqNum <= m.ack
      BY <1>2, <1>4
    <2>2. ASSUME NEW s \in packets_sent
          PROVE  s \in gone
      <3>1. s \in Nat /\ s + l <= seqNum
        BY <1>2, <1>3
      <3> QED
        BY <1>2, <1>4, <2>1, <3>1
    <2>3. packets_sent \ gone = {}
      BY <2>2
    <2>4. bytesRcvdSoFar = seqNum
      BY <1>2, <1>7, <2>1
    <2> QED
      BY <2>3, <2>4
  <1>11. packets_sent \ gone # {} => seqNum - l \in packets_sent \ gone
    BY <1>3, <1>10
  <1>12. packets_sent \ gone = {} => bytesRcvdSoFar = seqNum
    <2>1. CASE packets_sent = {}
      BY <2>1 DEF Accepted
    <2>2. CASE packets_sent # {}
      BY <1>3, <1>10, <2>2
    <2> QED
      BY <2>1, <2>2
  <1>13. cwnd' \in Nat
    BY <1>1, <1>2, WtSizeAssumption
  <1>14. sendBase' \in Nat /\ sendBase <= sendBase'
    BY <1>1, <1>2, <1>6
  <1> QED
    BY <1>1, <1>5, <1>8, <1>9, <1>11, <1>12, <1>13, <1>14 DEF l, gone

(* A step that sends and reads nothing preserves the invariant when it erases
   only packets that were accepted, keeps the last one unless it erases all, and
   leaves the round or ends only with an empty window. *)
LEMMA SenderKeeps ==
  ASSUME IInv, UNCHANGED <<seqNum, totSentSoFar, filePos, to_send, stopSending,
                           overwritten, receiverVars, netVars>>,
         packets_sent' \subseteq packets_sent, unsent' \subseteq packets_sent',
         sendBase' \in Nat, sendBase' <= bytesRcvdSoFar,
         \A t \in packets_sent' : sendBase' <= t,
         packets_sent' # {} => seqNum - Len(to_send) \in packets_sent',
         packets_sent' = {} => bytesRcvdSoFar = seqNum,
         cwnd' \in Nat, resendPackets' \in BOOLEAN,
         sndPc' \in {"loop", "read", "send", "select", "fin", "finselect", "end"},
         sndPc' = "loop" \/ Closed' => packets_sent' = {},
         sndPc' = "read" => packets_sent' = {} /\ totSentSoFar < bytesToTransfer,
         Closed => Closed'
  PROVE  IInv'
  <1> USE DEF IInv, netVars, receiverVars
  <1>1. TypeOK'
    <2>1. NetType' /\ ReceiverType'
      BY DEF TypeOK, NetType, ReceiverType
    <2>2. SenderType'
      BY DEF TypeOK, SenderType
    <2> QED
      BY <2>1, <2>2 DEF TypeOK
  <1>2. Buffer'
    BY DEF Buffer
  <1>3. Window'
    <2>1. IsFiniteSet(packets_sent')
      BY FS_Subset DEF Window
    <2>2. \A s \in packets_sent : s + Len(to_send) <= seqNum
      BY DEF Window
    <2>3. \A s, t \in packets_sent : s < t => s + Len(to_send) <= t
      BY DEF Window
    <2>4. ~overwritten => packets_sent \subseteq {seqNum - Len(to_send)}
      BY DEF Window
    <2> QED
      BY <2>1, <2>2, <2>3, <2>4 DEF Window
  <1>4. Accepted'
    <2>1. bytesRcvdSoFar <= seqNum
      BY DEF Accepted
    <2> QED
      BY <2>1 DEF Accepted
  <1>5. Packets'
    BY DEF Packets, Fits
  <1>6. AcksAccepted' /\ Written'
    BY ReceiverKept
  <1> QED
    BY <1>1, <1>2, <1>3, <1>4, <1>5, <1>6

(* An ACK that arrives in time. *)
LEMMA GotAckPreserves ==
  ASSUME IInv, NEW m \in ackNet, GotAck(m), UNCHANGED receiverVars
  PROVE  IInv'
  <1> USE DEF IInv
  <1> DEFINE rest == packets_sent \ Acked(m.ack)
  <1>1. /\ packets_sent' = rest /\ unsent' = rest /\ sndPc = "select"
        /\ sndPc' = IF rest = {} THEN "loop" ELSE "send"
        /\ resendPackets' = (resendPackets /\ m.ack < Min(packets_sent))
        /\ UNCHANGED <<seqNum, totSentSoFar, filePos, to_send, stopSending,
                       overwritten, receiverVars, netVars>>
    BY DEF GotAck, SendAll
  <1>2. /\ sendBase' \in Nat /\ sendBase' <= bytesRcvdSoFar
        /\ \A t \in packets_sent' : sendBase' <= t
        /\ packets_sent' # {} => seqNum - Len(to_send) \in packets_sent'
        /\ packets_sent' = {} => bytesRcvdSoFar = seqNum
        /\ cwnd' \in Nat
    BY GotAckErases
  <1>3. resendPackets' \in BOOLEAN
    BY <1>1, Zenon
  <1>4. rest \subseteq packets_sent
    OBVIOUS
  <1> HIDE DEF rest
  <1>5. /\ sndPc' \in {"loop", "send"} /\ (sndPc' = "loop" => packets_sent' = {})
        /\ ~Closed /\ ~Closed'
    BY <1>1 DEF Closed
  <1> QED
    BY <1>1, <1>2, <1>3, <1>4, <1>5, SenderKeeps

(* The head of the loop, the end of a window, and a time-out of select. *)
LEMMA OtherMovesPreserve ==
  ASSUME IInv, Round \/ WindowFilled \/ NoAck, UNCHANGED receiverVars
  PROVE  IInv'
  <1> USE DEF IInv
  <1>1. /\ packets_sent' = packets_sent /\ unsent' \subseteq packets_sent
        /\ UNCHANGED <<seqNum, totSentSoFar, filePos, to_send, stopSending,
                       overwritten, receiverVars, netVars, sendBase>>
    BY DEF Round, WindowFilled, NoAck, SendAll, TypeOK, SenderType
  <1>2. cwnd' \in Nat /\ resendPackets' \in BOOLEAN
    BY WtSizeAssumption DEF Round, WindowFilled, NoAck, SendAll, TypeOK, SenderType
  <1>3. /\ sendBase \in Nat /\ sendBase <= bytesRcvdSoFar
        /\ \A t \in packets_sent : sendBase <= t
        /\ packets_sent # {} => seqNum - Len(to_send) \in packets_sent
        /\ packets_sent = {} => bytesRcvdSoFar = seqNum
    BY Types DEF Window, Accepted
  <1>4. /\ sndPc' \in {"loop", "read", "send", "fin"} /\ ~Closed
        /\ sndPc' = "loop" \/ Closed' => packets_sent = {}
        /\ sndPc' = "read" => packets_sent = {} /\ totSentSoFar < bytesToTransfer
    BY DEF Round, WindowFilled, NoAck, SendAll, Closed, Accepted
  <1> QED
    BY <1>1, <1>2, <1>3, <1>4, SenderKeeps

(* The wait for the FINACK. *)
LEMMA FinAckWaitPreserves ==
  ASSUME IInv, NoFinAck \/ \E m \in ackNet : GotFinAck(m), UNCHANGED receiverVars
  PROVE  IInv'
  <1> USE DEF IInv
  <1>1. /\ UNCHANGED <<seqNum, totSentSoFar, filePos, to_send, packets_sent, unsent,
                       sendBase, cwnd, resendPackets, stopSending, overwritten,
                       receiverVars, netVars>>
        /\ sndPc = "finselect" /\ sndPc' \in {"fin", "end"}
    BY DEF NoFinAck, GotFinAck, Closing
  <1>2. /\ unsent \subseteq packets_sent /\ cwnd \in Nat /\ resendPackets \in BOOLEAN
    BY DEF TypeOK, SenderType
  <1>3. /\ sendBase \in Nat /\ sendBase <= bytesRcvdSoFar
        /\ packets_sent = {} /\ bytesRcvdSoFar = seqNum
    BY <1>1, Types DEF Accepted, Closed
  <1> QED
    BY <1>1, <1>2, <1>3, SenderKeeps DEF Closed

(* A FIN goes out only after the last window is empty. *)
LEMMA SendFinPreserves ==
  ASSUME IInv, SendFin, UNCHANGED receiverVars
  PROVE  IInv'
  <1> USE DEF IInv
  <1>1. /\ UNCHANGED <<seqNum, totSentSoFar, filePos, to_send, packets_sent, unsent,
                       sendBase, cwnd, resendPackets, stopSending, overwritten,
                       receiverVars, ackNet>>
        /\ sndPc = "fin" /\ sndPc' = "finselect"
        /\ dataNet' = dataNet \cup {FinPacket}
    BY DEF SendFin, Closing, SendToReceiver
  <1>2. FinPacket \in [flags: SUBSET {FLAG_FIN}, seq: Nat, data: Seq(Nat)]
        /\ FLAG_FIN \in FinPacket.flags
    BY EmptySeq DEF FinPacket
  <1>3. TypeOK'
    <2>1. NetType'
      BY <1>1, <1>2 DEF TypeOK, NetType
    <2>2. ReceiverType' /\ SenderType'
      BY <1>1 DEF TypeOK, ReceiverType, SenderType, receiverVars
    <2> QED
      BY <2>1, <2>2 DEF TypeOK
  <1>4. Closed /\ Closed'
    BY <1>1 DEF Closed
  <1>5. Buffer' /\ Window' /\ Accepted'
    BY <1>1 DEF Buffer, Window, Accepted, Closed, receiverVars
  <1>6. Packets'
    BY <1>1, <1>2, <1>4 DEF Packets, Fits
  <1>7. AcksAccepted' /\ Written'
    BY <1>1, <1>4, ReceiverKept
  <1> QED
    BY <1>3, <1>5, <1>6, <1>7

(* Every step of the sender preserves the invariant. *)
LEMMA SenderPreserves ==
  ASSUME IInv, SenderStep, UNCHANGED receiverVars
  PROVE  IInv'
  <1>1. CASE ReadPart
    BY <1>1, ReadPartPreserves
  <1>2. CASE \E s \in packets_sent : SendPacket(s)
    BY <1>2, SendPacketPreserves
  <1>3. CASE \E m \in ackNet : GotAck(m)
    BY <1>3, GotAckPreserves
  <1>4. CASE Round \/ WindowFilled \/ NoAck
    BY <1>4, OtherMovesPreserve
  <1>5. CASE NoFinAck \/ \E m \in ackNet : GotFinAck(m)
    BY <1>5, FinAckWaitPreserves
  <1>6. CASE SendFin
    BY <1>6, SendFinPreserves
  <1> QED
    BY <1>1, <1>2, <1>3, <1>4, <1>5, <1>6 DEF SenderStep

------------------------------------------------------------------------------
(* The receiver *)

(* A step that leaves the sender and dataNet alone preserves what is about them. *)
LEMMA SenderKept ==
  ASSUME IInv, UNCHANGED <<senderVars, dataNet>>,
         bytesRcvdSoFar' = bytesRcvdSoFar
         \/ (bytesRcvdSoFar' \in bytesRcvdSoFar .. seqNum)
  PROVE  /\ SenderType' /\ Buffer' /\ Window' /\ Accepted' /\ Packets'
         /\ (Closed <=> Closed')
         /\ \A byte, i : Fits(byte, i) <=> Fits(byte, i)'
  <1> USE DEF IInv, senderVars
  <1>1. SenderType' /\ Buffer' /\ Window'
    BY DEF TypeOK, SenderType, Buffer, Window
  <1>2. Accepted'
    <2>1. bytesRcvdSoFar' >= bytesRcvdSoFar /\ bytesRcvdSoFar' <= seqNum
      BY Types DEF Accepted
    <2>2. sendBase <= bytesRcvdSoFar'
      BY <2>1, Types DEF Accepted, TypeOK
    <2>3. packets_sent = {} => bytesRcvdSoFar' = seqNum
      BY <2>1, Types DEF Accepted
    <2> QED
      BY <2>1, <2>2, <2>3 DEF Accepted, Closed
  <1>3. Packets' /\ (Closed <=> Closed')
    BY DEF Packets, Closed, Fits
  <1>4. \A byte, i : Fits(byte, i) <=> Fits(byte, i)'
    BY DEF Fits
  <1> QED
    BY <1>1, <1>2, <1>3, <1>4

(* Accepting a packet that continues the file, or turning one down. *)
LEMMA RxDataPreserves ==
  ASSUME IInv, NEW m \in dataNet, RxData(m), UNCHANGED senderVars
  PROVE  IInv'
  <1> USE DEF IInv
  <1>1. /\ rx.pc = "recv" /\ FLAG_FIN \notin m.flags
        /\ UNCHANGED <<rcvrACK_q, sa, outfile, dataNet, ackNet>>
    BY DEF RxData, netVars
  <1>2. /\ m.seq \in Nat /\ Len(m.data) \in Nat /\ m.data \in Seq(Nat)
        /\ bytesRcvdSoFar \in Nat /\ seqNum \in Nat /\ Len(outfile) \in Nat
    BY Types
  <1>3. /\ m.seq + Len(m.data) <= seqNum /\ seqNum <= Len(File)
        /\ \A j \in 1 .. Len(m.data) : Fits(m.data[j], m.seq + j)
    <2>1. seqNum <= Len(File)
      BY Types, FileLength DEF Buffer
    <2> QED
      BY <1>1, <2>1 DEF Packets
  <1>4. rx.data = << >> /\ Len(rx.data) = 0 /\ bytesRcvdSoFar = Len(outfile)
    BY <1>1, <1>2, EmptySeq DEF Written
  <1>5. ASSUME m.seq = bytesRcvdSoFar
        PROVE  IInv'
    <2>1. bytesRcvdSoFar' = bytesRcvdSoFar + Len(m.data)
      <3>1. bytesRcvdSoFar + Len(m.data) \in Nat /\ bytesRcvdSoFar + Len(m.data) < WORD
        BY <1>2, <1>3, <1>5, FileLength, NumbersSuffice, Words
      <3> QED
        BY <1>5, <3>1, Words DEF RxData
    <2>2. rx' = [pc |-> "push", data |-> m.data]
      BY <1>5 DEF RxData
    <2>3. bytesRcvdSoFar' \in bytesRcvdSoFar .. seqNum
      BY <1>2, <1>3, <1>5, <2>1
    <2>4. /\ SenderType' /\ Buffer' /\ Window' /\ Accepted' /\ Packets'
          /\ (Closed <=> Closed')
          /\ \A byte, i : Fits(byte, i) <=> Fits(byte, i)'
      BY <1>1, <2>3, SenderKept
    <2>5. TypeOK'
      <3>1. NetType' /\ ReceiverType'
        BY <1>1, <1>2, <2>1, <2>2 DEF TypeOK, NetType, ReceiverType
      <3> QED
        BY <2>4, <3>1 DEF TypeOK
    <2>6. AcksAccepted'
      <3>1. ASSUME NEW n \in Nat, n <= bytesRcvdSoFar
            PROVE  n <= bytesRcvdSoFar'
        BY <1>2, <2>1, <3>1
      <3>2. \A i \in 1 .. Len(rcvrACK_q) : rcvrACK_q[i] \in Nat
        BY DEF TypeOK, ReceiverType
      <3> QED
        BY <1>1, <3>1, <3>2, Types DEF AcksAccepted
    <2>7. Written'
      <3>1. ASSUME NEW j \in 1 .. Len(m.data)
            PROVE  Fits(m.data[j], Len(outfile) + j)'
        BY <1>1, <1>3, <1>4, <1>5, <2>4
      <3>2. ASSUME NEW i \in 1 .. Len(outfile)
            PROVE  Fits(outfile[i], i)'
        BY <1>1, <2>4 DEF Written
      <3> QED
        BY <1>1, <1>2, <1>4, <2>1, <2>2, <3>1, <3>2 DEF Written
    <2> QED
      BY <2>4, <2>5, <2>6, <2>7
  <1>6. ASSUME m.seq # bytesRcvdSoFar
        PROVE  IInv'
    <2>1. bytesRcvdSoFar' = bytesRcvdSoFar /\ rx' = [pc |-> "push", data |-> << >>]
      BY <1>6 DEF RxData
    <2>2. /\ SenderType' /\ Buffer' /\ Window' /\ Accepted' /\ Packets'
          /\ (Closed <=> Closed')
          /\ \A byte, i : Fits(byte, i) <=> Fits(byte, i)'
      BY <1>1, <2>1, SenderKept
    <2>3. TypeOK'
      <3>1. NetType' /\ ReceiverType'
        BY <1>1, <1>2, <2>1, EmptySeq DEF TypeOK, NetType, ReceiverType
      <3> QED
        BY <2>2, <3>1 DEF TypeOK
    <2>4. AcksAccepted'
      BY <1>1, <2>1 DEF AcksAccepted
    <2>5. Written'
      <3>1. \A i \in 1 .. Len(outfile) : Fits(outfile[i], i)'
        BY <1>1, <2>2 DEF Written
      <3> QED
        BY <1>1, <1>2, <1>4, <2>1, <3>1, EmptySeq DEF Written
    <2> QED
      BY <2>2, <2>3, <2>4, <2>5
  <1> QED
    BY <1>5, <1>6

(* Writing moves the accepted bytes behind those that are written already. *)
LEMMA RxWritePreserves ==
  ASSUME IInv, RxWrite, UNCHANGED senderVars
  PROVE  IInv'
  <1> USE DEF IInv
  <1>1. /\ rx.pc = "write" /\ outfile' = outfile \o rx.data
        /\ rx' = [pc |-> "recv", data |-> << >>]
        /\ UNCHANGED <<bytesRcvdSoFar, rcvrACK_q, sa, dataNet, ackNet>>
    BY DEF RxWrite, netVars
  <1>2. /\ SenderType' /\ Buffer' /\ Window' /\ Accepted' /\ Packets'
        /\ (Closed <=> Closed')
        /\ \A byte, i : Fits(byte, i) <=> Fits(byte, i)'
    BY <1>1, SenderKept
  <1>3. /\ outfile \in Seq(Nat) /\ Len(outfile) \in Nat
        /\ rx.data \in Seq(Nat) /\ Len(rx.data) \in Nat
    BY Types
  <1>4. /\ outfile' \in Seq(Nat) /\ Len(outfile') = Len(outfile) + Len(rx.data)
        /\ \A i \in 1 .. Len(outfile) + Len(rx.data) :
             outfile'[i] = IF i <= Len(outfile) THEN outfile[i]
                           ELSE rx.data[i - Len(outfile)]
    BY <1>1, <1>3, ConcatProperties
  <1>5. TypeOK'
    <2>1. NetType' /\ ReceiverType'
      BY <1>1, <1>4, EmptySeq DEF TypeOK, NetType, ReceiverType
    <2> QED
      BY <1>2, <2>1 DEF TypeOK
  <1>6. AcksAccepted'
    BY <1>1 DEF AcksAccepted
  <1>7. Written'
    <2>1. ASSUME NEW i \in 1 .. Len(outfile')
          PROVE  Fits(outfile'[i], i)
      <3>1. CASE i <= Len(outfile)
        <4>1. i \in 1 .. Len(outfile) /\ outfile'[i] = outfile[i]
          <5>1. i \in 1 .. Len(outfile) /\ i \in 1 .. Len(outfile) + Len(rx.data)
            BY <1>3, <1>4, <3>1
          <5> QED
            BY <1>4, <5>1
        <4> QED
          BY <4>1 DEF Written
      <3>2. CASE ~(i <= Len(outfile))
        <4> DEFINE j == i - Len(outfile)
        <4>1. /\ j \in 1 .. Len(rx.data) /\ outfile'[i] = rx.data[j]
              /\ Len(outfile) + j = i
          BY <1>3, <1>4, <3>2
        <4> HIDE DEF j
        <4>2. Fits(rx.data[j], Len(outfile) + j)
          BY <4>1 DEF Written
        <4> QED
          BY <4>1, <4>2
      <3> QED
        BY <3>1, <3>2
    <2>2. \A i \in 1 .. Len(outfile') : Fits(outfile[i], i)'
      BY <1>2, <2>1
    <2>3. bytesRcvdSoFar' = Len(outfile') + Len(rx'.data) /\ Len(rx'.data) = 0
      BY <1>1, <1>3, <1>4, EmptySeq DEF Written
    <2> QED
      BY <1>1, <2>2, <2>3 DEF Written
  <1> QED
    BY <1>2, <1>5, <1>6, <1>7

(* The other steps of receiveData: queueing an ACK, the FIN and its answer. *)
LEMMA RxRestPreserves ==
  ASSUME IInv, UNCHANGED senderVars,
         RxPush \/ (\E m \in dataNet : RxFin(m)) \/ RxFinAck \/ RxExit
  PROVE  IInv'
  <1> USE DEF IInv
  <1>1. UNCHANGED <<bytesRcvdSoFar, sa, outfile, dataNet>> /\ rx'.data = rx.data
    BY DEF RxPush, RxFin, RxFinAck, RxExit, SendToSender, netVars, TypeOK, ReceiverType
  <1>2. /\ SenderType' /\ Buffer' /\ Window' /\ Accepted' /\ Packets'
        /\ (Closed <=> Closed')
        /\ \A byte, i : Fits(byte, i) <=> Fits(byte, i)'
    BY <1>1, SenderKept
  <1>3. rcvrACK_q' = rcvrACK_q \/ rcvrACK_q' = Append(rcvrACK_q, bytesRcvdSoFar)
    BY DEF RxPush, RxFin, RxFinAck, RxExit
  <1>4. ackNet' \subseteq ackNet \cup {FinAckPacket}
    BY DEF RxPush, RxFin, RxFinAck, RxExit, SendToSender, netVars
  <1>5. /\ rx' \in [pc: {"recv", "push", "write", "fin", "close", "exit"}, data: Seq(Nat)]
        /\ rx'.pc \in {"fin", "close", "exit"} => Closed
        /\ rx'.pc \notin {"push", "write"} => rx.data = << >>
    <2>1. \A m \in dataNet : FLAG_FIN \in m.flags => Closed
      BY DEF Packets
    <2>2. CASE RxPush
      BY <2>2 DEF RxPush, Written, TypeOK, ReceiverType
    <2>3. CASE \E m \in dataNet : RxFin(m)
      BY <2>1, <2>3 DEF RxFin, Written, TypeOK, ReceiverType
    <2>4. CASE RxFinAck
      BY <2>4 DEF RxFinAck, Written, TypeOK, ReceiverType
    <2>5. CASE RxExit
      BY <2>5 DEF RxExit, Written, TypeOK, ReceiverType
    <2> QED
      BY <2>2, <2>3, <2>4, <2>5
  <1>6. /\ rcvrACK_q' \in Seq(Nat)
        /\ \A i \in 1 .. Len(rcvrACK_q') : rcvrACK_q'[i] <= bytesRcvdSoFar
    <2>1. CASE rcvrACK_q' = rcvrACK_q
      BY <2>1, Types DEF AcksAccepted
    <2>2. CASE rcvrACK_q' = Append(rcvrACK_q, bytesRcvdSoFar)
      <3>1. /\ bytesRcvdSoFar \in Nat /\ rcvrACK_q \in Seq(Nat) /\ Len(rcvrACK_q) \in Nat
            /\ bytesRcvdSoFar <= bytesRcvdSoFar
        BY Types
      <3>2. /\ rcvrACK_q' \in Seq(Nat) /\ Len(rcvrACK_q') = Len(rcvrACK_q) + 1
            /\ rcvrACK_q'[Len(rcvrACK_q) + 1] = bytesRcvdSoFar
            /\ \A i \in 1 .. Len(rcvrACK_q) : rcvrACK_q'[i] = rcvrACK_q[i]
        BY <2>2, <3>1, AppendProperties
      <3>3. \A i \in 1 .. Len(rcvrACK_q') : i \in 1 .. Len(rcvrACK_q) \/ i = Len(rcvrACK_q) + 1
        BY <3>1, <3>2
      <3> QED
        BY <3>1, <3>2, <3>3 DEF AcksAccepted
    <2> QED
      BY <1>3, <2>1, <2>2
  <1>7. FinAckPacket \in [flags: SUBSET {FLAG_FIN, FLAG_ACK}, ack: Nat] /\ FinAckPacket.ack = 0
    BY DEF FinAckPacket
  <1>8. TypeOK'
    <2>1. NetType'
      BY <1>1, <1>4, <1>7 DEF TypeOK, NetType
    <2>2. ReceiverType'
      BY <1>1, <1>5, <1>6 DEF TypeOK, ReceiverType
    <2> QED
      BY <1>2, <2>1, <2>2 DEF TypeOK
  <1>9. AcksAccepted'
    BY <1>1, <1>4, <1>6, <1>7, Types DEF AcksAccepted
  <1>10. Written'
    BY <1>1, <1>2, <1>5 DEF Written
  <1> QED
    BY <1>2, <1>8, <1>9, <1>10

(* sendACK sends the largest of the queued numbers: one that was accepted. *)
LEMMA SendACKPreserves ==
  ASSUME IInv, SendACK, UNCHANGED senderVars
  PROVE  IInv'
  <1> USE DEF IInv
  <1>1. UNCHANGED <<bytesRcvdSoFar, rx, outfile, dataNet>>
    BY DEF SendACK, SaDrain, SaSend, SendToSender, netVars
  <1>2. /\ SenderType' /\ Buffer' /\ Window' /\ Accepted' /\ Packets'
        /\ (Closed <=> Closed')
        /\ \A byte, i : Fits(byte, i) <=> Fits(byte, i)'
    BY <1>1, SenderKept
  <1>3. CASE SaDrain
    <2>1. PICK n \in Largest(rcvrACK_q) : sa' = [pc |-> "send", rcvdSoFar |-> n]
      BY <1>3 DEF SaDrain
    <2>2. n \in Nat /\ n <= bytesRcvdSoFar
      <3>1. PICK i \in 1 .. Len(rcvrACK_q) : n = rcvrACK_q[i]
        BY <2>1, Types DEF Largest
      <3> QED
        BY <3>1, Types, SMTT(30) DEF AcksAccepted
    <2>3. rcvrACK_q' = << >> /\ ackNet' = ackNet
      BY <1>3 DEF SaDrain, netVars
    <2>4. TypeOK'
      <3>1. NetType' /\ ReceiverType'
        BY <1>1, <2>1, <2>2, <2>3, EmptySeq DEF TypeOK, NetType, ReceiverType
      <3> QED
        BY <1>2, <3>1 DEF TypeOK
    <2>5. AcksAccepted'
      BY <1>1, <2>1, <2>2, <2>3, EmptySeq DEF AcksAccepted
    <2>6. Written'
      BY <1>1, <1>2 DEF Written
    <2> QED
      BY <1>2, <2>4, <2>5, <2>6
  <1>4. CASE SaSend
    <2>1. /\ ackNet' = ackNet \cup {AckPacket(sa.rcvdSoFar)}
          /\ sa' = [sa EXCEPT !.pc = "drain"] /\ rcvrACK_q' = rcvrACK_q
      BY <1>4 DEF SaSend, SendToSender
    <2>2. /\ AckPacket(sa.rcvdSoFar) \in [flags: SUBSET {FLAG_FIN, FLAG_ACK}, ack: Nat]
          /\ AckPacket(sa.rcvdSoFar).ack = sa.rcvdSoFar
      BY Types DEF AckPacket
    <2>3. sa' \in [pc: {"drain", "send"}, rcvdSoFar: Nat] /\ sa'.rcvdSoFar = sa.rcvdSoFar
      BY <2>1 DEF TypeOK, ReceiverType
    <2>4. TypeOK'
      <3>1. NetType' /\ ReceiverType'
        BY <1>1, <2>1, <2>2, <2>3 DEF TypeOK, NetType, ReceiverType
      <3> QED
        BY <1>2, <3>1 DEF TypeOK
    <2>5. AcksAccepted'
      BY <1>1, <2>1, <2>2, <2>3 DEF AcksAccepted
    <2>6. Written'
      BY <1>1, <1>2 DEF Written
    <2> QED
      BY <1>2, <2>4, <2>5, <2>6
  <1> QED
    BY <1>3, <1>4 DEF SendACK

------------------------------------------------------------------------------
(* The invariant and what follows from it *)

(* Every step preserves the invariant. *)
LEMMA IInvNext == IInv /\ [Next]_vars => IInv'
  <1> SUFFICES ASSUME IInv, [Next]_vars
               PROVE  IInv'
    OBVIOUS
  <1>1. CASE SenderStep /\ UNCHANGED receiverVars
    BY <1>1, SenderPreserves
  <1>2. CASE ReceiveData /\ UNCHANGED senderVars
    <2>1. CASE \E m \in dataNet : RxData(m)
      BY <1>2, <2>1, RxDataPreserves
    <2>2. CASE RxWrite
      BY <1>2, <2>2, RxWritePreserves
    <2>3. CASE RxPush \/ (\E m \in dataNet : RxFin(m)) \/ RxFinAck \/ RxExit
      BY <1>2, <2>3, RxRestPreserves
    <2> QED
      BY <1>2, <2>1, <2>2, <2>3 DEF ReceiveData
  <1>3. CASE SendACK /\ UNCHANGED senderVars
    BY <1>3, SendACKPreserves
  <1>4. CASE UNCHANGED vars
    <2>1. UNCHANGED <<senderVars, dataNet, bytesRcvdSoFar, rcvrACK_q, rx, sa, outfile, ackNet>>
      BY <1>4 DEF vars, receiverVars, netVars
    <2>2. /\ SenderType' /\ Buffer' /\ Window' /\ Accepted' /\ Packets'
          /\ (Closed <=> Closed')
      BY <2>1, SenderKept
    <2>3. seqNum' = seqNum /\ overwritten' = overwritten
      BY <2>1 DEF senderVars
    <2>4. AcksAccepted' /\ Written'
      BY <2>1, <2>2, <2>3, ReceiverKept DEF receiverVars
    <2>5. NetType' /\ ReceiverType'
      BY <2>1 DEF IInv, TypeOK, NetType, ReceiverType
    <2> QED
      BY <2>2, <2>4, <2>5 DEF IInv, TypeOK
  <1> QED
    BY <1>1, <1>2, <1>3, <1>4
    DEF Next, Sending, Receiving, receiverReceiveData, receiverSendACK

(* The inductive invariant holds in every behaviour. *)
THEOREM WindowInvariant == Spec => []IInv
  <1>1. Init => IInv
    BY IInvInit
  <1>2. IInv /\ [Next]_vars => IInv'
    BY IInvNext
  <1> QED
    BY <1>1, <1>2, PTL DEF Spec

(* senderSendData counts as acknowledged only what receiverReceiveData accepted,
   and leaves its loop only when everything that was numbered was accepted. *)
THEOREM WindowAckedIsAccepted == Spec => []AckedIsAccepted
  <1>1. IInv => AckedIsAccepted
    BY Types DEF IInv, AckedIsAccepted, Accepted, Closed
  <1> QED
    BY <1>1, WindowInvariant, PTL

(* The receiver closes its file with exactly the bytes that were numbered. *)
THEOREM WindowClosedWithAll == Spec => []ClosedWithAll
  <1>1. IInv => ClosedWithAll
    <2> SUFFICES ASSUME IInv, rx.pc \in {"fin", "close", "exit"}
                 PROVE  Len(outfile) = seqNum
      BY DEF ClosedWithAll
    <2>1. Closed /\ rx.data = << >> /\ bytesRcvdSoFar = Len(outfile) + Len(rx.data)
      BY DEF IInv, Written
    <2>2. packets_sent = {} /\ bytesRcvdSoFar = seqNum
      BY <2>1 DEF IInv, Accepted
    <2>3. Len(rx.data) = 0 /\ Len(outfile) \in Nat
      BY <2>1, EmptySeq, Types DEF IInv
    <2> QED
      BY <2>1, <2>2, <2>3
  <1> QED
    BY <1>1, WindowInvariant, PTL

(* No byte of an earlier window is written in the place of a later one, and while
   no window held two packets every byte is written in its own place. *)
THEOREM WindowNothingFromBefore == Spec => []NothingFromBefore
  <1>1. IInv => NothingFromBefore
    BY DEF IInv, Written, Fits, NothingFromBefore
  <1> QED
    BY <1>1, WindowInvariant, PTL

==============================================================================
