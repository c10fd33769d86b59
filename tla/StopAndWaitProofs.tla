-------------------------- MODULE StopAndWaitProofs --------------------------
(***************************************************************************)
(* Proofs about the transfer with one packet in flight: its inductive      *)
(* invariant, the safety properties that follow from it, and that it       *)
(* keeps the promise of Delivery.                                          *)
(***************************************************************************)
EXTENDS StopAndWait, ProofLemmas

------------------------------------------------------------------------------
(* The inductive invariant *)

Sending == sndPc \in {"send", "select"}

(* The last byte that will be sent. *)
Limit == Smaller(bytesToTransfer, Len(File))

(* Where the two programs are, and what has been written. *)
Positions ==
  /\ sentSoFar <= currentSeqNum /\ currentSeqNum <= sentSoFar + Len(fileBuffer)
  /\ ~Sending => currentSeqNum = sentSoFar
  /\ currentSeqNum <= Limit
  /\ currentSeqNum = Len(outfile)
  /\ outfile = SubSeq(File, 1, Len(outfile))

(* The packet of this round is the next part of the file.  The position in the
   file may run ahead of the packet only when the packet is the last one. *)
Round ==
  /\ Sending =>
       /\ sentSoFar + Len(fileBuffer) <= Limit
       /\ fileBuffer = SubSeq(File, sentSoFar + 1, sentSoFar + Len(fileBuffer))
       /\ \/ filePos = sentSoFar + Len(fileBuffer)
          \/ sentSoFar + Len(fileBuffer) >= bytesToTransfer
  /\ sndPc = "read" => filePos = sentSoFar \/ sentSoFar >= bytesToTransfer
  /\ Done => sentSoFar >= bytesToTransfer

(* A packet in the network is that of this round or one the receiver has. *)
Packets ==
  \A m \in dataNet :
    /\ FLAG_FIN \in m.flags => Done
    /\ FLAG_FIN \notin m.flags =>
         \/ m.seq + Len(m.data) <= sentSoFar
         \/ Sending /\ m.seq = sentSoFar /\ m.data = fileBuffer

(* An ACK in the network is not ahead of the receiver, and one with flags comes
   from a receiver that has ended. *)
Acks ==
  \A m \in ackNet : m.ack <= currentSeqNum /\ (m.flags # {} => rcvPc = "end")

(* The programs end one after the other. *)
Ends ==
  /\ rcvPc \in {"finack", "end"} => Done
  /\ sndPc = "end" => rcvPc = "end"

IInv == TypeOK /\ Positions /\ Round /\ Packets /\ Acks /\ Ends

------------------------------------------------------------------------------
(* Numbers and parts of the file *)

(* A word holds more than one number. *)
LEMMA WordIsPositive == WORD \in Nat \ {0}
  BY IntMaxAssumption DEF WORD

(* Small numbers survive the conversion to unsigned int. *)
LEMMA UnsignedSmall ==
  ASSUME NEW n \in Nat, n < WORD
  PROVE  UInt32(n) = n
  <1>1. n % WORD = n
    BY WordIsPositive, RemainderOfSmall
  <1> QED
    BY <1>1 DEF UInt32

(* The last byte that will be sent is one of the file, is one that was asked
   for, and its number fits an unsigned int. *)
LEMMA LimitProperties ==
  /\ bytesToTransfer \in Nat /\ Len(File) \in Nat
  /\ Limit \in Nat /\ Limit <= bytesToTransfer /\ Limit <= Len(File)
  /\ Limit = bytesToTransfer \/ Limit = Len(File)
  /\ Limit < WORD
  <1>1. Len(File) \in Nat
    BY SwFileAssumption
  <1>2. Len(File) % WORD \in Nat
    BY <1>1, WordIsPositive
  <1>3. fileSize \in Int
    BY <1>2, WordIsPositive DEF fileSize, AsInt, UInt32
  <1>4. bytesToTransfer \in Nat
    BY <1>3, BytesAskedAssumption DEF bytesToTransfer
  <1> QED
    BY <1>1, <1>4, CountersSuffice, WordIsPositive DEF Limit, Smaller

(* What the sender reads when it stands at the last acknowledged byte: the next
   part of the file, cut off where the transfer ends. *)
LEMMA ReadRoundReads ==
  ASSUME TypeOK, Positions, ReadRound, filePos = sentSoFar, sndPc = "read"
  PROVE  /\ fileBuffer' \in Seq(Nat) /\ Len(fileBuffer') \in 0 .. FILEBUFSIZE
         /\ sentSoFar + Len(fileBuffer') <= Limit
         /\ fileBuffer' = SubSeq(File, sentSoFar + 1, sentSoFar + Len(fileBuffer'))
         /\ filePos' \in 0 .. Len(File)
         /\ \/ filePos' = sentSoFar + Len(fileBuffer')
            \/ sentSoFar + Len(fileBuffer') >= bytesToTransfer
  <1> DEFINE s == sentSoFar
             e == Smaller(s + FILEBUFSIZE, Len(File))
             k == Smaller(e - s, bytesToTransfer - s)
  <1>1. s \in Nat /\ s < bytesToTransfer
    BY DEF TypeOK, ReadRound
  <1>2. s <= Len(File)
    BY LimitProperties, WordIsPositive DEF TypeOK, Positions, Sending
  <1>3. s \in 0 .. Len(File) /\ e \in s .. Len(File) /\ e - s <= FILEBUFSIZE
    BY <1>1, <1>2, LimitProperties, BufferAssumption DEF Smaller
  <1>4. /\ NextPart = SubSeq(File, s + 1, e)
        /\ Len(NextPart) = e - s
    <2>1. NextPart = SubSeq(File, s + 1, e)
      BY DEF NextPart
    <2> HIDE DEF e
    <2> QED
      BY <2>1, <1>3, SwFileAssumption, PartOfSeq
  <1>5. k \in 0 .. e - s /\ s + k <= Limit
    <2> HIDE DEF e
    <2> QED
      BY <1>1, <1>3, LimitProperties DEF Smaller
  <1>6. s + k \in s .. Len(File)
    <2> HIDE DEF e, k
    <2> QED
      BY <1>3, <1>5, LimitProperties
  <1>7. fileBuffer' = SubSeq(File, s + 1, s + k)
    <2>1. fileBuffer' = SubSeq(SubSeq(File, s + 1, e), 1, k)
      BY <1>4 DEF ReadRound
    <2> HIDE DEF e, k
    <2> QED
      BY <2>1, <1>3, <1>5, SwFileAssumption, PartOfPart
  <1>8. fileBuffer' \in Seq(Nat) /\ Len(fileBuffer') = k
    <2> HIDE DEF e, k
    <2>1. k = (s + k) - s
      BY <1>1, <1>3, <1>5
    <2> QED
      BY <1>3, <1>6, <1>7, <2>1, SwFileAssumption, PartOfSeq
  <1>9. filePos' = e
    <2>1. filePos' = s + (e - s)
      BY <1>4 DEF ReadRound
    <2> HIDE DEF e
    <2> QED
      BY <2>1, <1>3
  <1>10. e = s + k \/ s + k >= bytesToTransfer
    <2> HIDE DEF e
    <2> QED
      BY <1>1, <1>3, LimitProperties DEF Smaller
  <1> HIDE DEF e, k
  <1> QED
    BY <1>1, <1>3, <1>5, <1>7, <1>8, <1>9, <1>10, BufferAssumption

------------------------------------------------------------------------------
(* The invariant is inductive *)

(* It holds at first. *)
LEMMA IInvInit == Init => IInv
  <1> SUFFICES ASSUME Init PROVE IInv
    OBVIOUS
  <1> USE DEF Init, NetInit
  <1>1. << >> \in Seq(Nat) /\ Len(<< >>) = 0
    BY EmptySeq
  <1>2. TypeOK
    BY <1>1, BufferAssumption, WordIsPositive, LimitProperties DEF TypeOK, NetType
  <1>3. SubSeq(File, 1, 0) = << >>
    BY SubSeqEmpty
  <1>4. Positions
    BY <1>1, <1>3, LimitProperties DEF Positions
  <1>5. Round /\ Packets /\ Acks /\ Ends
    BY DEF Round, Packets, Acks, Ends, Sending, Done
  <1> QED
    BY <1>2, <1>4, <1>5 DEF IInv

(* The types of the packets in the network. *)
LEMMA PacketTypes ==
  ASSUME TypeOK
  PROVE  /\ \A m \in dataNet : m.seq \in Nat /\ m.data \in Seq(Nat) /\ Len(m.data) \in Nat
         /\ \A m \in ackNet : m.ack \in Nat
         /\ Len(fileBuffer) \in Nat /\ Len(outfile) \in Nat
         /\ sentSoFar \in Nat /\ currentSeqNum \in Nat /\ filePos \in Nat
  BY WordIsPositive, LimitProperties DEF TypeOK, NetType

(* While a round lasts, its end is not beyond the last byte to send. *)
LEMMA RoundEnds ==
  ASSUME IInv, Sending
  PROVE  /\ EndOfRound = sentSoFar + Len(fileBuffer)
         /\ EndOfRound <= Limit /\ EndOfRound \in 0 .. WORD - 1
  <1>1. /\ sentSoFar + Len(fileBuffer) \in Nat
        /\ sentSoFar + Len(fileBuffer) <= Limit
        /\ sentSoFar + Len(fileBuffer) < WORD
    BY PacketTypes, LimitProperties, WordIsPositive, SMTT(30) DEF IInv, Round
  <1> QED
    BY <1>1, UnsignedSmall, WordIsPositive DEF EndOfRound

(* What the receiver does with a packet of data: if it is the one it waits for,
   it is that of this round, and writing it leaves a longer prefix of the file. *)
LEMMA RcvDataWrites ==
  ASSUME IInv, NEW m \in dataNet, RcvData(m)
  PROVE  \/ outfile' = outfile /\ currentSeqNum' = currentSeqNum
         \/ /\ currentSeqNum' = currentSeqNum + Len(m.data)
            /\ currentSeqNum' \in 0 .. WORD - 1
            /\ outfile' = SubSeq(File, 1, currentSeqNum')
            /\ outfile' \in Seq(Nat) /\ Len(outfile') = currentSeqNum'
            /\ sentSoFar <= currentSeqNum'
            /\ currentSeqNum' <= sentSoFar + Len(fileBuffer)
            /\ currentSeqNum' <= Limit
            /\ Sending \/ Len(m.data) = 0
  <1> USE DEF IInv
  <1>0. CASE m.seq # currentSeqNum
    BY <1>0 DEF RcvData
  <1>1. CASE m.seq = currentSeqNum
    <2>1. /\ outfile' = outfile \o m.data
          /\ currentSeqNum' = UInt32(currentSeqNum + Len(m.data))
      BY <1>1 DEF RcvData
    <2>2. FLAG_FIN \notin m.flags
      BY DEF RcvData
    <2>3. \/ m.seq + Len(m.data) <= sentSoFar
          \/ Sending /\ m.seq = sentSoFar /\ m.data = fileBuffer
      BY <2>2 DEF Packets
    <2>4. /\ currentSeqNum + Len(m.data) \in Nat
          /\ sentSoFar <= currentSeqNum + Len(m.data)
          /\ currentSeqNum + Len(m.data) <= sentSoFar + Len(fileBuffer)
          /\ currentSeqNum + Len(m.data) <= Limit
          /\ Sending \/ Len(m.data) = 0
      <3>1. /\ Len(m.data) \in Nat /\ Len(fileBuffer) \in Nat
            /\ sentSoFar \in Nat /\ currentSeqNum \in Nat
        BY PacketTypes
      <3>2. sentSoFar <= currentSeqNum /\ currentSeqNum <= Limit /\ Limit \in Nat
        BY LimitProperties DEF Positions
      <3>3. CASE m.seq + Len(m.data) <= sentSoFar
        BY <1>1, <3>1, <3>2, <3>3
      <3>4. CASE Sending /\ m.seq = sentSoFar /\ m.data = fileBuffer
        <4>1. sentSoFar + Len(fileBuffer) <= Limit
          BY <3>4 DEF Round
        <4> QED
          BY <1>1, <3>1, <3>2, <3>4, <4>1
      <3> QED
        BY <2>3, <3>3, <3>4
    <2>5. /\ currentSeqNum' = currentSeqNum + Len(m.data)
          /\ currentSeqNum' \in 0 .. WORD - 1
      <3>1. currentSeqNum + Len(m.data) < WORD
        BY <2>4, LimitProperties, WordIsPositive
      <3> QED
        BY <2>1, <2>4, <3>1, UnsignedSmall, WordIsPositive
    <2>6. outfile = SubSeq(File, 1, currentSeqNum)
      BY DEF Positions
    <2>7. m.data = SubSeq(File, currentSeqNum + 1, currentSeqNum + Len(m.data))
      <3>1. CASE Len(m.data) = 0
        <4>1. m.data = << >>
          BY <3>1, PacketTypes, EmptySeq
        <4>2. SubSeq(File, currentSeqNum + 1, currentSeqNum + Len(m.data)) = << >>
          BY <3>1, PacketTypes, SubSeqEmpty
        <4> QED
          BY <4>1, <4>2
      <3>2. CASE Len(m.data) # 0
        <4>1. Sending /\ sentSoFar = currentSeqNum /\ m.data = fileBuffer
          BY <1>1, <2>3, <3>2, PacketTypes DEF Positions
        <4> QED
          BY <4>1 DEF Round
      <3> QED
        BY <3>1, <3>2
    <2>8. /\ currentSeqNum \in 0 .. Len(File)
          /\ currentSeqNum + Len(m.data) \in currentSeqNum .. Len(File)
      BY <2>4, PacketTypes, LimitProperties, SMTT(30) DEF Positions
    <2>9. outfile' = SubSeq(File, 1, currentSeqNum')
      <3>1. SubSeq(File, 1, currentSeqNum)
              \o SubSeq(File, currentSeqNum + 1, currentSeqNum + Len(m.data))
            = SubSeq(File, 1, currentSeqNum + Len(m.data))
        BY <2>8, SwFileAssumption, PartsMeet
      <3> QED
        BY <2>1, <2>5, <2>6, <2>7, <3>1
    <2>10. outfile' \in Seq(Nat) /\ Len(outfile') = currentSeqNum'
      <3>1. currentSeqNum' \in 0 .. Len(File)
        BY <2>4, <2>5, LimitProperties
      <3> QED
        BY <2>9, <3>1, SwFileAssumption, FirstPart
    <2> QED
      BY <2>4, <2>5, <2>9, <2>10
  <1> QED
    BY <1>0, <1>1

(* A step of the sender that only moves it from one of the later places to the
   next one. *)
LEMMA SenderMoves ==
  ASSUME IInv, UNCHANGED <<sentSoFar, fileBuffer, filePos, rcvVars, netVars>>,
         \/ AllSent
         \/ Drain
         \/ NoAck
         \/ NoFinAck
         \/ \E m \in ackNet : GotFinAck(m)
  PROVE  IInv'
  <1> USE DEF IInv, rcvVars, netVars
  <1>1. /\ sndPc' \in {"read", "send", "select", "drain", "fin", "finselect", "end"}
        /\ Sending' <=> Sending
        /\ Done => Done'
        /\ Done' => sentSoFar >= bytesToTransfer
        /\ sndPc' # "read"
        /\ sndPc' = "end" => rcvPc = "end"
    BY DEF AllSent, Drain, NoAck, NoFinAck, GotFinAck, Sending, Done, Round, Acks
  <1>2. TypeOK'
    BY <1>1 DEF TypeOK, NetType
  <1>3. Positions'
    BY <1>1 DEF Positions
  <1>4. Round'
    BY <1>1 DEF Round
  <1>5. Packets'
    BY <1>1 DEF Packets
  <1>6. Acks' /\ Ends'
    BY <1>1 DEF Acks, Ends
  <1> QED
    BY <1>2, <1>3, <1>4, <1>5, <1>6

(* Every step of the sender preserves the invariant. *)
LEMMA SenderPreserves ==
  ASSUME IInv, SenderStep
  PROVE  IInv'
  <1> USE DEF IInv
  <1>1. CASE ReadRound
    <2> USE <1>1
    <2>1. /\ sndPc = "read" /\ sndPc' = "send" /\ sentSoFar < bytesToTransfer
          /\ UNCHANGED <<sentSoFar, rcvPc, currentSeqNum, outfile, dataNet, ackNet>>
      BY DEF ReadRound, rcvVars, netVars
    <2>2. filePos = sentSoFar
      BY <2>1, PacketTypes, LimitProperties DEF Round
    <2>3. /\ fileBuffer' \in Seq(Nat) /\ Len(fileBuffer') \in 0 .. FILEBUFSIZE
          /\ sentSoFar + Len(fileBuffer') <= Limit
          /\ fileBuffer' = SubSeq(File, sentSoFar + 1, sentSoFar + Len(fileBuffer'))
          /\ filePos' \in 0 .. Len(File)
          /\ \/ filePos' = sentSoFar + Len(fileBuffer')
             \/ sentSoFar + Len(fileBuffer') >= bytesToTransfer
      BY <2>1, <2>2, ReadRoundReads
    <2>4. TypeOK'
      BY <2>1, <2>3, BufferAssumption DEF TypeOK, NetType
    <2>5. Positions'
      <3>1. sentSoFar \in Nat /\ currentSeqNum = sentSoFar
        BY <2>1, PacketTypes DEF Positions, Sending
      <3>2. Len(fileBuffer') \in Nat
        BY <2>3, BufferAssumption
      <3>3. /\ sentSoFar' <= currentSeqNum'
            /\ currentSeqNum' <= sentSoFar' + Len(fileBuffer')
        BY <2>1, <3>1, <3>2
      <3> QED
        BY <2>1, <3>3 DEF Positions, Sending
    <2>6. Round'
      BY <2>1, <2>3 DEF Round, Sending, Done
    <2>7. Packets' /\ Acks' /\ Ends'
      BY <2>1 DEF Packets, Acks, Ends, Sending, Done
    <2> QED
      BY <2>4, <2>5, <2>6, <2>7
  <1>2. CASE SendPacket
    <2> USE <1>2
    <2>1. /\ sndPc = "send" /\ sndPc' = "select"
          /\ UNCHANGED <<sentSoFar, fileBuffer, filePos, rcvPc, currentSeqNum, outfile,
                         ackNet>>
          /\ dataNet' = dataNet \cup {DataPacket(sentSoFar, fileBuffer)}
      BY DEF SendPacket, SendToReceiver, rcvVars
    <2>2. DataPacket(sentSoFar, fileBuffer)
            = [flags |-> {}, seq |-> sentSoFar, data |-> fileBuffer]
      <3>1. UInt32(sentSoFar) = sentSoFar
        BY UnsignedSmall, WordIsPositive DEF TypeOK
      <3> QED
        BY <3>1 DEF DataPacket
    <2>3. TypeOK'
      BY <2>1, <2>2, PacketTypes DEF TypeOK, NetType
    <2>4. Positions' /\ Round'
      BY <2>1 DEF Positions, Round, Sending, Done
    <2>5. Packets'
      BY <2>1, <2>2 DEF Packets, Sending, Done
    <2>6. Acks' /\ Ends'
      BY <2>1 DEF Acks, Ends, Done
    <2> QED
      BY <2>3, <2>4, <2>5, <2>6
  <1>3. ASSUME NEW m \in ackNet, GotAck(m)
        PROVE  IInv'
    <2> USE <1>3
    <2>1. /\ sndPc = "select"
          /\ UNCHANGED <<fileBuffer, filePos, rcvPc, currentSeqNum, outfile, dataNet, ackNet>>
      BY DEF GotAck, rcvVars, netVars
    <2>2. /\ EndOfRound = sentSoFar + Len(fileBuffer)
          /\ EndOfRound <= Limit /\ EndOfRound \in 0 .. WORD - 1
      BY <2>1, RoundEnds DEF Sending
    <2>3. CASE m.ack # EndOfRound
      <3>1. sndPc' = "send" /\ sentSoFar' = sentSoFar
        BY <2>3 DEF GotAck
      <3>2. TypeOK' /\ Positions' /\ Round'
        BY <2>1, <3>1 DEF TypeOK, NetType, Positions, Round, Sending, Done
      <3>3. Packets' /\ Acks' /\ Ends'
        BY <2>1, <3>1 DEF Packets, Acks, Ends, Sending, Done
      <3> QED
        BY <3>2, <3>3
    <2>4. CASE m.ack = EndOfRound
      <3>1. sndPc' = "read" /\ sentSoFar' = sentSoFar + Len(fileBuffer)
        BY <2>2, <2>4 DEF GotAck
      <3>2. m.ack <= currentSeqNum
        BY DEF Acks
      <3>3. currentSeqNum = sentSoFar'
        BY <2>2, <2>4, <3>1, <3>2, PacketTypes DEF Positions
      <3>4. TypeOK'
        BY <2>1, <2>2, <3>1 DEF TypeOK, NetType
      <3>5. Positions'
        BY <2>1, <3>1, <3>3, PacketTypes DEF Positions, Sending
      <3>6. Round'
        BY <2>1, <3>1 DEF Round, Sending, Done
      <3>7. Packets'
        <4> SUFFICES ASSUME NEW p \in dataNet, FLAG_FIN \notin p.flags
                     PROVE  p.seq + Len(p.data) <= sentSoFar'
          BY <2>1 DEF Packets, Sending, Done
        <4>1. \/ p.seq + Len(p.data) <= sentSoFar
              \/ p.seq = sentSoFar /\ p.data = fileBuffer
          BY DEF Packets
        <4> QED
          BY <3>1, <4>1, PacketTypes
      <3>8. Acks' /\ Ends'
        BY <2>1, <3>1 DEF Acks, Ends, Done
      <3> QED
        BY <3>4, <3>5, <3>6, <3>7, <3>8
    <2> QED
      BY <2>3, <2>4
  <1>4. CASE SendFin
    <2> USE <1>4
    <2>1. /\ sndPc = "fin" /\ sndPc' = "finselect"
          /\ UNCHANGED <<sentSoFar, fileBuffer, filePos, rcvPc, currentSeqNum, outfile,
                         ackNet>>
          /\ dataNet' = dataNet \cup {FinPacket}
      BY DEF SendFin, SendToReceiver, rcvVars
    <2>2. TypeOK'
      <3>1. << >> \in Seq(Nat)
        BY EmptySeq
      <3>2. FinPacket \in [flags: SUBSET {FLAG_FIN}, seq: Nat, data: Seq(Nat)]
        BY <3>1 DEF FinPacket
      <3> QED
        BY <2>1, <3>2 DEF TypeOK, NetType
    <2>3. Positions' /\ Round'
      BY <2>1 DEF Positions, Round, Sending, Done
    <2>4. Packets'
      BY <2>1 DEF Packets, Sending, Done, FinPacket
    <2>5. Acks' /\ Ends'
      BY <2>1 DEF Acks, Ends, Done
    <2> QED
      BY <2>2, <2>3, <2>4, <2>5
  <1>5. CASE \/ AllSent
             \/ Drain
             \/ NoAck
             \/ NoFinAck
             \/ \E m \in ackNet : GotFinAck(m)
    <2>1. UNCHANGED <<sentSoFar, fileBuffer, filePos, rcvVars, netVars>>
      BY <1>5 DEF AllSent, Drain, NoAck, NoFinAck, GotFinAck
    <2> QED
      BY <1>5, <2>1, SenderMoves
  <1> QED
    BY <1>1, <1>2, <1>3, <1>4, <1>5 DEF SenderStep

(* Every step of the receiver preserves the invariant. *)
LEMMA ReceiverPreserves ==
  ASSUME IInv, ReceiverStep
  PROVE  IInv'
  <1> USE DEF IInv
  <1>1. ASSUME NEW m \in dataNet, RcvData(m)
        PROVE  IInv'
    <2> USE <1>1
    <2>1. /\ rcvPc = "recv" /\ rcvPc' = "ack"
          /\ UNCHANGED <<sndPc, sentSoFar, fileBuffer, filePos, dataNet, ackNet>>
      BY DEF RcvData, sndVars, netVars
    <2>2. \/ outfile' = outfile /\ currentSeqNum' = currentSeqNum
          \/ /\ currentSeqNum' = currentSeqNum + Len(m.data)
             /\ currentSeqNum' \in 0 .. WORD - 1
             /\ outfile' = SubSeq(File, 1, currentSeqNum')
             /\ outfile' \in Seq(Nat) /\ Len(outfile') = currentSeqNum'
             /\ sentSoFar <= currentSeqNum'
             /\ currentSeqNum' <= sentSoFar + Len(fileBuffer)
             /\ currentSeqNum' <= Limit
             /\ Sending \/ Len(m.data) = 0
      BY RcvDataWrites
    <2>3. currentSeqNum' \in Nat /\ currentSeqNum' >= currentSeqNum
      BY <2>2, PacketTypes
    <2>4. TypeOK'
      BY <2>1, <2>2 DEF TypeOK, NetType
    <2>5. Positions'
      <3>1. CASE outfile' = outfile /\ currentSeqNum' = currentSeqNum
        BY <2>1, <3>1 DEF Positions, Sending
      <3>2. CASE ~(outfile' = outfile /\ currentSeqNum' = currentSeqNum)
        <4>1. ~Sending => currentSeqNum' = sentSoFar
          BY <2>2, <3>2, PacketTypes DEF Positions
        <4> QED
          BY <2>1, <2>2, <3>2, <4>1 DEF Positions, Sending
      <3> QED
        BY <3>1, <3>2
    <2>6. Round' /\ Packets'
      BY <2>1 DEF Round, Packets, Sending, Done
    <2>7. Acks'
      <3> SUFFICES ASSUME NEW p \in ackNet
                   PROVE  p.ack <= currentSeqNum' /\ (p.flags # {} => rcvPc' = "end")
        BY <2>1 DEF Acks
      <3>1. p.ack <= currentSeqNum /\ (p.flags # {} => rcvPc = "end")
        BY DEF Acks
      <3> QED
        BY <2>1, <2>3, <3>1, PacketTypes
    <2>8. Ends'
      BY <2>1 DEF Ends, Done
    <2> QED
      BY <2>4, <2>5, <2>6, <2>7, <2>8
  <1>2. ASSUME NEW m \in dataNet, RcvFin(m)
        PROVE  IInv'
    <2> USE <1>2
    <2>1. /\ rcvPc = "recv" /\ rcvPc' = "finack" /\ FLAG_FIN \in m.flags
          /\ UNCHANGED <<sndPc, sentSoFar, fileBuffer, filePos, currentSeqNum, outfile,
                         dataNet, ackNet>>
      BY DEF RcvFin, sndVars, netVars
    <2>2. TypeOK' /\ Positions' /\ Round' /\ Packets'
      BY <2>1 DEF TypeOK, NetType, Positions, Round, Packets, Sending, Done
    <2>3. Acks'
      BY <2>1 DEF Acks
    <2>4. Ends'
      BY <2>1 DEF Ends, Packets, Done
    <2> QED
      BY <2>2, <2>3, <2>4
  <1>3. CASE RcvAck \/ RcvFinAck
    <2> DEFINE p == IF rcvPc = "ack" THEN DataAck ELSE FinAckPacket
    <2>1. /\ UNCHANGED <<sndPc, sentSoFar, fileBuffer, filePos, currentSeqNum, outfile,
                         dataNet>>
          /\ ackNet' = ackNet \cup {p}
          /\ \/ rcvPc = "ack" /\ rcvPc' = "recv"
             \/ rcvPc = "finack" /\ rcvPc' = "end"
      BY <1>3 DEF RcvAck, RcvFinAck, SendToSender, sndVars
    <2>2. /\ p \in [flags: SUBSET {FLAG_FIN, FLAG_ACK}, ack: Nat]
          /\ p.ack <= currentSeqNum
          /\ p.flags # {} => rcvPc' = "end"
      BY <2>1, PacketTypes DEF DataAck, FinAckPacket
    <2> HIDE DEF p
    <2>3. TypeOK'
      BY <2>1, <2>2 DEF TypeOK, NetType
    <2>4. Positions' /\ Round' /\ Packets'
      BY <2>1 DEF Positions, Round, Packets, Sending, Done
    <2>5. Acks' /\ Ends'
      BY <2>1, <2>2 DEF Acks, Ends, Done
    <2> QED
      BY <2>3, <2>4, <2>5
  <1> QED
    BY <1>1, <1>2, <1>3 DEF ReceiverStep

(* The invariant holds in every state of every transfer. *)
LEMMA IInvNext == IInv /\ [Next]_vars => IInv'
  <1> SUFFICES ASSUME IInv, [Next]_vars PROVE IInv'
    OBVIOUS
  <1>1. CASE SenderStep
    BY <1>1, SenderPreserves
  <1>2. CASE ReceiverStep
    BY <1>2, ReceiverPreserves
  <1>3. CASE UNCHANGED vars
    BY <1>3 DEF vars, sndVars, rcvVars, netVars, IInv, TypeOK, NetType, Positions,
                Round, Packets, Acks, Ends, Sending, Done
  <1> QED
    BY <1>1, <1>2, <1>3 DEF Next

(* The inductive invariant is an invariant. *)
THEOREM StopAndWaitInvariant == Spec => []IInv
  <1> QED
    BY IInvInit, IInvNext, PTL DEF Spec

------------------------------------------------------------------------------
(* The properties *)

(* Whatever the network does, the output is always a prefix of the file. *)
THEOREM StopAndWaitPrefix == Spec => []OutfilePrefix
  <1>1. IInv => OutfilePrefix
    BY LimitProperties, PacketTypes DEF IInv, Positions, OutfilePrefix
  <1> QED
    BY <1>1, StopAndWaitInvariant, PTL

(* The programs are never more than a packet apart, and their numbers stay in
   their types. *)
THEOREM StopAndWaitInStep == Spec => []InStep
  <1>1. IInv => InStep
    BY DEF IInv, Positions, InStep
  <1> QED
    BY <1>1, StopAndWaitInvariant, PTL

(* Exactly the bytes that were asked for are transferred. *)
THEOREM StopAndWaitExact == Spec => []Exact
  <1>1. IInv => Exact
    <2> SUFFICES ASSUME IInv PROVE Exact
      OBVIOUS
    <2>1. Len(outfile) <= bytesToTransfer
      BY LimitProperties, PacketTypes DEF IInv, Positions
    <2>2. ASSUME Done PROVE Len(outfile) = bytesToTransfer
      <3>1. ~Sending
        BY <2>2 DEF Done, Sending
      <3> QED
        BY <2>1, <2>2, <3>1, LimitProperties, PacketTypes DEF IInv, Positions, Round
    <2> QED
      BY <2>1, <2>2 DEF Exact
  <1> QED
    BY <1>1, StopAndWaitInvariant, PTL

(* The sender ends only after the receiver: a FINACK is not confused with an ACK
   of data, however late that comes. *)
THEOREM StopAndWaitEnds == Spec => []EndAfterReceiver
  <1>1. IInv => EndAfterReceiver
    BY DEF IInv, Ends, EndAfterReceiver
  <1> QED
    BY <1>1, StopAndWaitInvariant, PTL

------------------------------------------------------------------------------
(* The refinement of Delivery *)

(* A transfer starts as Delivery does. *)
LEMMA PromiseInit == Init => Promise!Init
  BY EmptySeq DEF Init, Promise!Init, Done

(* Each step accepts and writes a packet, completes, closes, or is not visible. *)
LEMMA PromiseStep == IInv /\ IInv' /\ [Next]_vars => [Promise!Next]_Promise!vars
  <1> SUFFICES ASSUME IInv, IInv', [Next]_vars
               PROVE  [Promise!Next]_Promise!vars
    OBVIOUS
  <1> USE DEF Promise!vars
  <1>1. CASE SenderStep
    <2>1. UNCHANGED <<rcvPc, currentSeqNum, outfile>>
      BY <1>1 DEF SenderStep, ReadRound, AllSent, SendPacket, NoAck, GotAck, GotFinAck,
                  Drain, SendFin, NoFinAck, rcvVars
    <2>2. Done => Done'
      BY <1>1 DEF SenderStep, ReadRound, AllSent, SendPacket, NoAck, GotAck, GotFinAck,
                  Drain, SendFin, NoFinAck, Done
    <2>3. CASE Done' = Done
      BY <2>1, <2>3
    <2>4. CASE Done' # Done
      <3>1. ~Done /\ Done'
        BY <2>2, <2>4 DEF Done
      <3>2. Len(outfile) >= bytesToTransfer
        <4>1. (sentSoFar >= bytesToTransfer)'
          BY <3>1 DEF IInv, Round
        <4>2. (sentSoFar <= currentSeqNum /\ currentSeqNum = Len(outfile))'
          BY DEF IInv, Positions
        <4>3. sentSoFar' \in Nat /\ currentSeqNum' \in Nat
          BY WordIsPositive DEF IInv, TypeOK
        <4> QED
          BY <2>1, <4>1, <4>2, <4>3, LimitProperties
      <3>3. Promise!Complete
        BY <2>1, <3>1, <3>2 DEF Promise!Complete, Done
      <3> QED
        BY <3>3 DEF Promise!Next
    <2> QED
      BY <2>3, <2>4
  <1>2. ASSUME NEW m \in dataNet, RcvData(m)
        PROVE  [Promise!Next]_Promise!vars
    <2>1. rcvPc = "recv" /\ rcvPc' = "ack" /\ sndPc' = sndPc
      BY <1>2 DEF RcvData, sndVars
    <2>2. /\ Len(outfile) \in Nat /\ Len(outfile') \in Nat
          /\ Len(outfile') >= Len(outfile)
      <3>1. Len(outfile) = currentSeqNum /\ Len(outfile') = currentSeqNum'
        BY DEF IInv, Positions
      <3>2. currentSeqNum' >= currentSeqNum
        BY <1>2, RcvDataWrites, PacketTypes, SMTT(20) DEF IInv
      <3> QED
        BY <3>1, <3>2, PacketTypes, WordIsPositive DEF IInv, TypeOK
    <2>3. CASE Len(outfile') = Len(outfile)
      BY <2>1, <2>3 DEF Done
    <2>4. CASE Len(outfile') > Len(outfile)
      BY <2>1, <2>2, <2>4 DEF Promise!Next, Promise!AcceptAndWrite, Done
    <2> QED
      BY <2>2, <2>3, <2>4
  <1>3. ASSUME NEW m \in dataNet, RcvFin(m)
        PROVE  [Promise!Next]_Promise!vars
    <2>1. /\ rcvPc = "recv" /\ rcvPc' = "finack" /\ FLAG_FIN \in m.flags
          /\ UNCHANGED <<sndPc, outfile>>
      BY <1>3 DEF RcvFin, sndVars
    <2>2. Done
      BY <2>1 DEF IInv, Packets
    <2> QED
      BY <2>1, <2>2 DEF Promise!Next, Promise!Close, Done
  <1>4. CASE RcvAck \/ RcvFinAck \/ UNCHANGED vars
    <2>1. /\ UNCHANGED <<sndPc, outfile>>
          /\ rcvPc \in {"finack", "end"} <=> rcvPc' \in {"finack", "end"}
      BY <1>4 DEF RcvAck, RcvFinAck, vars, sndVars, rcvVars
    <2> QED
      BY <2>1 DEF Done
  <1> QED
    BY <1>1, <1>2, <1>3, <1>4 DEF Next, ReceiverStep

(* The transfer keeps the promise of Delivery: it is taken for complete only when
   everything has been accepted, and the file is closed with all of it. *)
THEOREM StopAndWaitImplementsDelivery == Spec => ImplementsDelivery
  <1> QED
    BY PromiseInit, PromiseStep, StopAndWaitInvariant, PTL
    DEF Spec, ImplementsDelivery, Promise!Spec

==============================================================================
