--------------------------- MODULE TransferProofs ---------------------------
(***************************************************************************)
(* Proofs about the transfer of mp_tcp.  First its congestion window and   *)
(* its types, which need each other: only a well-typed window can grow.    *)
(* Then what holds in every transfer, whether or not a timeout has stolen  *)
(* the mutex, among it that a transfer implements Delivery.  Last what     *)
(* holds as long as none has: the output file is a prefix of the input.    *)
(***************************************************************************)
EXTENDS TransferInvariant, SequenceTheorems, FiniteSetTheorems, TLAPS

------------------------------------------------------------------------------
(* The congestion window *)

(* A threshold computed from a size is a natural number. *)
LEMMA ThresholdNat ==
  ASSUME NEW size \in Nat
  PROVE  (5 * size) \div 8 \in Nat /\ size \div 2 \in Nat
  OBVIOUS

(* The window that the constructor sets up satisfies the invariant. *)
LEMMA WinInitInv == WinInit => WindowInv
  BY DataSizeAssumption, SsthreshAssumption
  DEF WinInit, WindowInv, WinType, CCState, DupCounts, FastRecIffThreeDups,
      InflatedWindow, SmallWindowOnlyInAvoid

(* A timeout sets up a window that satisfies it, whatever the old one was. *)
LEMMA WinTimeoutInv == WindowInv /\ WinTimeout => WindowInv'
  <1> SUFFICES ASSUME WindowInv, WinTimeout PROVE WindowInv'
    OBVIOUS
  <1>1. win.size \in Nat
    BY DEF WindowInv, WinType
  <1>2. (5 * win.size) \div 8 \in Nat
    BY <1>1, ThresholdNat
  <1> QED
    BY <1>2, DataSizeAssumption
    DEF WinTimeout, WindowInv, WinType, CCState, DupCounts,
        FastRecIffThreeDups, InflatedWindow, SmallWindowOnlyInAvoid

(* So does a duplicate ACK, which only inflates a window that is not inflated
   yet. *)
LEMMA WinDuplicateInv == WindowInv /\ WinDuplicate => WindowInv'
  <1> SUFFICES ASSUME WindowInv, WinDuplicate PROVE WindowInv'
    OBVIOUS
  <1>1. win \in WinType
    BY DEF WindowInv
  <1>2. CASE EntersFastRec
    <2>1. win' = [state |-> "FAST_REC", size |-> win.size + 3 * DATASIZE,
                  ssthresh |-> win.size \div 2, dup |-> 3]
      BY <1>2 DEF WinDuplicate
    <2>2. win.size \in Nat /\ win.size \div 2 \in Nat
      BY <1>1, ThresholdNat DEF WinType
    <2>3. win.size + 3 * DATASIZE \in Nat
          /\ win.size + 3 * DATASIZE >= 3 * DATASIZE
          /\ win.size + 3 * DATASIZE >= DATASIZE
          /\ (win.size + 3 * DATASIZE) - 3 * DATASIZE = win.size
      BY <2>2, DataSizeAssumption
    <2> QED
      BY <2>1, <2>2, <2>3, DataSizeAssumption
      DEF WindowInv, WinType, CCState, DupCounts, FastRecIffThreeDups,
          InflatedWindow, SmallWindowOnlyInAvoid
  <1>3. CASE ~EntersFastRec
    <2>1. win' = [win EXCEPT !.dup = CountDuplicate(@)]
      BY <1>3 DEF WinDuplicate
    <2>2. /\ win' \in WinType
          /\ win'.state = win.state /\ win'.size = win.size
          /\ win'.ssthresh = win.ssthresh
          /\ win'.dup = CountDuplicate(win.dup)
      BY <1>1, <2>1 DEF WinType, CountDuplicate, DupCounts
    <2>3. win'.state = "FAST_REC" <=> win'.dup >= 3
      BY <1>1, <1>3, <2>2
      DEF WindowInv, WinType, FastRecIffThreeDups, EntersFastRec,
          CountDuplicate, DupCounts
    <2> QED
      BY <2>2, <2>3 DEF WindowInv, FastRecIffThreeDups, InflatedWindow,
                        SmallWindowOnlyInAvoid
  <1> QED
    BY <1>2, <1>3

(* The sizes of congestion avoidance are not below the current one. *)
LEMMA AvoidSizesGrow ==
  ASSUME NEW s \in Nat, NEW packets \in Nat, NEW t \in AvoidSizes(s, packets)
  PROVE  t \in Nat /\ t >= s
  <1>1. CASE s = 0
    BY <1>1 DEF AvoidSizes
  <1>2. CASE s # 0
    BY <1>2 DEF AvoidSizes
  <1> QED
    BY <1>1, <1>2

(* And so does a new ACK, in each of the three states. *)
LEMMA WinNewAckInv ==
  ASSUME NEW packets \in Nat, WindowInv, WinNewAck(packets)
  PROVE  WindowInv'
  <1>1. win \in WinType
    BY DEF WindowInv
  <1>2. CASE win.state = "SLOW_START"
    <2> DEFINE grown == win.size + packets * DATASIZE
    <2>1. win' = [state |-> IF grown >= win.ssthresh THEN "CNG_AVOID"
                                                      ELSE "SLOW_START",
                  size |-> grown, ssthresh |-> win.ssthresh, dup |-> 0]
      BY <1>2 DEF WinNewAck
    <2>2. grown \in Nat /\ grown >= win.size
      <3>1. packets * DATASIZE \in Nat
        BY DataSizeAssumption
      <3> QED
        BY <1>1, <3>1 DEF WinType
    <2>3. win.size >= DATASIZE
      BY <1>1, <1>2, DataSizeAssumption
      DEF WindowInv, SmallWindowOnlyInAvoid, WinType
    <2> HIDE DEF grown
    <2>4. /\ win' \in WinType
          /\ win'.state \in {"SLOW_START", "CNG_AVOID"}
          /\ win'.size >= win.size /\ win'.dup = 0
      BY <1>1, <1>2, <2>1, <2>2 DEF WinType, CCState, DupCounts
    <2>5. win'.size >= DATASIZE
      BY <1>1, <2>3, <2>4, DataSizeAssumption DEF WinType
    <2>6. ~(win'.size < DATASIZE)
      BY <2>4, <2>5, DataSizeAssumption DEF WinType
    <2> QED
      BY <2>4, <2>6 DEF WindowInv, FastRecIffThreeDups, InflatedWindow,
                        SmallWindowOnlyInAvoid
  <1>3. CASE win.state = "CNG_AVOID"
    <2>1. PICK s \in AvoidSizes(win.size, packets) :
            win' = [state |-> "CNG_AVOID", size |-> s,
                    ssthresh |-> win.ssthresh, dup |-> 0]
      BY <1>3 DEF WinNewAck
    <2>2. s \in Nat
      BY <1>1, AvoidSizesGrow DEF WinType
    <2>3. win' \in WinType /\ win'.state = "CNG_AVOID" /\ win'.dup = 0
      BY <1>1, <1>3, <2>1, <2>2 DEF WinType, DupCounts
    <2> QED
      BY <2>3 DEF WindowInv, FastRecIffThreeDups, InflatedWindow,
                        SmallWindowOnlyInAvoid
  <1>4. CASE win.state = "FAST_REC"
    <2>1. win' = [state |-> "CNG_AVOID", size |-> win.ssthresh,
                  ssthresh |-> win.ssthresh, dup |-> 0]
      BY <1>4 DEF WinNewAck
    <2>2. win' \in WinType /\ win'.state = "CNG_AVOID" /\ win'.dup = 0
      BY <1>1, <2>1 DEF WinType, CCState, DupCounts
    <2> QED
      BY <2>2 DEF WindowInv, FastRecIffThreeDups, InflatedWindow,
                        SmallWindowOnlyInAvoid
  <1> QED
    BY <1>1, <1>2, <1>3, <1>4 DEF WinType, CCState

------------------------------------------------------------------------------
(* Multiples of DATASIZE *)

(* The number 0 is aligned. *)
LEMMA AlignedZero == Aligned(0)
  <1>1. 0 \in 0 .. 0 /\ 0 = 0 * DATASIZE
    BY DataSizeAssumption
  <1> QED
    BY <1>1 DEF Aligned

(* The number after an aligned one by a packet is aligned. *)
LEMMA AlignedNext ==
  ASSUME NEW n \in Nat, Aligned(n)
  PROVE  Aligned(n + DATASIZE)
  <1>1. PICK k \in 0 .. n : n = k * DATASIZE
    BY DEF Aligned
  <1>2. n + DATASIZE = (k + 1) * DATASIZE
    BY <1>1, DataSizeAssumption
  <1>3. k + 1 \in 0 .. (n + DATASIZE)
    BY <1>1, DataSizeAssumption
  <1> QED
    BY <1>2, <1>3 DEF Aligned

(* Two aligned numbers that differ are at least a packet apart. *)
LEMMA AlignedGap ==
  ASSUME NEW m \in Nat, NEW n \in Nat, Aligned(m), Aligned(n), m < n
  PROVE  m + DATASIZE <= n
  <1>1. PICK j \in 0 .. m : m = j * DATASIZE
    BY DEF Aligned
  <1>2. PICK k \in 0 .. n : n = k * DATASIZE
    BY DEF Aligned
  <1>3. j < k
    <2> SUFFICES ASSUME k <= j PROVE FALSE
      BY <1>1, <1>2
    <2>1. k * DATASIZE <= j * DATASIZE
      BY <1>1, <1>2, DataSizeAssumption
    <2> QED
      BY <1>1, <1>2, <2>1
  <1>4. (j + 1) * DATASIZE <= k * DATASIZE
    BY <1>1, <1>2, <1>3, DataSizeAssumption
  <1>5. (j + 1) * DATASIZE = j * DATASIZE + DATASIZE
    BY <1>1, DataSizeAssumption
  <1> QED
    BY <1>1, <1>2, <1>4, <1>5

------------------------------------------------------------------------------
(* Conversions *)

(* A word can hold INT_MAX, and a packet more. *)
LEMMA WordProperties ==
  /\ WORD \in Nat \ {0}
  /\ INT_MAX + DATASIZE < WORD
  BY IntMaxAssumption, DataSizeAssumption, PacketFitsInt DEF WORD

(* Small numbers survive the conversion to uint32_t. *)
LEMMA UInt32Small ==
  ASSUME NEW n \in Nat, n < WORD
  PROVE  UInt32(n) = n
  <1>1. n % WORD = n
    BY WordProperties
  <1> QED
    BY <1>1 DEF UInt32

(* The conversion to uint32_t always gives a number below WORD. *)
LEMMA UInt32Range ==
  ASSUME NEW n \in Nat
  PROVE  UInt32(n) \in Nat /\ UInt32(n) < WORD
  <1>1. n % WORD \in 0 .. WORD - 1
    BY WordProperties
  <1> QED
    BY <1>1, WordProperties DEF UInt32

(* The conversion to int never gives more than INT_MAX. *)
LEMMA AsIntRange ==
  ASSUME NEW n \in Nat
  PROVE  AsInt(n) \in Int /\ AsInt(n) <= INT_MAX
  <1>1. UInt32(n) \in Nat /\ UInt32(n) < WORD
    BY UInt32Range
  <1>2. WORD = 2 * (INT_MAX + 1)
    BY DEF WORD
  <1> QED
    BY <1>1, <1>2, IntMaxAssumption, WordProperties DEF AsInt

(* A number below WORD becomes itself or negative. *)
LEMMA AsIntSmall ==
  ASSUME NEW n \in Nat, n < WORD
  PROVE  AsInt(n) >= 0 => AsInt(n) = n
  <1>1. UInt32(n) = n
    BY UInt32Small
  <1> QED
    BY <1>1, IntMaxAssumption, WordProperties DEF AsInt

------------------------------------------------------------------------------
(* Chunks of the file *)

(* The length of the file is a natural number. *)
LEMMA FileLength == Len(File) \in Nat
  BY FileAssumption

(* A read anywhere in the file gives a whole packet, or what is left. *)
LEMMA ChunkProperties ==
  ASSUME NEW p \in 0 .. Len(File)
  PROVE  /\ Chunk(p) \in Seq(Nat)
         /\ Len(Chunk(p)) = IF p + DATASIZE <= Len(File) THEN DATASIZE
                                                         ELSE Len(File) - p
  <1> DEFINE e == IF p + DATASIZE <= Len(File) THEN p + DATASIZE ELSE Len(File)
  <1>1. p + 1 \in Int /\ e \in Int /\ p <= e /\ e <= Len(File)
    BY FileLength, DataSizeAssumption
  <1>2. \A i \in (p + 1) .. e : File[i] \in Nat
    BY <1>1, FileAssumption, FileLength
  <1>3. Chunk(p) = SubSeq(File, p + 1, e)
    BY DEF Chunk
  <1>4. /\ SubSeq(File, p + 1, e) \in Seq(Nat)
        /\ Len(SubSeq(File, p + 1, e)) = IF p + 1 <= e THEN e - (p + 1) + 1 ELSE 0
    <2> HIDE DEF e
    <2> QED
      BY <1>1, <1>2, SubSeqProperties
  <1> QED
    BY <1>1, <1>3, <1>4, FileLength, DataSizeAssumption

(* The consequences that the proofs use: a chunk has at most DATASIZE bytes and
   does not end beyond the file; it is empty exactly at the end of the file; and
   one that does not reach the end of the file is a whole packet. *)
LEMMA ChunkLength ==
  ASSUME NEW p \in 0 .. Len(File)
  PROVE  /\ Chunk(p) \in Seq(Nat)
         /\ Len(Chunk(p)) \in 0 .. DATASIZE
         /\ p + Len(Chunk(p)) <= Len(File)
         /\ Chunk(p) = <<>> <=> p = Len(File)
         /\ p + Len(Chunk(p)) < Len(File) => Len(Chunk(p)) = DATASIZE
  <1>1. /\ Chunk(p) \in Seq(Nat)
        /\ Len(Chunk(p)) = IF p + DATASIZE <= Len(File) THEN DATASIZE
                                                        ELSE Len(File) - p
    BY ChunkProperties
  <1>2. Chunk(p) = <<>> <=> Len(Chunk(p)) = 0
    BY <1>1, EmptySeq
  <1>3. Len(Chunk(p)) = 0 <=> p = Len(File)
    BY <1>1, FileLength, DataSizeAssumption
  <1> QED
    BY <1>1, <1>2, <1>3, FileLength, DataSizeAssumption

(* Appending the chunk at position p to the first p bytes of the file gives the
   first bytes of the file. *)
LEMMA ChunkExtends ==
  ASSUME NEW p \in 0 .. Len(File)
  PROVE  SubSeq(File, 1, p) \o Chunk(p) = SubSeq(File, 1, p + Len(Chunk(p)))
  <1> DEFINE e == IF p + DATASIZE <= Len(File) THEN p + DATASIZE ELSE Len(File)
  <1>1. Chunk(p) = SubSeq(File, p + 1, e)
    BY DEF Chunk
  <1>2. p + Len(Chunk(p)) = e
    <2>1. Len(Chunk(p)) = IF p + DATASIZE <= Len(File) THEN DATASIZE
                                                       ELSE Len(File) - p
      BY ChunkProperties
    <2> QED
      BY <2>1, FileLength, DataSizeAssumption
  <1>3. e \in p .. Len(File)
    BY FileLength, DataSizeAssumption
  <1>4. 1 \in 1 .. Len(File) + 1 /\ p \in 1 - 1 .. Len(File)
    BY FileLength
  <1>5. SubSeq(File, 1, p) \o SubSeq(File, p + 1, e) = SubSeq(File, 1, e)
    <2> HIDE DEF e
    <2> QED
      BY <1>3, <1>4, FileAssumption, ConcatAdjacentSubSeq
  <1> QED
    BY <1>1, <1>2, <1>5

(* A prefix of the file of a given length. *)
LEMMA FilePrefix ==
  ASSUME NEW p \in 0 .. Len(File)
  PROVE  SubSeq(File, 1, p) \in Seq(Nat) /\ Len(SubSeq(File, 1, p)) = p
  <1>1. \A i \in 1 .. p : File[i] \in Nat
    BY FileAssumption, FileLength
  <1>2. /\ SubSeq(File, 1, p) \in Seq(Nat)
        /\ Len(SubSeq(File, 1, p)) = IF 1 <= p THEN p - 1 + 1 ELSE 0
    BY <1>1, FileLength, SubSeqProperties
  <1> QED
    BY <1>2

------------------------------------------------------------------------------
(* Types and the window in a transfer *)

(* The types of the datagrams without data. *)
LEMMA ControlPackets ==
  /\ FinPacket \in [flags: SUBSET {FLAG_FIN}, seq: Nat, data: Seq(Nat)]
  /\ FinAckPacket \in [flags: SUBSET {FLAG_FIN, FLAG_ACK}, ack: Nat]
  /\ \A n \in Nat :
       AckPacket(n) \in [flags: SUBSET {FLAG_FIN, FLAG_ACK}, ack: Nat]
  <1>1. <<>> \in Seq(Nat) /\ {FLAG_FIN} \in SUBSET {FLAG_FIN}
    OBVIOUS
  <1>2. /\ {FLAG_FIN, FLAG_ACK} \in SUBSET {FLAG_FIN, FLAG_ACK}
        /\ {FLAG_ACK} \in SUBSET {FLAG_FIN, FLAG_ACK}
    OBVIOUS
  <1> QED
    BY <1>1, <1>2 DEF FinPacket, FinAckPacket, AckPacket

(* Everything starts with the right type. *)
LEMMA TypeInit == Init => TypeOK /\ WindowInv
  <1> SUFFICES ASSUME Init PROVE TypeOK /\ WindowInv
    OBVIOUS
  <1>1. WindowInv
    BY WinInitInv DEF Init, SenderInit
  <1>2. win \in WinType
    BY <1>1 DEF WindowInv
  <1>3. NetType
    <2>1. dataNet = {} /\ ackNet = {}
      BY DEF Init, NetInit
    <2> QED
      BY <2>1 DEF NetType
  <1>4. cwnd = <<>> /\ DOMAIN cwnd = {}
    BY DEF Init, SenderInit
  <1>5. SenderType
    <2>1. readSoFar \in 0 .. Len(File)
      BY FileLength DEF Init, SenderInit
    <2>2. /\ DOMAIN cwnd \subseteq Nat
          /\ \A s \in DOMAIN cwnd : cwnd[s] \in Packets
      BY <1>4
    <2>3. /\ sd \in [pc: {"lock", "find", "send", "advance", "done"}, last: Nat]
          /\ ra \in [pc: {"recv", "reset", "unlock", "lock", "erase", "done"},
                     ack: Nat, acked: Nat]
          /\ uw \in [pc: {"lock", "loop", "done"}, seqNum: Int]
      BY DEF Init, SenderInit, sdAt, raAt, uwAt
    <2>4. /\ sendBase \in Nat /\ nextSeqNum \in Nat
          /\ isDone \in BOOLEAN /\ mtx \in BOOLEAN /\ stolen \in BOOLEAN
          /\ main \in [pc: {"join", "fin", "wait", "gotFinAck", "exit"}, fins: Nat]
      BY DEF Init, SenderInit
    <2> QED
      BY <1>2, <2>1, <2>2, <2>3, <2>4 DEF SenderType
  <1>6. ReceiverType
    BY DEF Init, ReceiverInit, ReceiverType
  <1> QED
    BY <1>1, <1>3, <1>5, <1>6 DEF TypeOK

(* The steps of sendData. *)
LEMMA SendDataType ==
  ASSUME TypeOK, SendData
  PROVE  SenderType' /\ NetType' /\ win' = win
  <1> USE DEF TypeOK
  <1>1. CASE SdLock
    BY <1>1 DEF SdLock, SenderType, NetType, lock, sdAt, ccVars, netVars
  <1>2. CASE SdExit
    BY <1>2 DEF SdExit, SenderType, NetType, unlock, sdAt, ccVars, netVars
  <1>3. CASE SdFind
    BY <1>3 DEF SdFind, SenderType, NetType, sdAt, ccVars, netVars
  <1>4. CASE SdUnlock
    BY <1>4 DEF SdUnlock, SenderType, NetType, unlock, sdAt, ccVars, netVars
  <1>5. CASE SdSend
    <2> DEFINE packet == IF nextSeqNum \in DOMAIN cwnd THEN cwnd[nextSeqNum]
                                                       ELSE DefaultPacket
    <2>1. packet \in Packets
      BY DEF SenderType, Packets, DefaultPacket
    <2>2. packet.seq \in Nat /\ packet.data \in Seq(Nat)
      BY <2>1 DEF Packets
    <2>3. UInt32(packet.seq) \in Nat
      BY <2>2, UInt32Range
    <2>4. /\ Insert(nextSeqNum, packet)
          /\ SendToReceiver(DataPacket(packet.seq, packet.data))
          /\ sd' = [pc |-> "advance", last |-> Len(packet.data)]
          /\ UNCHANGED <<win, sendBase, nextSeqNum, isDone,
                         mtx, ra, uw, readSoFar, main, stolen>>
      BY <1>5 DEF SdSend
    <2> HIDE DEF packet
    <2>5. NetType'
      BY <2>2, <2>3, <2>4 DEF NetType, SendToReceiver, DataPacket
    <2>6. DOMAIN cwnd' \subseteq Nat /\ \A s \in DOMAIN cwnd' : cwnd'[s] \in Packets
      BY <2>1, <2>4 DEF Insert, SenderType
    <2>7. Len(packet.data) \in Nat
      BY <2>2
    <2> QED
      BY <2>4, <2>5, <2>6, <2>7 DEF SenderType
  <1>6. CASE SdAdvance
    BY <1>6 DEF SdAdvance, SenderType, NetType, sdAt, netVars
  <1> QED
    BY <1>1, <1>2, <1>3, <1>4, <1>5, <1>6 DEF SendData

(* A store to nextSeqNum, lost or not, stores a number. *)
LEMMA SetNextType ==
  ASSUME nextSeqNum \in Nat, NEW v \in Nat, SetNext(v)
  PROVE  nextSeqNum' \in Nat
  BY DEF SetNext

(* The steps of recvACK: the window changes only here. *)
LEMMA RecvACKType ==
  ASSUME TypeOK, WindowInv, RecvACK
  PROVE  SenderType' /\ NetType' /\ WindowInv'
  <1> USE DEF TypeOK
  <1>0. UNCHANGED win => WindowInv'
    BY DEF WindowInv, FastRecIffThreeDups, InflatedWindow,
           SmallWindowOnlyInAvoid
  <1>1. ASSUME NEW m \in ackNet, RaRecv(m)
        PROVE  SenderType' /\ NetType' /\ WindowInv'
    <2>1. m.ack \in Nat
      BY DEF NetType
    <2> QED
      BY <1>0, <1>1, <2>1 DEF RaRecv, SenderType, NetType, ccVars, netVars
  <1>2. CASE RaTimeout
    <2>1. WindowInv'
      BY <1>2, WinTimeoutInv DEF RaTimeout
    <2>2. win' \in WinType
      BY <2>1 DEF WindowInv
    <2> QED
      BY <1>2, <2>1, <2>2 DEF RaTimeout, SenderType, NetType, raAt, netVars
  <1>9. CASE RaReset
    <2>1. nextSeqNum' \in Nat
      BY <1>9, SetNextType DEF RaReset, SenderType
    <2> QED
      BY <1>0, <1>9, <2>1 DEF RaReset, SenderType, NetType, raAt, netVars
  <1>3. CASE RaUnlock
    <2>1. stolen' \in BOOLEAN
      BY <1>3 DEF RaUnlock
    <2> QED
      BY <1>0, <1>3, <2>1
      DEF RaUnlock, SenderType, NetType, unlock, raAt, ccVars, netVars
  <1>4. CASE RaDone
    BY <1>0, <1>4 DEF RaDone, SenderType, NetType, unlock, raAt, netVars
  <1>5. CASE RaDuplicate
    <2>1. WindowInv'
      BY <1>5, WinDuplicateInv DEF RaDuplicate
    <2>2. win' \in WinType
      BY <2>1 DEF WindowInv
    <2>3. nextSeqNum' \in Nat
      BY <1>5, SetNextType DEF RaDuplicate, SenderType
    <2> QED
      BY <1>5, <2>1, <2>2, <2>3
      DEF RaDuplicate, SenderType, NetType, unlock, raAt, netVars
  <1>6. CASE RaNewAck
    BY <1>0, <1>6 DEF RaNewAck, SenderType, NetType, lock, ccVars, netVars
  <1>7. CASE RaErase
    <2>1. DOMAIN cwnd' \subseteq Nat /\ \A s \in DOMAIN cwnd' : cwnd'[s] \in Packets
      BY <1>7 DEF RaErase, Erase, SenderType
    <2>2. sendBase' \in Nat
      BY <1>7, DataSizeAssumption DEF RaErase, SenderType
    <2> QED
      BY <1>0, <1>7, <2>1, <2>2, SMTT(30) DEF RaErase, SenderType, NetType, netVars
  <1>8. CASE RaSlide
    <2>1. ra.acked \in Nat
      BY DEF SenderType
    <2>2. WindowInv'
      BY <1>8, <2>1, WinNewAckInv DEF RaSlide
    <2>3. win' \in WinType
      BY <2>2 DEF WindowInv
    <2>4. nextSeqNum' \in Nat
      BY <1>8, SetNextType DEF RaSlide, SenderType
    <2> QED
      BY <1>8, <2>2, <2>3, <2>4
      DEF RaSlide, SenderType, NetType, unlock, raAt, netVars
  <1> QED
    BY <1>1, <1>2, <1>3, <1>4, <1>5, <1>6, <1>7, <1>8, <1>9 DEF RecvACK

(* The steps of updateWindow. *)
LEMMA UpdateWindowType ==
  ASSUME TypeOK, UpdateWindow
  PROVE  SenderType' /\ NetType' /\ win' = win
  <1> USE DEF TypeOK
  <1>0. InWindow => AsInt(uw.seqNum + DATASIZE) \in Int
    BY AsIntRange, DataSizeAssumption DEF InWindow, SenderType
  <1>1. CASE UwLock
    <2>1. AsInt(nextSeqNum) \in Int
      BY AsIntRange DEF SenderType
    <2> QED
      BY <1>1, <2>1 DEF UwLock, SenderType, NetType, lock, ccVars, netVars
  <1>2. CASE UwExit
    BY <1>2 DEF UwExit, SenderType, NetType, uwAt, ccVars, netVars
  <1>3. CASE UwSkip
    BY <1>0, <1>3 DEF UwSkip, NextSeq, SenderType, NetType, ccVars, netVars
  <1>4. CASE UwLoad
    <2>1. /\ Chunk(readSoFar) \in Seq(Nat)
          /\ readSoFar + Len(Chunk(readSoFar)) \in 0 .. Len(File)
      <3>1. readSoFar \in 0 .. Len(File)
        BY DEF SenderType
      <3> QED
        BY <3>1, ChunkLength, FileLength, DataSizeAssumption
    <2>2. uw.seqNum \in Nat
      BY <1>4 DEF UwLoad, InWindow
    <2>3. [seq |-> uw.seqNum, data |-> Chunk(readSoFar)] \in Packets
      BY <2>1, <2>2 DEF Packets
    <2>4. DOMAIN cwnd' \subseteq Nat /\ \A s \in DOMAIN cwnd' : cwnd'[s] \in Packets
      BY <1>4, <2>2, <2>3 DEF UwLoad, Insert, SenderType
    <2>5. readSoFar' \in 0 .. Len(File)
      BY <1>4, <2>1 DEF UwLoad
    <2>6. uw' \in [pc: {"lock", "loop", "done"}, seqNum: Int]
      BY <1>0, <1>4 DEF UwLoad, NextSeq, SenderType
    <2> QED
      BY <1>4, <2>4, <2>5, <2>6 DEF UwLoad, SenderType, NetType, netVars
  <1>5. CASE UwUnlock
    <2>1. uw' \in [pc: {"lock", "loop", "done"}, seqNum: Int]
      BY <1>5 DEF UwUnlock, uwAt
    <2>3. mtx' \in BOOLEAN
      BY <1>5 DEF UwUnlock, unlock
    <2>2. UNCHANGED <<ccVars, sd, ra, readSoFar, main, stolen, netVars>>
      BY <1>5 DEF UwUnlock
    <2> QED
      BY <2>1, <2>2, <2>3 DEF SenderType, NetType, ccVars, netVars
  <1> QED
    BY <1>1, <1>2, <1>3, <1>4, <1>5 DEF UpdateWindow

(* The steps of the main thread. *)
LEMMA MainType ==
  ASSUME TypeOK, Main
  PROVE  SenderType' /\ NetType' /\ win' = win
  <1> USE DEF TypeOK
  <1>1. CASE Join
    BY <1>1 DEF Join, SenderType, NetType, ccVars, netVars
  <1>2. CASE SendFin
    <2>1. /\ dataNet' = dataNet \cup {FinPacket} /\ UNCHANGED ackNet
          /\ main' = [pc |-> "wait", fins |-> main.fins + 1]
          /\ UNCHANGED <<ccVars, mtx, sd, ra, uw, readSoFar, stolen>>
      BY <1>2 DEF SendFin, SendToReceiver
    <2>2. NetType'
      BY <2>1, ControlPackets DEF NetType
    <2>3. SenderType' /\ win' = win
      BY <2>1 DEF SenderType, ccVars
    <2> QED
      BY <2>2, <2>3
  <1>3. CASE FinTimeout
    BY <1>3, SMTT(30) DEF FinTimeout, NoFinAck, SenderType, NetType, ccVars, netVars
  <1>4. ASSUME NEW m \in ackNet, RecvFinAck(m)
        PROVE  SenderType' /\ NetType' /\ win' = win
    <2>1. main' \in [pc: {"join", "fin", "wait", "gotFinAck", "exit"}, fins: Nat]
      <3>1. PICK pc \in {"gotFinAck", "fin", "exit"} :
              main' = [main EXCEPT !.pc = pc]
        BY <1>4, Zenon DEF RecvFinAck, NoFinAck
      <3> QED
        BY <3>1 DEF SenderType
    <2> QED
      BY <1>4, <2>1 DEF RecvFinAck, SenderType, NetType, ccVars, netVars
  <1> QED
    BY <1>1, <1>2, <1>3, <1>4 DEF Main

(* The steps of the receiver. *)
LEMMA ReceiverTypeStep ==
  ASSUME TypeOK, ReceiverStep
  PROVE  ReceiverType' /\ NetType'
  <1> USE DEF TypeOK
  <1>1. ASSUME NEW m \in dataNet, RxData(m) PROVE ReceiverType' /\ NetType'
    <2>1. m.seq \in Nat /\ m.data \in Seq(Nat)
      BY DEF NetType
    <2>2. UInt32(bytesRcvdSoFar + Len(m.data)) \in Nat
      <3>1. bytesRcvdSoFar + Len(m.data) \in Nat
        BY <2>1 DEF ReceiverType
      <3> QED
        BY <3>1, UInt32Range
    <2>3. /\ bytesRcvdSoFar' \in Nat
          /\ rx' \in [pc: {"recv", "push", "write", "fin", "close", "exit"},
                      data: Seq(Nat)]
      <3>1. CASE m.seq = bytesRcvdSoFar
        BY <1>1, <2>1, <2>2, <3>1 DEF RxData
      <3>2. CASE m.seq # bytesRcvdSoFar
        <4>1. <<>> \in Seq(Nat)
          OBVIOUS
        <4>2. /\ rx' = [pc |-> "push", data |-> <<>>]
              /\ bytesRcvdSoFar' = bytesRcvdSoFar
          BY <1>1, <3>2, Zenon DEF RxData
        <4>3. bytesRcvdSoFar \in Nat
          BY DEF ReceiverType
        <4> HIDE DEF TypeOK
        <4> QED
          BY <4>1, <4>2, <4>3
      <3> QED
        BY <3>1, <3>2
    <2> QED
      BY <1>1, <2>3 DEF RxData, ReceiverType, NetType, netVars
  <1>2. ASSUME NEW m \in dataNet, RxFin(m) PROVE ReceiverType' /\ NetType'
    BY <1>2 DEF RxFin, ReceiverType, NetType, netVars
  <1>3. CASE RxPush
    BY <1>3, AppendProperties DEF RxPush, ReceiverType, NetType, netVars
  <1>4. CASE RxWrite
    BY <1>4, ConcatProperties DEF RxWrite, ReceiverType, NetType, netVars
  <1>5. CASE RxFinAck
    <2>1. NetType'
      BY <1>5, ControlPackets DEF RxFinAck, SendToSender, NetType
    <2> QED
      BY <1>5, <2>1 DEF RxFinAck, ReceiverType
  <1>6. CASE RxExit
    BY <1>6 DEF RxExit, ReceiverType, NetType, netVars
  <1>7. CASE SaDrain
    <2>1. PICK n \in Largest(rcvrACK_q) : sa' = [pc |-> "send", rcvdSoFar |-> n]
      BY <1>7 DEF SaDrain
    <2>2. n \in Nat
      BY <2>1 DEF Largest, ReceiverType
    <2> QED
      BY <1>7, <2>1, <2>2 DEF SaDrain, ReceiverType, NetType, netVars
  <1>8. CASE SaSend
    <2>1. sa.rcvdSoFar \in Nat
      BY DEF ReceiverType
    <2>2. NetType'
      BY <1>8, <2>1, ControlPackets DEF SaSend, SendToSender, NetType
    <2> QED
      BY <1>8, <2>2 DEF SaSend, ReceiverType
  <1> QED
    BY <1>1, <1>2, <1>3, <1>4, <1>5, <1>6, <1>7, <1>8
    DEF ReceiverStep, ReceiveData, SendACK

(* Every step preserves the types and the invariant of the window. *)
LEMMA TypeStep == TypeOK /\ WindowInv /\ [Next]_vars => TypeOK' /\ WindowInv'
  <1> SUFFICES ASSUME TypeOK, WindowInv, [Next]_vars
               PROVE  TypeOK' /\ WindowInv'
    OBVIOUS
  <1>0. UNCHANGED win => WindowInv'
    BY DEF WindowInv, FastRecIffThreeDups, InflatedWindow,
           SmallWindowOnlyInAvoid
  <1>1. CASE SendingProcess
    <2>1. ReceiverType'
      BY <1>1 DEF SendingProcess, receiverVars, ReceiverType, TypeOK
    <2>2. SenderType' /\ NetType' /\ WindowInv'
      BY <1>0, <1>1, SendDataType, RecvACKType, UpdateWindowType, MainType
      DEF SendingProcess, SenderStep
    <2> QED
      BY <2>1, <2>2 DEF TypeOK
  <1>2. CASE ReceivingProcess
    <2>1. SenderType' /\ UNCHANGED win
      BY <1>2 DEF ReceivingProcess, senderVars, ccVars, SenderType, TypeOK
    <2>2. ReceiverType' /\ NetType'
      BY <1>2, ReceiverTypeStep DEF ReceivingProcess
    <2> QED
      BY <1>0, <2>1, <2>2 DEF TypeOK
  <1>3. CASE UNCHANGED vars
    <2>1. UNCHANGED <<senderVars, receiverVars, netVars>> /\ UNCHANGED win
      BY <1>3 DEF vars, senderVars, ccVars
    <2> QED
      BY <1>0, <2>1
      DEF TypeOK, SenderType, ReceiverType, NetType,
          senderVars, ccVars, receiverVars, netVars
  <1> QED
    BY <1>1, <1>2, <1>3 DEF Next

(* Every variable of a transfer keeps its type, whatever the file, the sizes
   and the number of bytes to transfer are. *)
THEOREM TypeCorrect == Spec => []TypeOK
  <1>1. TypeOK /\ WindowInv /\ [Next]_vars => TypeOK' /\ WindowInv'
    BY TypeStep
  <1> QED
    BY <1>1, TypeInit, PTL DEF Spec

(* The congestion window of the sender keeps its invariant, although timeouts
   change it without holding the mutex: no other thread writes it. *)
THEOREM SenderWindow == Spec => []WindowInv
  <1>1. TypeOK /\ WindowInv /\ [Next]_vars => TypeOK' /\ WindowInv'
    BY TypeStep
  <1> QED
    BY <1>1, TypeInit, PTL DEF Spec

(* The state is fast recovery exactly from the third duplicate ACK on, in
   whatever order recvACK meets timeouts, duplicates and new ACKs. *)
THEOREM FastRecovery == Spec => []FastRecIffThreeDups
  <1>1. WindowInv => FastRecIffThreeDups
    BY DEF WindowInv
  <1> QED
    BY <1>1, SenderWindow, PTL

(* A new ACK leaves a window of size 0 closed. *)
LEMMA NewAckKeepsClosed ==
  ASSUME WindowInv, win.size = 0, NEW packets \in Nat, WinNewAck(packets)
  PROVE  win'.size = 0
  <1>1. win \in WinType /\ win.state = "CNG_AVOID"
    BY DataSizeAssumption DEF WindowInv, SmallWindowOnlyInAvoid, WinType
  <1>2. PICK s \in AvoidSizes(win.size, packets) :
          win' = [state |-> "CNG_AVOID", size |-> s,
                  ssthresh |-> win.ssthresh, dup |-> 0]
    BY <1>1 DEF WinNewAck
  <1>3. s = 0
    BY <1>2 DEF AvoidSizes
  <1> QED
    BY <1>2, <1>3

(* No step of a transfer but a timeout and the third duplicate ACK opens a
   window of size 0. *)
THEOREM ClosedStaysClosed == Spec => ClosedWindowStaysClosed
  <1> DEFINE Opens == win.size = 0 /\ win'.size # 0 =>
                        win'.state = "SLOW_START" \/ EntersFastRec
  <1>1. TypeOK /\ WindowInv /\ [Next]_vars => [Opens]_win
    <2> SUFFICES ASSUME TypeOK, WindowInv, [Next]_vars,
                        win.size = 0, win'.size # 0
                 PROVE  win'.state = "SLOW_START" \/ EntersFastRec
      OBVIOUS
    <2>1. CASE RaTimeout
      BY <2>1 DEF RaTimeout, WinTimeout
    <2>2. CASE RaDuplicate
      BY <2>2 DEF RaDuplicate, WinDuplicate, WindowInv, WinType
    <2>3. CASE RaSlide
      <3>1. WinNewAck(ra.acked) /\ ra.acked \in Nat
        BY <2>3 DEF RaSlide, TypeOK, SenderType
      <3> QED
        BY <3>1, NewAckKeepsClosed
    <2>4. win' = win \/ RaTimeout \/ RaDuplicate \/ RaSlide
      <3>1. CASE SendingProcess
        <4>1. CASE SendData
          BY <4>1, SendDataType
        <4>2. CASE UpdateWindow
          BY <4>2, UpdateWindowType
        <4>3. CASE Main
          BY <4>3, MainType
        <4>4. CASE RecvACK
          BY <4>4 DEF RecvACK, RaRecv, RaReset, RaUnlock, RaDone, RaNewAck,
                      RaErase, ccVars
        <4> QED
          BY <3>1, <4>1, <4>2, <4>3, <4>4 DEF SendingProcess, SenderStep
      <3>2. CASE ReceivingProcess
        BY <3>2 DEF ReceivingProcess, senderVars, ccVars
      <3>3. CASE UNCHANGED vars
        BY <3>3 DEF vars, senderVars, ccVars
      <3> QED
        BY <3>1, <3>2, <3>3 DEF Next
    <2> QED
      BY <2>1, <2>2, <2>3, <2>4
  <1>2. Spec => [](TypeOK /\ WindowInv)
    BY TypeCorrect, SenderWindow, PTL
  <1> QED
    BY <1>1, <1>2, PTL DEF Spec, ClosedWindowStaysClosed

------------------------------------------------------------------------------
(* Whether or not a timeout has stolen the mutex *)

(* The parts that have to do with the receiver and its variables only. *)
LEMMA AlwaysInit == Init => AlwaysInv
  <1> SUFFICES ASSUME Init PROVE AlwaysInv
    OBVIOUS
  <1>1. /\ dataNet = {} /\ ackNet = {} /\ DOMAIN cwnd = {}
        /\ sendBase = 0 /\ isDone = FALSE
        /\ sd = sdAt("lock") /\ ra = raAt("recv") /\ uw = uwAt("lock")
        /\ main = [pc |-> "join", fins |-> 0]
    BY DEF Init, NetInit, SenderInit
  <1>2. /\ bytesRcvdSoFar = 0 /\ outfile = <<>> /\ rcvrACK_q = <<>>
        /\ rx = [pc |-> "recv", data |-> <<>>]
        /\ sa = [pc |-> "drain", rcvdSoFar |-> 0]
    BY DEF Init, ReceiverInit
  <1>3. PacketsSmall
    BY <1>1, IntMaxAssumption DEF PacketsSmall, uwAt
  <1>4. Written
    BY <1>2 DEF Written
  <1>5. AcksAccepted
    BY <1>1, <1>2 DEF AcksAccepted, raAt
  <1>6. EndInOrder
    BY <1>1, <1>2 DEF EndInOrder, raAt
  <1>7. BaseNotPastReceiver
    BY <1>1, <1>2, DataSizeAssumption DEF BaseNotPastReceiver
  <1> QED
    BY <1>3, <1>4, <1>5, <1>6, <1>7 DEF AlwaysInv

------------------------------------------------------------------------------
(* A datagram of data that the receiver accepts does not wrap its counter. *)
LEMMA NoWrap ==
  ASSUME TypeOK, AlwaysInv, NEW m \in dataNet, m.seq = bytesRcvdSoFar
  PROVE  /\ m.data \in Seq(Nat) /\ Len(m.data) \in Nat
         /\ UInt32(bytesRcvdSoFar + Len(m.data)) = bytesRcvdSoFar + Len(m.data)
         /\ bytesRcvdSoFar + Len(m.data) <= INT_MAX + DATASIZE
  <1>1. m.data \in Seq(Nat) /\ Len(m.data) \in Nat
    BY DEF TypeOK, NetType
  <1>2. m.seq <= INT_MAX /\ Len(m.data) <= DATASIZE
    BY DEF AlwaysInv, PacketsSmall
  <1>3. /\ bytesRcvdSoFar + Len(m.data) \in Nat
        /\ bytesRcvdSoFar + Len(m.data) <= INT_MAX + DATASIZE
        /\ bytesRcvdSoFar + Len(m.data) < WORD
    BY <1>1, <1>2, WordProperties, IntMaxAssumption, DataSizeAssumption
    DEF TypeOK, ReceiverType
  <1> QED
    BY <1>1, <1>3, UInt32Small

(* What a step can do to the position of the receiver. *)
LEMMA ReceiverMoves ==
  ASSUME TypeOK, AlwaysInv, [Next]_vars
  PROVE  /\ bytesRcvdSoFar' \in Nat
         /\ bytesRcvdSoFar' >= bytesRcvdSoFar
  <1>0. bytesRcvdSoFar \in Nat
    BY DEF TypeOK, ReceiverType
  <1>1. ASSUME NEW m \in dataNet, RxData(m), m.seq = bytesRcvdSoFar
        PROVE  bytesRcvdSoFar' = bytesRcvdSoFar + Len(m.data) /\ Len(m.data) \in Nat
    BY <1>1, NoWrap DEF RxData
  <1>2. ASSUME NEW m \in dataNet, RxData(m), m.seq # bytesRcvdSoFar
        PROVE  bytesRcvdSoFar' = bytesRcvdSoFar
    BY <1>2 DEF RxData
  <1>3. CASE UNCHANGED bytesRcvdSoFar
    BY <1>0, <1>3
  <1>4. \/ \E m \in dataNet : RxData(m)
        \/ UNCHANGED bytesRcvdSoFar
    BY DEF Next, SendingProcess, ReceivingProcess, ReceiverStep, ReceiveData,
           SendACK, RxPush, RxWrite, RxFin, RxFinAck, RxExit, SaDrain, SaSend,
           receiverVars, vars
  <1> QED
    BY <1>0, <1>1, <1>2, <1>3, <1>4

------------------------------------------------------------------------------
(* Packets stay small: what is loaded is a chunk of the file under the number
   of an int, and what is sent was loaded. *)
LEMMA PacketsSmallStep ==
  ASSUME TypeOK, AlwaysInv, [Next]_vars
  PROVE  PacketsSmall'
  <1> DEFINE Small(p) == p.seq <= INT_MAX /\ Len(p.data) <= DATASIZE
  <1>0. /\ \A s \in DOMAIN cwnd : Small(cwnd[s])
        /\ \A m \in dataNet : Small(m)
        /\ uw.seqNum <= INT_MAX
    BY DEF AlwaysInv, PacketsSmall
  <1> SUFFICES /\ \A s \in DOMAIN cwnd' : Small(cwnd'[s])
               /\ \A m \in dataNet' : Small(m)
               /\ uw'.seqNum <= INT_MAX
    BY DEF PacketsSmall
  <1>1. CASE SdSend
    <2> DEFINE packet == IF nextSeqNum \in DOMAIN cwnd THEN cwnd[nextSeqNum]
                                                       ELSE DefaultPacket
    <2>1. packet \in Packets
      BY DEF TypeOK, SenderType, Packets, DefaultPacket
    <2>2. Small(packet)
      <3>1. Small(DefaultPacket)
        <4>1. Len(<<>>) = 0
          OBVIOUS
        <4> QED
          BY <4>1, IntMaxAssumption, DataSizeAssumption DEF DefaultPacket
      <3> QED
        BY <1>0, <3>1
    <2>3. /\ Insert(nextSeqNum, packet)
          /\ SendToReceiver(DataPacket(packet.seq, packet.data))
          /\ uw' = uw
      BY <1>1 DEF SdSend
    <2> HIDE DEF packet
    <2>4. UInt32(packet.seq) = packet.seq
      <3>1. packet.seq \in Nat /\ packet.seq < WORD
        BY <2>1, <2>2, WordProperties, IntMaxAssumption, DataSizeAssumption DEF Packets
      <3> QED
        BY <3>1, UInt32Small
    <2>5. Small(DataPacket(packet.seq, packet.data))
      BY <2>2, <2>4 DEF DataPacket
    <2> HIDE DEF Small
    <2> QED
      BY <1>0, <2>2, <2>3, <2>5 DEF Insert, SendToReceiver
  <1>2. CASE UwLock
    <2>1. AsInt(nextSeqNum) <= INT_MAX
      BY AsIntRange DEF TypeOK, SenderType
    <2>2. UNCHANGED <<cwnd, dataNet>> /\ uw' = [pc |-> "loop", seqNum |-> AsInt(nextSeqNum)]
      BY <1>2 DEF UwLock, ccVars, netVars
    <2> QED
      BY <1>0, <2>1, <2>2
  <1>3. InWindow => AsInt(uw.seqNum + DATASIZE) <= INT_MAX
    BY AsIntRange, DataSizeAssumption DEF InWindow, TypeOK, SenderType
  <1>4. CASE UwSkip
    <2>1. UNCHANGED <<cwnd, dataNet>> /\ InWindow /\ uw' = NextSeq
      BY <1>4 DEF UwSkip, ccVars, netVars
    <2>2. uw'.seqNum = AsInt(uw.seqNum + DATASIZE)
      BY <2>1 DEF NextSeq, TypeOK, SenderType
    <2> QED
      BY <1>0, <1>3, <2>1, <2>2
  <1>5. CASE UwLoad
    <2> DEFINE packet == [seq |-> uw.seqNum, data |-> Chunk(readSoFar)]
    <2>1. /\ UNCHANGED dataNet /\ InWindow /\ uw' = NextSeq
          /\ Insert(uw.seqNum, packet)
      BY <1>5 DEF UwLoad, netVars
    <2>2. uw'.seqNum = AsInt(uw.seqNum + DATASIZE)
      BY <2>1 DEF NextSeq, TypeOK, SenderType
    <2>3. readSoFar \in 0 .. Len(File)
      BY DEF TypeOK, SenderType
    <2>4. Len(Chunk(readSoFar)) <= DATASIZE
      BY <2>3, ChunkLength
    <2>5. Small(packet)
      BY <1>0, <2>4
    <2> HIDE DEF packet, Small
    <2> QED
      BY <1>0, <1>3, <2>1, <2>2, <2>5 DEF Insert
  <1>6. CASE RaErase
    BY <1>0, <1>6 DEF RaErase, Erase, netVars
  <1>7. CASE SendFin
    <2>1. Small(FinPacket)
      <3>1. Len(<<>>) = 0
        OBVIOUS
      <3> QED
        BY <3>1, IntMaxAssumption, DataSizeAssumption DEF FinPacket
    <2>2. UNCHANGED <<cwnd, uw>> /\ dataNet' = dataNet \cup {FinPacket}
      BY <1>7 DEF SendFin, SendToReceiver, ccVars
    <2> HIDE DEF Small
    <2> QED
      BY <1>0, <2>1, <2>2
  <1>8. CASE UwExit \/ UwUnlock
    BY <1>0, <1>8, IntMaxAssumption DEF UwExit, UwUnlock, uwAt, ccVars, netVars
  <1>9. \/ SdSend \/ UwLock \/ UwSkip \/ UwLoad \/ RaErase \/ SendFin
        \/ UwExit \/ UwUnlock
        \/ UNCHANGED <<cwnd, dataNet, uw>>
    <2>1. SendData => SdSend \/ UNCHANGED <<cwnd, dataNet, uw>>
      BY DEF SendData, SdLock, SdExit, SdFind, SdUnlock, SdAdvance, ccVars, netVars
    <2>2. RecvACK => RaErase \/ UNCHANGED <<cwnd, dataNet, uw>>
      BY DEF RecvACK, RaRecv, RaTimeout, RaReset, RaUnlock, RaDone, RaDuplicate,
             RaNewAck, RaSlide, ccVars, netVars
    <2>3. Main => SendFin \/ UNCHANGED <<cwnd, dataNet, uw>>
      BY DEF Main, Join, FinTimeout, RecvFinAck, ccVars, netVars
    <2>4. ReceiverStep => UNCHANGED dataNet
      BY DEF ReceiverStep, ReceiveData, SendACK, RxData, RxPush, RxWrite, RxFin,
             RxFinAck, RxExit, SaDrain, SaSend, SendToSender, netVars
    <2> QED
      BY <2>1, <2>2, <2>3, <2>4
      DEF Next, SendingProcess, ReceivingProcess, SenderStep, UpdateWindow,
          vars, senderVars, ccVars, netVars
  <1> HIDE DEF Small
  <1> QED
    BY <1>0, <1>1, <1>2, <1>4, <1>5, <1>6, <1>7, <1>8, <1>9

------------------------------------------------------------------------------
(* What the receiver accepts it hands to the write that follows. *)
LEMMA WrittenStep ==
  ASSUME TypeOK, AlwaysInv, [Next]_vars
  PROVE  Written'
  <1>0. /\ bytesRcvdSoFar \in Nat /\ outfile \in Seq(Nat)
        /\ rx \in [pc: {"recv", "push", "write", "fin", "close", "exit"},
                   data: Seq(Nat)]
    BY DEF TypeOK, ReceiverType
  <1>00. /\ bytesRcvdSoFar = Len(outfile) + Len(rx.data)
         /\ rx.pc \notin {"push", "write"} => rx.data = <<>>
    BY DEF AlwaysInv, Written
  <1>1. ASSUME NEW m \in dataNet, RxData(m)
        PROVE  Written'
    <2>1. rx.pc = "recv" /\ outfile' = outfile
      BY <1>1 DEF RxData
    <2>2. bytesRcvdSoFar = Len(outfile)
      <3>1. Len(<<>>) = 0
        OBVIOUS
      <3> QED
        BY <1>0, <1>00, <2>1, <3>1
    <2>3. CASE m.seq = bytesRcvdSoFar
      <3>1. /\ bytesRcvdSoFar' = bytesRcvdSoFar + Len(m.data)
            /\ rx' = [pc |-> "push", data |-> m.data]
        BY <1>1, <2>3, NoWrap DEF RxData
      <3> QED
        BY <2>1, <2>2, <3>1 DEF Written
    <2>4. CASE m.seq # bytesRcvdSoFar
      <3>1. /\ bytesRcvdSoFar' = bytesRcvdSoFar
            /\ rx' = [pc |-> "push", data |-> <<>>]
        BY <1>1, <2>4 DEF RxData
      <3>2. Len(rx'.data) = 0 /\ rx'.pc = "push"
        BY <3>1
      <3> QED
        BY <1>0, <2>1, <2>2, <3>1, <3>2 DEF Written
    <2> QED
      BY <2>3, <2>4
  <1>2. CASE RxPush
    BY <1>0, <1>00, <1>2 DEF RxPush, Written
  <1>3. CASE RxWrite
    <2>1. /\ rx' = [pc |-> "recv", data |-> <<>>]
          /\ outfile' = outfile \o rx.data
          /\ bytesRcvdSoFar' = bytesRcvdSoFar
      BY <1>3 DEF RxWrite
    <2>2. Len(outfile') = Len(outfile) + Len(rx.data)
      BY <1>0, <2>1, ConcatProperties
    <2>3. Len(rx'.data) = 0 /\ rx'.data = <<>>
      BY <2>1
    <2> QED
      BY <1>0, <1>00, <2>1, <2>2, <2>3 DEF Written
  <1>4. ASSUME NEW m \in dataNet, RxFin(m) PROVE Written'
    BY <1>0, <1>00, <1>4 DEF RxFin, Written
  <1>5. CASE RxFinAck \/ RxExit
    BY <1>0, <1>00, <1>5 DEF RxFinAck, RxExit, Written
  <1>6. CASE UNCHANGED <<bytesRcvdSoFar, rx, outfile>>
    BY <1>00, <1>6 DEF Written
  <1>7. \/ ReceiveData
        \/ UNCHANGED <<bytesRcvdSoFar, rx, outfile>>
    BY DEF Next, SendingProcess, ReceivingProcess, ReceiverStep,
           SendACK, SaDrain, SaSend, receiverVars, vars
  <1> QED
    BY <1>1, <1>2, <1>3, <1>4, <1>5, <1>6, <1>7 DEF ReceiveData

(* An acknowledgement starts as a copy of the position of the receiver, which
   only grows, and is copied unchanged until recvACK has it. *)
LEMMA AcksAcceptedStep ==
  ASSUME TypeOK, AlwaysInv, [Next]_vars
  PROVE  AcksAccepted'
  <1>0. /\ bytesRcvdSoFar \in Nat /\ bytesRcvdSoFar' \in Nat
        /\ bytesRcvdSoFar <= bytesRcvdSoFar'
    BY ReceiverMoves DEF TypeOK, ReceiverType
  <1>t. /\ rcvrACK_q \in Seq(Nat)
        /\ \A m \in ackNet : m.ack \in Nat
        /\ ra.ack \in Nat /\ sa.rcvdSoFar \in Nat
        /\ sa \in [pc: {"drain", "send"}, rcvdSoFar: Nat]
        /\ ra \in [pc: {"recv", "reset", "unlock", "lock", "erase", "done"},
                   ack: Nat, acked: Nat]
    BY DEF TypeOK, ReceiverType, SenderType, NetType
  <1>i. /\ \A i \in DOMAIN rcvrACK_q : rcvrACK_q[i] <= bytesRcvdSoFar
        /\ sa.rcvdSoFar <= bytesRcvdSoFar
        /\ \A m \in ackNet : m.ack <= bytesRcvdSoFar
        /\ ra.ack <= bytesRcvdSoFar
    BY DEF AlwaysInv, AcksAccepted
  <1>q. \A i \in DOMAIN rcvrACK_q : rcvrACK_q[i] \in Nat
    BY <1>t
  <1>1. \A i \in DOMAIN rcvrACK_q' : rcvrACK_q'[i] <= bytesRcvdSoFar'
    <2>1. CASE RxPush
      <3>1. rcvrACK_q' = Append(rcvrACK_q, bytesRcvdSoFar)
        BY <2>1 DEF RxPush
      <3>2. \A i \in DOMAIN rcvrACK_q' :
              \/ i \in DOMAIN rcvrACK_q /\ rcvrACK_q'[i] = rcvrACK_q[i]
              \/ rcvrACK_q'[i] = bytesRcvdSoFar
        BY <1>0, <1>t, <3>1, AppendProperties
      <3> QED
        BY <1>0, <1>i, <1>q, <3>2
    <2>2. CASE SaDrain
      BY <2>2 DEF SaDrain
    <2>3. CASE UNCHANGED rcvrACK_q
      BY <1>0, <1>i, <1>q, <2>3
    <2>4. RxPush \/ SaDrain \/ UNCHANGED rcvrACK_q
      BY DEF Next, SendingProcess, ReceivingProcess, ReceiverStep, ReceiveData,
             SendACK, RxData, RxWrite, RxFin, RxFinAck, RxExit, SaSend,
             receiverVars, vars
    <2> QED
      BY <2>1, <2>2, <2>3, <2>4
  <1>2. sa'.rcvdSoFar <= bytesRcvdSoFar'
    <2>1. CASE SaDrain
      <3>1. PICK n \in Largest(rcvrACK_q) : sa' = [pc |-> "send", rcvdSoFar |-> n]
        BY <2>1 DEF SaDrain
      <3>2. PICK i \in DOMAIN rcvrACK_q : n = rcvrACK_q[i]
        BY <3>1 DEF Largest
      <3> QED
        BY <1>0, <1>i, <1>q, <3>1, <3>2
    <2>2. CASE SaSend
      BY <1>0, <1>i, <1>t, <2>2 DEF SaSend
    <2>3. CASE UNCHANGED sa
      BY <1>0, <1>i, <1>t, <2>3
    <2>4. SaSend \/ SaDrain \/ UNCHANGED sa
      BY DEF Next, SendingProcess, ReceivingProcess, ReceiverStep, ReceiveData,
             SendACK, RxData, RxPush, RxWrite, RxFin, RxFinAck, RxExit,
             receiverVars, vars
    <2> QED
      BY <2>1, <2>2, <2>3, <2>4
  <1>3. \A m \in ackNet' : m.ack <= bytesRcvdSoFar'
    <2>1. CASE SaSend
      <3>1. ackNet' = ackNet \cup {AckPacket(sa.rcvdSoFar)}
        BY <2>1 DEF SaSend, SendToSender
      <3>2. AckPacket(sa.rcvdSoFar).ack = sa.rcvdSoFar
        BY DEF AckPacket
      <3> QED
        BY <1>0, <1>i, <1>t, <3>1, <3>2
    <2>2. CASE RxFinAck
      <3>1. ackNet' = ackNet \cup {FinAckPacket}
        BY <2>2 DEF RxFinAck, SendToSender
      <3>2. FinAckPacket.ack = 0
        BY DEF FinAckPacket
      <3> QED
        BY <1>0, <1>i, <1>t, <3>1, <3>2
    <2>3. CASE UNCHANGED ackNet
      BY <1>0, <1>i, <1>t, <2>3
    <2>4. SenderStep => UNCHANGED ackNet
      BY DEF SenderStep, SendData, RecvACK, UpdateWindow, Main,
             SdLock, SdExit, SdFind, SdUnlock, SdSend, SdAdvance,
             RaRecv, RaTimeout, RaReset, RaUnlock, RaDone, RaDuplicate,
             RaNewAck, RaErase, RaSlide, UwLock, UwExit, UwSkip, UwLoad,
             UwUnlock, Join, SendFin, FinTimeout, RecvFinAck,
             SendToReceiver, netVars
    <2>5. SaSend \/ RxFinAck \/ UNCHANGED ackNet
      BY <2>4
      DEF Next, SendingProcess, ReceivingProcess, ReceiverStep, ReceiveData,
          SendACK, RxData, RxPush, RxWrite, RxFin, RxExit, SaDrain, netVars, vars
    <2> QED
      BY <2>1, <2>2, <2>3, <2>5
  <1>4. ra'.ack <= bytesRcvdSoFar'
    <2>1. ASSUME NEW m \in ackNet, RaRecv(m)
          PROVE  ra'.ack <= bytesRcvdSoFar'
      BY <1>0, <1>i, <1>t, <2>1 DEF RaRecv
    <2>2. CASE ra'.ack = 0
      BY <1>0, <2>2
    <2>3. CASE ra'.ack = ra.ack
      BY <1>0, <1>i, <1>t, <2>3
    <2>4. RecvACK => (\E m \in ackNet : RaRecv(m)) \/ ra'.ack = 0 \/ ra'.ack = ra.ack
      BY <1>t DEF RecvACK, RaTimeout, RaReset, RaUnlock, RaDone, RaDuplicate,
             RaNewAck, RaErase, RaSlide, raAt
    <2>5. RecvACK \/ UNCHANGED ra
      BY DEF Next, SendingProcess, ReceivingProcess, SenderStep, SendData,
             UpdateWindow, Main, SdLock, SdExit, SdFind, SdUnlock, SdSend,
             SdAdvance, UwLock, UwExit, UwSkip, UwLoad, UwUnlock,
             Join, SendFin, FinTimeout, RecvFinAck, senderVars, vars
    <2> QED
      BY <2>1, <2>2, <2>3, <2>4, <2>5
  <1> QED
    BY <1>1, <1>2, <1>3, <1>4 DEF AcksAccepted

(* sendBase moves only below an acknowledgement, and by one packet at a time. *)
LEMMA BaseStep ==
  ASSUME TypeOK, AlwaysInv, [Next]_vars
  PROVE  BaseNotPastReceiver'
  <1>0. /\ bytesRcvdSoFar \in Nat /\ bytesRcvdSoFar' \in Nat
        /\ bytesRcvdSoFar <= bytesRcvdSoFar'
        /\ sendBase \in Nat /\ ra.ack \in Nat
    BY ReceiverMoves DEF TypeOK, ReceiverType, SenderType
  <1>d. DATASIZE \in Nat
    BY DataSizeAssumption
  <1>m. \A a, b, c, d \in Nat :
          b <= c => (a < b => a + d < c + d) /\ (a < b + d => a < c + d)
    OBVIOUS
  <1>1. CASE RaErase
    <2>1. sendBase < ra.ack /\ sendBase' = sendBase + DATASIZE
      BY <1>1 DEF RaErase
    <2>2. ra.ack <= bytesRcvdSoFar
      BY DEF AlwaysInv, AcksAccepted
    <2>3. sendBase + DATASIZE < bytesRcvdSoFar' + DATASIZE
      <3>1. sendBase < bytesRcvdSoFar
        BY <1>0, <2>1, <2>2
      <3> QED
        BY <1>0, <1>d, <1>m, <3>1
    <2> QED
      BY <2>1, <2>3 DEF BaseNotPastReceiver
  <1>2. CASE UNCHANGED sendBase
    <2>1. sendBase < bytesRcvdSoFar + DATASIZE
      BY DEF AlwaysInv, BaseNotPastReceiver
    <2>2. sendBase < bytesRcvdSoFar' + DATASIZE
      BY <1>0, <1>d, <1>m, <2>1
    <2> QED
      BY <1>2, <2>2 DEF BaseNotPastReceiver
  <1>3. RaErase \/ UNCHANGED sendBase
    BY DEF Next, SendingProcess, ReceivingProcess, SenderStep, SendData, RecvACK,
           UpdateWindow, Main, SdLock, SdExit, SdFind, SdUnlock, SdSend,
           SdAdvance, RaRecv, RaTimeout, RaReset, RaUnlock, RaDone, RaDuplicate,
           RaNewAck, RaSlide, UwLock, UwExit, UwSkip, UwLoad, UwUnlock,
           Join, SendFin, FinTimeout, RecvFinAck, ccVars, senderVars, vars
  <1> QED
    BY <1>1, <1>2, <1>3

(* The end comes in order: recvACK ends when it has an ACK of everything; the
   main thread waits for it before it sends a FIN; and only a FIN makes the
   receiver close. *)
LEMMA EndInOrderStep ==
  ASSUME TypeOK, AlwaysInv, [Next]_vars
  PROVE  EndInOrder'
  <1>0. /\ bytesRcvdSoFar \in Nat /\ bytesRcvdSoFar' \in Nat
        /\ bytesRcvdSoFar <= bytesRcvdSoFar'
        /\ ra.ack \in Nat /\ isDone \in BOOLEAN
    BY ReceiverMoves DEF TypeOK, ReceiverType, SenderType
  <1>i. EndInOrder /\ ra.ack <= bytesRcvdSoFar
    BY DEF AlwaysInv, AcksAccepted
  <1>d. isDone => isDone'
    <2>1. CASE RaDone
      BY <2>1 DEF RaDone
    <2>2. RaDone \/ UNCHANGED isDone
      BY DEF Next, SendingProcess, ReceivingProcess, SenderStep, SendData, RecvACK,
             UpdateWindow, Main, SdLock, SdExit, SdFind, SdUnlock, SdSend,
             SdAdvance, RaRecv, RaTimeout, RaReset, RaUnlock, RaDuplicate,
             RaNewAck, RaErase, RaSlide, UwLock, UwExit, UwSkip, UwLoad, UwUnlock,
             Join, SendFin, FinTimeout, RecvFinAck, ccVars, senderVars, vars
    <2> QED
      BY <2>1, <2>2
  <1>1. isDone' => bytesRcvdSoFar' >= totalSize
    <2>1. CASE RaDone
      BY <1>0, <1>i, <2>1, TotalSizeAssumption DEF RaDone
    <2>2. CASE UNCHANGED isDone
      BY <1>0, <1>i, <2>2, TotalSizeAssumption DEF EndInOrder
    <2>3. RaDone \/ UNCHANGED isDone
      BY DEF Next, SendingProcess, ReceivingProcess, SenderStep, SendData, RecvACK,
             UpdateWindow, Main, SdLock, SdExit, SdFind, SdUnlock, SdSend,
             SdAdvance, RaRecv, RaTimeout, RaReset, RaUnlock, RaDuplicate,
             RaNewAck, RaErase, RaSlide, UwLock, UwExit, UwSkip, UwLoad, UwUnlock,
             Join, SendFin, FinTimeout, RecvFinAck, ccVars, senderVars, vars
    <2> QED
      BY <2>1, <2>2, <2>3
  <1>2. ra'.pc = "done" <=> isDone'
    <2>t. ra \in [pc: {"recv", "reset", "unlock", "lock", "erase", "done"},
                  ack: Nat, acked: Nat]
      BY DEF TypeOK, SenderType
    <2>e. ra.pc = "done" <=> isDone
      BY <1>i DEF EndInOrder
    <2>1. CASE RaDone
      BY <2>1 DEF RaDone, raAt
    <2>2. CASE RaTimeout \/ RaReset \/ RaUnlock \/ RaDuplicate \/ RaSlide
      BY <2>2, <2>e
      DEF RaTimeout, RaReset, RaUnlock, RaDuplicate, RaSlide, raAt, ccVars
    <2>3. CASE RaNewAck \/ RaErase
      BY <2>3, <2>e, <2>t DEF RaNewAck, RaErase, ccVars
    <2>4. ASSUME NEW m \in ackNet, RaRecv(m) PROVE ra'.pc = "done" <=> isDone'
      BY <2>4, <2>e DEF RaRecv, ccVars
    <2>5. CASE UNCHANGED <<ra, isDone>>
      BY <2>5, <2>e
    <2>6. RecvACK \/ UNCHANGED <<ra, isDone>>
      BY DEF Next, SendingProcess, ReceivingProcess, SenderStep, SendData,
             UpdateWindow, Main, SdLock, SdExit, SdFind, SdUnlock, SdSend,
             SdAdvance, UwLock, UwExit, UwSkip, UwLoad, UwUnlock,
             Join, SendFin, FinTimeout, RecvFinAck, ccVars, senderVars, vars
    <2> QED
      BY <2>1, <2>2, <2>3, <2>4, <2>5, <2>6 DEF RecvACK
  <1>3. main'.pc # "join" => isDone'
    <2>1. CASE Join
      BY <1>i, <1>d, <2>1 DEF Join, Joined, EndInOrder
    <2>2. CASE main.pc # "join"
      BY <1>i, <1>d, <2>2 DEF EndInOrder
    <2>3. CASE UNCHANGED main
      BY <1>i, <1>d, <2>3 DEF EndInOrder
    <2>4. Main => Join \/ main.pc # "join"
      BY DEF Main, SendFin, FinTimeout, RecvFinAck
    <2>5. Main \/ UNCHANGED main
      BY DEF Next, SendingProcess, ReceivingProcess, SenderStep, SendData, RecvACK,
             UpdateWindow, SdLock, SdExit, SdFind, SdUnlock, SdSend,
             SdAdvance, RaRecv, RaTimeout, RaReset, RaUnlock, RaDone, RaDuplicate,
             RaNewAck, RaErase, RaSlide, UwLock, UwExit, UwSkip, UwLoad, UwUnlock,
             senderVars, vars
    <2> QED
      BY <2>1, <2>2, <2>3, <2>4, <2>5
  <1>4. \A m \in dataNet' : FLAG_FIN \in m.flags => isDone' /\ m.data = <<>>
    <2>1. CASE SendFin
      <3>1. dataNet' = dataNet \cup {FinPacket} /\ main.pc # "join"
        BY <2>1 DEF SendFin, SendToReceiver
      <3>2. isDone' /\ FinPacket.data = <<>>
        BY <1>i, <1>d, <3>1 DEF FinPacket, EndInOrder
      <3> QED
        BY <1>i, <1>d, <3>1, <3>2 DEF EndInOrder
    <2>2. CASE SdSend
      <3>1. PICK p : dataNet' = dataNet \cup {DataPacket(p.seq, p.data)}
        BY <2>2 DEF SdSend, SendToReceiver
      <3>2. DataPacket(p.seq, p.data).flags = {}
        BY DEF DataPacket
      <3> QED
        BY <1>i, <1>d, <3>1, <3>2 DEF EndInOrder
    <2>3. CASE UNCHANGED dataNet
      BY <1>i, <1>d, <2>3 DEF EndInOrder
    <2>4. ReceiverStep => UNCHANGED dataNet
      BY DEF ReceiverStep, ReceiveData, SendACK, RxData, RxPush, RxWrite, RxFin,
             RxFinAck, RxExit, SaDrain, SaSend, SendToSender, netVars
    <2>5. SendFin \/ SdSend \/ UNCHANGED dataNet
      BY <2>4
      DEF Next, SendingProcess, ReceivingProcess, SenderStep, SendData, RecvACK,
          UpdateWindow, Main, SdLock, SdExit, SdFind, SdUnlock,
          SdAdvance, RaRecv, RaTimeout, RaReset, RaUnlock, RaDone, RaDuplicate,
          RaNewAck, RaErase, RaSlide, UwLock, UwExit, UwSkip, UwLoad, UwUnlock,
          Join, FinTimeout, RecvFinAck, netVars, vars
    <2> QED
      BY <2>1, <2>2, <2>3, <2>5
  <1>5. rx'.pc \in {"fin", "close", "exit"} => isDone'
    <2>t. rx \in [pc: {"recv", "push", "write", "fin", "close", "exit"},
                  data: Seq(Nat)]
      BY DEF TypeOK, ReceiverType
    <2>1. ASSUME NEW m \in dataNet, RxFin(m)
          PROVE  rx'.pc \in {"fin", "close", "exit"} => isDone'
      BY <1>i, <1>d, <2>1 DEF RxFin, EndInOrder
    <2>2. CASE rx.pc \in {"fin", "close", "exit"}
      BY <1>i, <1>d, <2>2 DEF EndInOrder
    <2>3. CASE rx'.pc \notin {"fin", "close", "exit"}
      BY <2>3
    <2>4. ReceiveData => \/ \E m \in dataNet : RxFin(m)
                         \/ rx.pc \in {"fin", "close", "exit"}
                         \/ rx'.pc \notin {"fin", "close", "exit"}
      BY <2>t DEF ReceiveData, RxData, RxPush, RxWrite, RxFinAck, RxExit
    <2>5. ReceiveData \/ UNCHANGED rx
      BY DEF Next, SendingProcess, ReceivingProcess, ReceiverStep, SendACK,
             SaDrain, SaSend, receiverVars, vars
    <2> QED
      BY <2>1, <2>2, <2>3, <2>4, <2>5
  <1> QED
    BY <1>1, <1>2, <1>3, <1>4, <1>5 DEF EndInOrder

------------------------------------------------------------------------------
(* The part of the invariant that does not depend on the mutex is inductive. *)
THEOREM AlwaysInvariant == Spec => [](TypeOK /\ AlwaysInv)
  <1>1. TypeOK /\ AlwaysInv /\ [Next]_vars => AlwaysInv'
    BY PacketsSmallStep, WrittenStep, AcksAcceptedStep, EndInOrderStep, BaseStep
    DEF AlwaysInv
  <1> QED
    BY <1>1, AlwaysInit, TypeCorrect, PTL DEF Spec

(* sendBase overshoots what the receiver has accepted by less than a packet,
   even if the mutex has been stolen. *)
THEOREM BaseBehindReceiver == Spec => []BaseNotPastReceiver
  <1>1. TypeOK /\ AlwaysInv => BaseNotPastReceiver
    BY DEF AlwaysInv
  <1> QED
    BY <1>1, AlwaysInvariant, PTL

(* The receiver has closed the file, or the sender is past the joining of its
   threads, only if everything that was to be transferred has been accepted;
   and when the file is closed everything accepted is in it. *)
EndMeansWritten ==
  /\ isDone \/ main.pc # "join" => bytesRcvdSoFar >= totalSize
  /\ rx.pc \in {"fin", "close", "exit"} =>
       Len(outfile) = bytesRcvdSoFar /\ Len(outfile) >= totalSize

THEOREM NothingLostAtTheEnd == Spec => []EndMeansWritten
  <1>1. ASSUME TypeOK, AlwaysInv
        PROVE  EndMeansWritten
    <2>1. isDone \/ main.pc # "join" => bytesRcvdSoFar >= totalSize
      BY <1>1 DEF AlwaysInv, EndInOrder
    <2>2. rx.pc \in {"fin", "close", "exit"} => Len(outfile) = bytesRcvdSoFar
      <3>1. Len(<<>>) = 0 /\ Len(outfile) \in Nat
        BY <1>1 DEF TypeOK, ReceiverType
      <3> QED
        BY <1>1, <3>1 DEF AlwaysInv, Written
    <2>3. rx.pc \in {"fin", "close", "exit"} => bytesRcvdSoFar >= totalSize
      BY <1>1 DEF AlwaysInv, EndInOrder
    <2> QED
      BY <2>1, <2>2, <2>3 DEF EndMeansWritten
  <1> QED
    BY <1>1, AlwaysInvariant, PTL

------------------------------------------------------------------------------
(* The transfer starts as the abstract one does. *)
LEMMA DeliveryInit == Init => Promise!Init
  <1> SUFFICES ASSUME Init PROVE Promise!Init
    OBVIOUS
  <1>1. bytesRcvdSoFar = 0 /\ outfile = <<>> /\ rx.pc = "recv" /\ isDone = FALSE
    BY DEF Init, ReceiverInit, SenderInit
  <1>2. Len(outfile) = 0
    BY <1>1
  <1> QED
    BY <1>1, <1>2 DEF Promise!Init

(* Every step of a transfer is a step of the abstract one, or changes nothing
   it talks about: accepting a packet accepts its bytes, if it has any; the
   last ACK completes; a FIN closes. *)
LEMMA DeliveryStep ==
  ASSUME TypeOK, AlwaysInv, [Next]_vars
  PROVE  [Promise!Next]_Promise!vars
  <1> DEFINE Closed == rx.pc \in {"fin", "close", "exit"}
  <1>t. /\ bytesRcvdSoFar \in Nat /\ outfile \in Seq(Nat) /\ Len(outfile) \in Nat
        /\ rx \in [pc: {"recv", "push", "write", "fin", "close", "exit"},
                   data: Seq(Nat)]
    BY DEF TypeOK, ReceiverType
  <1>w. /\ bytesRcvdSoFar = Len(outfile) + Len(rx.data)
        /\ rx.pc \notin {"push", "write"} => bytesRcvdSoFar = Len(outfile)
    <2>1. Len(<<>>) = 0
      OBVIOUS
    <2> QED
      BY <1>t, <2>1 DEF AlwaysInv, Written
  <1>1. ASSUME NEW m \in dataNet, RxData(m), UNCHANGED isDone
        PROVE  [Promise!Next]_Promise!vars
    <2>1. /\ UNCHANGED outfile /\ ~Closed /\ ~Closed'
          /\ bytesRcvdSoFar = Len(outfile)
      <3>1. rx.pc = "recv" /\ UNCHANGED outfile
        BY <1>1 DEF RxData
      <3>2. rx'.pc = "push"
        <4>1. CASE m.seq = bytesRcvdSoFar
          BY <1>1, <4>1 DEF RxData
        <4>2. CASE m.seq # bytesRcvdSoFar
          <5>1. rx' = [pc |-> "push", data |-> <<>>]
            BY <1>1, <4>2 DEF RxData
          <5> QED
            BY <5>1
        <4> QED
          BY <4>1, <4>2
      <3> QED
        BY <1>w, <3>1, <3>2
    <2>2. CASE bytesRcvdSoFar' > bytesRcvdSoFar /\ bytesRcvdSoFar' \in Nat
      BY <1>1, <2>1, <2>2 DEF Promise!Next, Promise!Accept
    <2>3. CASE bytesRcvdSoFar' = bytesRcvdSoFar
      BY <1>1, <2>1, <2>3 DEF Promise!vars
    <2>4. bytesRcvdSoFar' \in Nat /\ bytesRcvdSoFar' >= bytesRcvdSoFar
      BY ReceiverMoves
    <2> QED
      BY <1>t, <2>2, <2>3, <2>4
  <1>2. ASSUME RxWrite, UNCHANGED isDone
        PROVE  [Promise!Next]_Promise!vars
    <2>1. /\ outfile' = outfile \o rx.data /\ UNCHANGED bytesRcvdSoFar
          /\ ~Closed /\ ~Closed'
      BY <1>2 DEF RxWrite
    <2>2. Len(outfile') = bytesRcvdSoFar
      BY <1>t, <1>w, <2>1, ConcatProperties
    <2> QED
      BY <1>2, <2>1, <2>2 DEF Promise!Next, Promise!Write
  <1>3. ASSUME NEW m \in dataNet, RxFin(m), UNCHANGED isDone
        PROVE  [Promise!Next]_Promise!vars
    <2>1. /\ UNCHANGED <<outfile, bytesRcvdSoFar>> /\ Closed'
          /\ bytesRcvdSoFar = Len(outfile)
      BY <1>3, <1>t, <1>w DEF RxFin
    <2>2. isDone
      BY <1>3 DEF RxFin, AlwaysInv, EndInOrder
    <2> QED
      BY <1>3, <2>1, <2>2 DEF Promise!Next, Promise!Close
  <1>4. ASSUME RaDone, UNCHANGED receiverVars
        PROVE  [Promise!Next]_Promise!vars
    <2>1. bytesRcvdSoFar >= totalSize /\ isDone'
      <3>1. ra.ack <= bytesRcvdSoFar /\ ra.ack \in Nat
        BY DEF AlwaysInv, AcksAccepted, TypeOK, SenderType
      <3> QED
        BY <1>4, <1>t, <3>1, TotalSizeAssumption DEF RaDone
    <2>2. UNCHANGED <<outfile, bytesRcvdSoFar, rx>>
      BY <1>4 DEF receiverVars
    <2> QED
      BY <1>4, <2>1, <2>2 DEF Promise!Next, Promise!Complete, RaDone
  <1>5. ASSUME UNCHANGED <<bytesRcvdSoFar, outfile, isDone>>, Closed' = Closed
        PROVE  [Promise!Next]_Promise!vars
    BY <1>5 DEF Promise!vars
  <1>6. RxPush \/ RxFinAck \/ RxExit =>
          UNCHANGED <<bytesRcvdSoFar, outfile>> /\ Closed' = Closed
    BY <1>t DEF RxPush, RxFinAck, RxExit
  <1>7. \/ \E m \in dataNet : (RxData(m) \/ RxFin(m)) /\ UNCHANGED isDone
        \/ (RxPush \/ RxFinAck \/ RxExit) /\ UNCHANGED isDone
        \/ RxWrite /\ UNCHANGED isDone
        \/ RaDone /\ UNCHANGED receiverVars
        \/ UNCHANGED <<bytesRcvdSoFar, outfile, isDone, rx>>
    BY DEF Next, SendingProcess, ReceivingProcess, ReceiverStep, ReceiveData,
           SendACK, SaDrain, SaSend, SenderStep, SendData, RecvACK,
           UpdateWindow, Main, SdLock, SdExit, SdFind, SdUnlock, SdSend,
           SdAdvance, RaRecv, RaTimeout, RaReset, RaUnlock, RaDuplicate,
           RaNewAck, RaErase, RaSlide, UwLock, UwExit, UwSkip, UwLoad, UwUnlock,
           Join, SendFin, FinTimeout, RecvFinAck,
           ccVars, senderVars, receiverVars, vars
  <1>8. UNCHANGED rx => Closed' = Closed
    OBVIOUS
  <1> HIDE DEF Closed
  <1> QED
    BY <1>1, <1>2, <1>3, <1>4, <1>5, <1>6, <1>7, <1>8

(* A transfer implements Delivery: with or without a stolen mutex, it is taken
   for complete only with everything accepted and closed only with everything
   written. *)
THEOREM Implementation == Spec => ImplementsDelivery
  <1>1. TypeOK /\ AlwaysInv /\ [Next]_vars => [Promise!Next]_Promise!vars
    BY DeliveryStep
  <1> QED
    BY <1>1, DeliveryInit, AlwaysInvariant, PTL
    DEF Spec, ImplementsDelivery, Promise!Spec

------------------------------------------------------------------------------
(* As long as no timeout has stolen the mutex *)

(* What the variables that hold data satisfy ... *)
ContentInv ==
  /\ ReadWhole
  /\ CwndContent /\ CwndComplete /\ NetContent
  /\ ReceivedWhole
  /\ BaseInv
  /\ Prefix

(* ... and what the threads and their counters do. *)
ThreadInv == Exclusive /\ NextInv /\ SendDataInv /\ UpdateWindowInv

(* The types, in the form in which arithmetic needs them. *)
LEMMA Numbers ==
  ASSUME TypeOK
  PROVE  /\ sendBase \in Nat /\ nextSeqNum \in Nat /\ bytesRcvdSoFar \in Nat
         /\ readSoFar \in 0 .. Len(File) /\ readSoFar \in Nat
         /\ Len(File) \in Nat /\ DATASIZE \in Nat /\ DATASIZE > 0
         /\ INT_MAX \in Nat /\ DATASIZE <= INT_MAX
         /\ uw.seqNum \in Int /\ sd.last \in Nat /\ ra.ack \in Nat
         /\ DOMAIN cwnd \subseteq Nat
         /\ outfile \in Seq(Nat) /\ rx.data \in Seq(Nat)
  BY FileLength, DataSizeAssumption, IntMaxAssumption, PacketFitsInt
  DEF TypeOK, SenderType, ReceiverType

(* Two aligned numbers less than a packet apart are equal. *)
LEMMA AlignedSame ==
  ASSUME NEW m \in Nat, NEW n \in Nat, Aligned(m), Aligned(n),
         m <= n, n < m + DATASIZE
  PROVE  m = n
  <1>1. m < n => m + DATASIZE <= n
    BY AlignedGap
  <1>2. DATASIZE \in Nat
    BY DataSizeAssumption
  <1> QED
    BY <1>1, <1>2

(* The chunk at an aligned position below one that was read up to: it was read
   completely. *)
LEMMA ChunkBelow ==
  ASSUME NEW p \in Nat, NEW r \in 0 .. Len(File), Aligned(p), p < r,
         r = Len(File) \/ Aligned(r)
  PROVE  /\ p \in 0 .. Len(File)
         /\ Chunk(p) \in Seq(Nat) /\ Chunk(p) # <<>>
         /\ Len(Chunk(p)) \in 1 .. DATASIZE
         /\ p + Len(Chunk(p)) <= r
         /\ r < Len(File) => Len(Chunk(p)) = DATASIZE
         /\ p + Len(Chunk(p)) = Len(File) \/ Aligned(p + Len(Chunk(p)))
  <1>0. Len(File) \in Nat /\ DATASIZE \in Nat /\ DATASIZE > 0
    BY FileLength, DataSizeAssumption
  <1>1. p \in 0 .. Len(File)
    BY <1>0
  <1>2. /\ Chunk(p) \in Seq(Nat)
        /\ Len(Chunk(p)) \in 0 .. DATASIZE
        /\ p + Len(Chunk(p)) <= Len(File)
        /\ Chunk(p) = <<>> <=> p = Len(File)
        /\ p + Len(Chunk(p)) < Len(File) => Len(Chunk(p)) = DATASIZE
    BY <1>1, ChunkLength
  <1>3. Chunk(p) # <<>>
    BY <1>0, <1>2
  <1>4. Len(Chunk(p)) # 0
    BY <1>2, <1>3, EmptySeq
  <1>5. Aligned(r) => p + DATASIZE <= r
    BY <1>0, AlignedGap
  <1>6. p + Len(Chunk(p)) <= r
    BY <1>0, <1>2, <1>5
  <1>7. p + Len(Chunk(p)) = Len(File) \/ Aligned(p + Len(Chunk(p)))
    <2>1. CASE p + Len(Chunk(p)) < Len(File)
      BY <1>2, <2>1, AlignedNext
    <2> QED
      BY <1>0, <1>2, <2>1
  <1> QED
    BY <1>0, <1>1, <1>2, <1>3, <1>4, <1>6, <1>7

(* What was read and is not acknowledged is loaded: its packet is in cwnd. *)
LEMMA LoadedBelow ==
  ASSUME TypeOK, ContentInv, NEW s \in Nat, Aligned(s), sendBase <= s, s < readSoFar
  PROVE  s \in DOMAIN cwnd
  <1>1. s \in sendBase .. readSoFar
    BY Numbers
  <1> QED
    BY <1>1 DEF ContentInv, CwndComplete, DataAt

------------------------------------------------------------------------------
(* Steps that leave alone what a part is about *)

(* The data. *)
LEMMA ContentFrame ==
  ASSUME ContentInv,
         UNCHANGED <<readSoFar, cwnd, sendBase, dataNet,
                     bytesRcvdSoFar, outfile, rx>>
  PROVE  ContentInv'
  BY DEF ContentInv, ReadWhole, CwndContent, CwndComplete, NetContent,
         ReceivedWhole, BaseInv, Prefix, DataAt, Aligned, Chunk

(* The threads. *)
LEMMA ThreadFrame ==
  ASSUME ThreadInv,
         UNCHANGED <<readSoFar, cwnd, sendBase, nextSeqNum, mtx, sd, ra, uw>>
  PROVE  ThreadInv'
  BY DEF ThreadInv, Exclusive, NextInv, SendDataInv, UpdateWindowInv,
         SdIn, RaIn, UwIn, Aligned

(* Everything starts empty. *)
LEMMA OwnedInit == Init => ContentInv /\ ThreadInv
  <1> SUFFICES ASSUME Init PROVE ContentInv /\ ThreadInv
    OBVIOUS
  <1>1. /\ dataNet = {} /\ DOMAIN cwnd = {}
        /\ sendBase = 0 /\ nextSeqNum = 0 /\ readSoFar = 0 /\ mtx = FALSE
        /\ sd = sdAt("lock") /\ ra = raAt("recv") /\ uw = uwAt("lock")
    BY DEF Init, NetInit, SenderInit
  <1>2. /\ bytesRcvdSoFar = 0 /\ outfile = <<>>
        /\ rx = [pc |-> "recv", data |-> <<>>]
    BY DEF Init, ReceiverInit
  <1>3. Aligned(0)
    BY AlignedZero
  <1>4. /\ Len(File) \in Nat /\ INT_MAX \in Nat /\ DATASIZE \in Nat /\ DATASIZE > 0
    BY FileLength, IntMaxAssumption, DataSizeAssumption
  <1>5. ReadWhole
    BY <1>1, <1>3 DEF ReadWhole
  <1>6. CwndContent
    BY <1>1 DEF CwndContent
  <1>7. CwndComplete
    <2>1. \A s \in 0 .. 0 : ~(s < 0)
      OBVIOUS
    <2> QED
      BY <1>1, <2>1 DEF CwndComplete, DataAt
  <1>8. NetContent
    BY <1>1 DEF NetContent
  <1>9. ReceivedWhole
    <2>1. 0 \in 0 .. INT_MAX /\ 0 <= 0 + DATASIZE
      BY <1>4
    <2> QED
      BY <1>1, <1>2, <1>3, <2>1 DEF ReceivedWhole
  <1>10. BaseInv
    BY <1>1, <1>3, <1>4 DEF BaseInv
  <1>11. Prefix
    <2>1. SubSeq(File, 1, 0) = <<>>
      BY <1>4, FilePrefix, EmptySeq
    <2>2. <<>> \o <<>> = <<>>
      OBVIOUS
    <2> QED
      BY <1>2, <2>1, <2>2 DEF Prefix
  <1>12. ThreadInv
    BY <1>1, <1>3, <1>4
    DEF ThreadInv, Exclusive, NextInv, SendDataInv, UpdateWindowInv,
        SdIn, RaIn, UwIn, sdAt, raAt, uwAt
  <1> QED
    BY <1>5, <1>6, <1>7, <1>8, <1>9, <1>10, <1>11, <1>12 DEF ContentInv

------------------------------------------------------------------------------
(* sendData *)

(* Steps that only enter or leave the critical section, or find a packet. *)
LEMMA SdControlOwned ==
  ASSUME TypeOK, ContentInv, ThreadInv, UNCHANGED receiverVars,
         SdLock \/ SdExit \/ SdFind \/ SdUnlock
  PROVE  ContentInv' /\ ThreadInv'
  <1>1. UNCHANGED <<readSoFar, cwnd, sendBase, nextSeqNum, ra, uw, dataNet>>
    BY DEF SdLock, SdExit, SdFind, SdUnlock, ccVars, netVars
  <1>2. ContentInv'
    BY <1>1, ContentFrame DEF receiverVars
  <1>3. NextInv' /\ UpdateWindowInv'
    BY <1>1 DEF ThreadInv, NextInv, UpdateWindowInv, UwIn, RaIn, Aligned
  <1>4. Exclusive'
    BY <1>1 DEF ThreadInv, Exclusive, SdIn, RaIn, UwIn, SdLock, SdExit, SdFind,
                SdUnlock, lock, unlock, sdAt
  <1>5. SendDataInv'
    BY <1>1 DEF ThreadInv, SendDataInv, SdLock, SdExit, SdFind, SdUnlock,
                sdAt, Sendable
  <1> QED
    BY <1>2, <1>3, <1>4, <1>5 DEF ThreadInv

(* The packet that is sent is the one that was found: nobody else was in. *)
LEMMA SdSendOwned ==
  ASSUME TypeOK, AlwaysInv, ContentInv, ThreadInv, UNCHANGED receiverVars, SdSend
  PROVE  ContentInv' /\ ThreadInv'
  <1> DEFINE packet == cwnd[nextSeqNum]
  <1>n. /\ nextSeqNum \in Nat /\ readSoFar \in 0 .. Len(File)
        /\ Len(File) \in Nat /\ INT_MAX \in Nat /\ DATASIZE \in Nat
    BY Numbers
  <1>0. nextSeqNum \in DOMAIN cwnd /\ sd.pc = "send"
    BY DEF SdSend, ThreadInv, SendDataInv
  <1>1. packet \in Packets
    BY <1>0 DEF TypeOK, SenderType
  <1>2. /\ packet.seq = nextSeqNum /\ nextSeqNum <= INT_MAX
        /\ DataAt(nextSeqNum) => packet.data = Chunk(nextSeqNum)
        /\ ~DataAt(nextSeqNum) => packet.data = <<>> /\ readSoFar = Len(File)
    BY <1>0 DEF ContentInv, CwndContent
  <1>3. /\ Insert(nextSeqNum, packet)
        /\ dataNet' = dataNet \cup {DataPacket(packet.seq, packet.data)}
        /\ sd' = [pc |-> "advance", last |-> Len(packet.data)]
        /\ UNCHANGED <<sendBase, nextSeqNum, mtx, ra, uw, readSoFar>>
    BY <1>0 DEF SdSend, SendToReceiver
  <1>4. DOMAIN cwnd' = DOMAIN cwnd /\ \A s \in DOMAIN cwnd : cwnd'[s] = cwnd[s]
    BY <1>0, <1>3 DEF Insert
  <1>5. UInt32(packet.seq) = nextSeqNum
    <2>1. nextSeqNum < WORD
      BY <1>n, <1>2, WordProperties
    <2> QED
      BY <1>n, <1>2, <2>1, UInt32Small
  <1>6. DataAt(nextSeqNum) =>
          /\ Len(packet.data) \in 1 .. DATASIZE
          /\ nextSeqNum + Len(packet.data) <= readSoFar
          /\ readSoFar < Len(File) => Len(packet.data) = DATASIZE
    BY <1>n, <1>2, ChunkBelow DEF DataAt, ContentInv, ReadWhole
  <1>7. Len(<<>>) = 0
    OBVIOUS
  <1> HIDE DEF packet
  <1>8. NetContent'
    <2>1. DataPacket(packet.seq, packet.data).seq = nextSeqNum
          /\ DataPacket(packet.seq, packet.data).data = packet.data
      BY <1>5 DEF DataPacket
    <2>2. \A m \in dataNet' :
            m.data # <<>> => DataAt(m.seq) /\ m.data = Chunk(m.seq)
      BY <1>2, <1>3, <2>1 DEF ContentInv, NetContent
    <2> QED
      BY <1>3, <2>2 DEF NetContent, DataAt, Aligned, Chunk
  <1>9. CwndContent'
    BY <1>3, <1>4 DEF ContentInv, CwndContent, DataAt, Aligned, Chunk
  <1>10. CwndComplete'
    BY <1>3, <1>4 DEF ContentInv, CwndComplete, DataAt, Aligned
  <1>11. ReadWhole' /\ ReceivedWhole' /\ BaseInv' /\ Prefix'
    BY <1>3 DEF ContentInv, ReadWhole, ReceivedWhole, BaseInv, Prefix, Aligned,
                receiverVars
  <1>12. Exclusive' /\ NextInv' /\ UpdateWindowInv'
    BY <1>0, <1>3 DEF ThreadInv, Exclusive, NextInv, UpdateWindowInv,
                      SdIn, RaIn, UwIn, Aligned
  <1>13. SendDataInv'
    <2>1. Len(packet.data) \in Nat /\ Len(packet.data) <= DATASIZE
      BY <1>n, <1>2, <1>6, <1>7
    <2>2. /\ Len(packet.data) # 0 => nextSeqNum + Len(packet.data) <= readSoFar
          /\ readSoFar < Len(File) => Len(packet.data) = DATASIZE
      BY <1>n, <1>2, <1>6, <1>7
    <2> QED
      BY <1>2, <1>3, <2>1, <2>2 DEF SendDataInv
  <1> QED
    BY <1>8, <1>9, <1>10, <1>11, <1>12, <1>13 DEF ContentInv, ThreadInv

(* nextSeqNum moves over the packet that was sent. *)
LEMMA SdAdvanceOwned ==
  ASSUME TypeOK, ContentInv, ThreadInv, UNCHANGED receiverVars, SdAdvance
  PROVE  ContentInv' /\ ThreadInv'
  <1>n. /\ nextSeqNum \in Nat /\ readSoFar \in Nat /\ sendBase \in Nat
        /\ sd.last \in Nat /\ Len(File) \in Nat
        /\ INT_MAX \in Nat /\ DATASIZE \in Nat
    BY Numbers
  <1>1. /\ nextSeqNum' = nextSeqNum + sd.last /\ sd' = sdAt("find")
        /\ sd.pc = "advance"
        /\ UNCHANGED <<sendBase, cwnd, mtx, ra, uw, readSoFar, dataNet>>
    BY DEF SdAdvance, netVars
  <1>2. ContentInv'
    BY <1>1, ContentFrame DEF receiverVars
  <1>3. Exclusive' /\ UpdateWindowInv' /\ SendDataInv'
    BY <1>1 DEF ThreadInv, Exclusive, UpdateWindowInv, SendDataInv,
                SdIn, RaIn, UwIn, sdAt, Aligned
  <1>4. /\ nextSeqNum <= INT_MAX /\ sd.last <= DATASIZE
        /\ sd.last # 0 => nextSeqNum + sd.last <= readSoFar
        /\ readSoFar < Len(File) => sd.last = DATASIZE
    BY <1>1 DEF ThreadInv, SendDataInv
  <1>5. NextInv
    BY DEF ThreadInv
  <1>6. nextSeqNum' <= INT_MAX + DATASIZE
    BY <1>n, <1>1, <1>4
  <1>7. ~RaIn => nextSeqNum' >= sendBase
    BY <1>n, <1>1, <1>5 DEF NextInv
  <1>8. nextSeqNum' <= readSoFar \/ nextSeqNum' <= sendBase
    <2>1. CASE sd.last = 0
      <3>1. nextSeqNum' = nextSeqNum
        BY <1>n, <1>1, <2>1
      <3> QED
        BY <1>5, <3>1 DEF NextInv
    <2>2. CASE sd.last # 0
      BY <1>1, <1>4, <2>2
    <2> QED
      BY <2>1, <2>2
  <1>9. readSoFar < Len(File) => Aligned(nextSeqNum')
    BY <1>n, <1>1, <1>4, <1>5, AlignedNext DEF NextInv
  <1>10. NextInv'
    BY <1>1, <1>6, <1>7, <1>8, <1>9 DEF NextInv, RaIn, Aligned
  <1> QED
    BY <1>2, <1>3, <1>10 DEF ThreadInv

------------------------------------------------------------------------------
(* recvACK *)

(* Steps that do not touch what the invariant is about but pc and mutex. *)
LEMMA RaControlOwned ==
  ASSUME TypeOK, ContentInv, ThreadInv, UNCHANGED receiverVars, ~stolen',
         \/ \E m \in ackNet : RaRecv(m)
         \/ RaTimeout \/ RaUnlock \/ RaDone \/ RaNewAck
  PROVE  ContentInv' /\ ThreadInv'
  <1>t. /\ ra \in [pc: {"recv", "reset", "unlock", "lock", "erase", "done"},
                   ack: Nat, acked: Nat]
        /\ mtx \in BOOLEAN /\ mtx' \in BOOLEAN
    BY DEF TypeOK, SenderType, RaRecv, RaTimeout, RaUnlock, RaDone, RaNewAck,
           lock, unlock
  <1>1. UNCHANGED <<readSoFar, cwnd, sendBase, nextSeqNum, sd, uw, dataNet>>
    BY DEF RaRecv, RaTimeout, RaUnlock, RaDone, RaNewAck, ccVars, netVars
  <1>2. ContentInv'
    BY <1>1, ContentFrame DEF receiverVars
  <1>3. SendDataInv' /\ UpdateWindowInv'
    BY <1>1 DEF ThreadInv, SendDataInv, UpdateWindowInv, UwIn, Aligned
  <1>4. RaNewAck \/ (ra.pc # "erase" /\ ra'.pc # "erase")
    BY <1>t DEF RaRecv, RaTimeout, RaUnlock, RaDone, raAt
  <1>5. NextInv'
    BY <1>1, <1>4 DEF ThreadInv, NextInv, RaIn, RaNewAck, Aligned
  <1>6. Exclusive'
    <2>1. CASE RaNewAck
      BY <1>t, <1>1, <2>1
      DEF ThreadInv, Exclusive, SdIn, RaIn, UwIn, RaNewAck, lock
    <2>2. CASE ~RaNewAck
      <3>1. mtx' = mtx
        BY <1>t, <2>2 DEF RaRecv, RaTimeout, RaUnlock, RaDone, unlock
      <3> QED
        BY <1>1, <1>4, <2>2, <3>1 DEF ThreadInv, Exclusive, SdIn, RaIn, UwIn
    <2> QED
      BY <2>1, <2>2
  <1> QED
    BY <1>2, <1>3, <1>5, <1>6 DEF ThreadInv

(* nextSeqNum is moved back to sendBase, unless the store is lost. *)
LEMMA SetNextBack ==
  ASSUME TypeOK, SetNext(sendBase)
  PROVE  \/ nextSeqNum' = sendBase
         \/ nextSeqNum' = nextSeqNum /\ sd.pc = "advance"
  BY DEF SetNext

(* A timeout that resets nextSeqNum in the middle of sendData's critical
   section leaves it at a packet that is loaded. *)
LEMMA RaResetOwned ==
  ASSUME TypeOK, ContentInv, ThreadInv, UNCHANGED receiverVars, RaReset
  PROVE  ContentInv' /\ ThreadInv'
  <1>n. /\ nextSeqNum \in Nat /\ readSoFar \in Nat /\ sendBase \in Nat
        /\ sd.last \in Nat /\ Len(File) \in Nat
        /\ INT_MAX \in Nat /\ DATASIZE \in Nat
    BY Numbers
  <1>1. /\ ra.pc = "reset" /\ ra' = raAt("unlock") /\ SetNext(sendBase)
        /\ UNCHANGED <<sendBase, cwnd, mtx, sd, uw, readSoFar, dataNet>>
    BY DEF RaReset, netVars
  <1>2. ContentInv'
    BY <1>1, ContentFrame DEF receiverVars
  <1>3. Exclusive' /\ UpdateWindowInv'
    BY <1>1 DEF ThreadInv, Exclusive, UpdateWindowInv, SdIn, RaIn, UwIn,
                raAt, Aligned
  <1>4. nextSeqNum >= sendBase /\ NextInv /\ BaseInv
    BY <1>1 DEF ThreadInv, NextInv, RaIn, ContentInv
  <1>5. nextSeqNum' = sendBase \/ (nextSeqNum' = nextSeqNum /\ sd.pc = "advance")
    BY <1>1, SetNextBack
  <1>6. NextInv'
    <2>1. /\ nextSeqNum' <= INT_MAX + DATASIZE /\ nextSeqNum' >= sendBase
          /\ nextSeqNum' <= readSoFar \/ nextSeqNum' <= sendBase
          /\ readSoFar < Len(File) => Aligned(nextSeqNum')
      BY <1>n, <1>4, <1>5 DEF NextInv, BaseInv
    <2> QED
      BY <1>1, <2>1 DEF NextInv, Aligned
  <1>7. SendDataInv'
    <2>1. ASSUME sd.pc = "send"
          PROVE  nextSeqNum' \in DOMAIN cwnd
      <3>1. nextSeqNum' = sendBase
        BY <1>5, <2>1
      <3>2. nextSeqNum \in DOMAIN cwnd
        BY <2>1 DEF ThreadInv, SendDataInv
      <3>3. CASE sendBase < readSoFar
        BY <1>n, <1>4, <3>1, <3>3, LoadedBelow DEF BaseInv
      <3>4. CASE sendBase >= readSoFar
        <4>1. nextSeqNum = sendBase
          BY <1>n, <1>4, <3>4 DEF NextInv
        <4> QED
          BY <3>1, <3>2, <4>1
      <3> QED
        BY <1>n, <3>3, <3>4
    <2>2. ASSUME sd.pc = "advance"
          PROVE  /\ nextSeqNum' <= INT_MAX
                 /\ sd.last # 0 => nextSeqNum' + sd.last <= readSoFar
      <3>1. /\ nextSeqNum <= INT_MAX
            /\ sd.last # 0 => nextSeqNum + sd.last <= readSoFar
        BY <2>2 DEF ThreadInv, SendDataInv
      <3> QED
        BY <1>n, <1>4, <1>5, <3>1
    <2> QED
      BY <1>1, <2>1, <2>2 DEF ThreadInv, SendDataInv
  <1> QED
    BY <1>2, <1>3, <1>6, <1>7 DEF ThreadInv

(* The third duplicate ACK resets nextSeqNum too, with the mutex. *)
LEMMA RaDuplicateOwned ==
  ASSUME TypeOK, ContentInv, ThreadInv, UNCHANGED receiverVars, RaDuplicate
  PROVE  ContentInv' /\ ThreadInv'
  <1>n. /\ nextSeqNum \in Nat /\ readSoFar \in Nat /\ sendBase \in Nat
        /\ Len(File) \in Nat /\ INT_MAX \in Nat /\ DATASIZE \in Nat
    BY Numbers
  <1>1. /\ ra.pc = "lock" /\ ra' = raAt("recv")
        /\ mtx = FALSE /\ mtx' = FALSE
        /\ SetNext(sendBase) \/ UNCHANGED nextSeqNum
        /\ UNCHANGED <<sendBase, cwnd, sd, uw, readSoFar, dataNet>>
    <2>1. ~mtx /\ mtx \in BOOLEAN
      BY DEF RaDuplicate, TypeOK, SenderType
    <2> QED
      BY <2>1 DEF RaDuplicate, unlock, netVars
  <1>2. ~SdIn /\ ~UwIn /\ ~RaIn
    BY <1>1 DEF ThreadInv, Exclusive
  <1>3. ContentInv'
    BY <1>1, ContentFrame DEF receiverVars
  <1>4. Exclusive' /\ UpdateWindowInv' /\ SendDataInv'
    BY <1>1, <1>2 DEF Exclusive, UpdateWindowInv, SendDataInv, SdIn, RaIn, UwIn, raAt
  <1>5. nextSeqNum' = sendBase \/ nextSeqNum' = nextSeqNum
    BY <1>1, SetNextBack
  <1>6. NextInv'
    <2>1. nextSeqNum >= sendBase /\ NextInv /\ BaseInv
      BY <1>2 DEF ThreadInv, NextInv, ContentInv
    <2>2. /\ nextSeqNum' <= INT_MAX + DATASIZE /\ nextSeqNum' >= sendBase
          /\ nextSeqNum' <= readSoFar \/ nextSeqNum' <= sendBase
          /\ readSoFar < Len(File) => Aligned(nextSeqNum')
      BY <1>n, <1>5, <2>1 DEF NextInv, BaseInv
    <2> QED
      BY <1>1, <2>2 DEF NextInv, Aligned
  <1> QED
    BY <1>3, <1>4, <1>6 DEF ThreadInv

(* An acknowledged packet is erased, and sendBase moves on by one packet, which
   the receiver has accepted. *)
LEMMA RaEraseOwned ==
  ASSUME TypeOK, AlwaysInv, ContentInv, ThreadInv, UNCHANGED receiverVars, RaErase
  PROVE  ContentInv' /\ ThreadInv'
  <1>n. /\ nextSeqNum \in Nat /\ readSoFar \in 0 .. Len(File) /\ sendBase \in Nat
        /\ ra.ack \in Nat /\ bytesRcvdSoFar \in Nat
        /\ Len(File) \in Nat /\ INT_MAX \in Nat
        /\ DATASIZE \in Nat /\ DATASIZE > 0
    BY Numbers
  <1>t. ra \in [pc: {"recv", "reset", "unlock", "lock", "erase", "done"},
                ack: Nat, acked: Nat]
    BY DEF TypeOK, SenderType
  <1>1. /\ ra.pc = "erase" /\ ra'.pc = "erase"
        /\ sendBase < ra.ack
        /\ sendBase' = sendBase + DATASIZE
        /\ Erase(sendBase)
        /\ UNCHANGED <<nextSeqNum, mtx, sd, uw, readSoFar, dataNet>>
    BY <1>t DEF RaErase, netVars
  <1>2. sendBase < bytesRcvdSoFar /\ bytesRcvdSoFar <= readSoFar
    <2>1. ra.ack <= bytesRcvdSoFar
      BY DEF AlwaysInv, AcksAccepted
    <2> QED
      BY <1>n, <1>1, <2>1 DEF ContentInv, ReceivedWhole
  <1>3. ~SdIn /\ ~UwIn
    BY <1>1 DEF ThreadInv, Exclusive, RaIn
  <1>4. /\ DOMAIN cwnd' = DOMAIN cwnd \ {sendBase}
        /\ \A s \in DOMAIN cwnd \ {sendBase} : cwnd'[s] = cwnd[s]
    BY <1>1 DEF Erase
  <1>5. ReadWhole' /\ NetContent' /\ ReceivedWhole' /\ Prefix'
    BY <1>1 DEF ContentInv, ReadWhole, NetContent, ReceivedWhole, Prefix,
                DataAt, Aligned, Chunk, receiverVars
  <1>6. CwndContent'
    BY <1>1, <1>4 DEF ContentInv, CwndContent, DataAt, Aligned, Chunk
  <1>7. CwndComplete'
    <2>1. ASSUME NEW s \in (sendBase + DATASIZE) .. readSoFar, DataAt(s)
          PROVE  s \in DOMAIN cwnd'
      <3>1. s \in Nat /\ sendBase <= s /\ s # sendBase /\ s < readSoFar /\ Aligned(s)
        BY <1>n, <2>1 DEF DataAt
      <3> QED
        BY <1>4, <3>1, LoadedBelow
    <2> QED
      BY <1>1, <2>1 DEF CwndComplete, DataAt, Aligned
  <1>8. BaseInv'
    <2>1. Aligned(sendBase) /\ Aligned(sendBase + DATASIZE)
      BY <1>n, AlignedNext DEF ContentInv, BaseInv
    <2>2. sendBase + DATASIZE <= INT_MAX + DATASIZE
      <3>1. PICK s \in 0 .. INT_MAX : Aligned(s) /\ bytesRcvdSoFar <= s + DATASIZE
        BY DEF ContentInv, ReceivedWhole
      <3>2. s \in Nat /\ s <= INT_MAX /\ sendBase < s + DATASIZE
        BY <1>n, <1>2, <3>1
      <3>3. s < sendBase => s + DATASIZE <= sendBase
        BY <1>n, <2>1, <3>1, <3>2, AlignedGap
      <3> QED
        BY <1>n, <3>2, <3>3
    <2>3. readSoFar < Len(File) => sendBase + DATASIZE <= readSoFar
      <3>1. readSoFar < Len(File) => Aligned(readSoFar)
        BY <1>n DEF ContentInv, ReadWhole
      <3>2. sendBase < readSoFar /\ readSoFar \in Nat
        BY <1>n, <1>2
      <3> QED
        BY <1>n, <2>1, <3>1, <3>2, AlignedGap
    <2> QED
      BY <1>1, <2>1, <2>2, <2>3 DEF BaseInv, Aligned
  <1>9. Exclusive' /\ SendDataInv' /\ UpdateWindowInv'
    BY <1>1, <1>3 DEF ThreadInv, Exclusive, SendDataInv, UpdateWindowInv,
                      SdIn, RaIn, UwIn
  <1>10. NextInv'
    <2>1. /\ nextSeqNum <= INT_MAX + DATASIZE
          /\ nextSeqNum <= readSoFar \/ nextSeqNum <= sendBase
          /\ readSoFar < Len(File) => Aligned(nextSeqNum)
      BY DEF ThreadInv, NextInv
    <2>2. nextSeqNum <= readSoFar \/ nextSeqNum <= sendBase + DATASIZE
      BY <1>n, <2>1
    <2> QED
      BY <1>1, <2>1, <2>2 DEF NextInv, RaIn, Aligned
  <1> QED
    BY <1>5, <1>6, <1>7, <1>8, <1>9, <1>10 DEF ContentInv, ThreadInv

(* At the end of the erasing nextSeqNum catches up with sendBase. *)
LEMMA RaSlideOwned ==
  ASSUME TypeOK, ContentInv, ThreadInv, UNCHANGED receiverVars, RaSlide
  PROVE  ContentInv' /\ ThreadInv'
  <1>n. /\ nextSeqNum \in Nat /\ readSoFar \in Nat /\ sendBase \in Nat
        /\ Len(File) \in Nat /\ INT_MAX \in Nat /\ DATASIZE \in Nat
    BY Numbers
  <1>1. /\ ra.pc = "erase" /\ ra' = raAt("recv") /\ mtx' = FALSE
        /\ UNCHANGED <<sendBase, cwnd, sd, uw, readSoFar, dataNet>>
    BY DEF RaSlide, unlock, netVars
  <1>2. ~SdIn /\ ~UwIn
    BY <1>1 DEF ThreadInv, Exclusive, RaIn
  <1>3. nextSeqNum < sendBase => nextSeqNum' = sendBase
    BY <1>2, SetNextBack DEF RaSlide, SdIn
  <1>4. ~(nextSeqNum < sendBase) => nextSeqNum' = nextSeqNum
    BY DEF RaSlide
  <1>5. ContentInv'
    BY <1>1, ContentFrame DEF receiverVars
  <1>6. Exclusive' /\ UpdateWindowInv' /\ SendDataInv'
    BY <1>1, <1>2 DEF Exclusive, UpdateWindowInv, SendDataInv, SdIn, RaIn, UwIn, raAt
  <1>7. NextInv'
    <2>1. NextInv /\ BaseInv
      BY DEF ThreadInv, ContentInv
    <2>2. /\ nextSeqNum' <= INT_MAX + DATASIZE /\ nextSeqNum' >= sendBase
          /\ nextSeqNum' <= readSoFar \/ nextSeqNum' <= sendBase
          /\ readSoFar < Len(File) => Aligned(nextSeqNum')
      BY <1>n, <1>3, <1>4, <2>1 DEF NextInv, BaseInv
    <2> QED
      BY <1>1, <2>2 DEF NextInv, Aligned
  <1> QED
    BY <1>5, <1>6, <1>7 DEF ThreadInv

------------------------------------------------------------------------------
(* updateWindow *)

(* The reading starts at nextSeqNum, as far as an int can count. *)
LEMMA UwLockOwned ==
  ASSUME TypeOK, ContentInv, ThreadInv, UNCHANGED receiverVars, UwLock
  PROVE  ContentInv' /\ ThreadInv'
  <1>n. /\ nextSeqNum \in Nat /\ readSoFar \in Nat /\ sendBase \in Nat
        /\ Len(File) \in Nat /\ INT_MAX \in Nat /\ DATASIZE \in Nat
    BY Numbers
  <1>1. /\ mtx = FALSE /\ mtx' = TRUE
        /\ uw' = [pc |-> "loop", seqNum |-> AsInt(nextSeqNum)]
        /\ UNCHANGED <<sendBase, nextSeqNum, cwnd, sd, ra, readSoFar, dataNet>>
    <2>1. ~mtx /\ mtx \in BOOLEAN
      BY DEF UwLock, lock, TypeOK, SenderType
    <2> QED
      BY <2>1 DEF UwLock, lock, ccVars, netVars
  <1>2. ~SdIn /\ ~UwIn /\ ~RaIn
    BY <1>1 DEF ThreadInv, Exclusive
  <1>3. ContentInv'
    BY <1>1, ContentFrame DEF receiverVars
  <1>4. Exclusive' /\ NextInv' /\ SendDataInv'
    BY <1>1, <1>2 DEF ThreadInv, Exclusive, NextInv, SendDataInv, SdIn, RaIn, UwIn,
                      Aligned
  <1>5. UpdateWindowInv'
    <2>1. NextInv /\ BaseInv
      BY DEF ThreadInv, ContentInv
    <2>2. AsInt(nextSeqNum) >= 0 => AsInt(nextSeqNum) = nextSeqNum
      <3>1. nextSeqNum < WORD
        BY <1>n, <2>1, WordProperties DEF NextInv
      <3> QED
        BY <1>n, <3>1, AsIntSmall
    <2>3. /\ nextSeqNum >= sendBase
          /\ readSoFar < Len(File) => Aligned(nextSeqNum) /\ nextSeqNum <= readSoFar
      BY <1>n, <1>2, <2>1 DEF NextInv, BaseInv
    <2> QED
      BY <1>1, <2>2, <2>3 DEF UpdateWindowInv, UwIn, Aligned
  <1> QED
    BY <1>3, <1>4, <1>5 DEF ThreadInv

(* Steps that end a round of reading, or the thread. *)
LEMMA UwControlOwned ==
  ASSUME TypeOK, ContentInv, ThreadInv, UNCHANGED receiverVars, UwExit \/ UwUnlock
  PROVE  ContentInv' /\ ThreadInv'
  <1>1. UNCHANGED <<sendBase, nextSeqNum, cwnd, sd, ra, readSoFar, dataNet>>
    BY DEF UwExit, UwUnlock, ccVars, netVars
  <1>2. ContentInv'
    BY <1>1, ContentFrame DEF receiverVars
  <1>3. NextInv' /\ SendDataInv'
    BY <1>1 DEF ThreadInv, NextInv, SendDataInv, RaIn, Aligned
  <1>4. ~UwIn'
    BY DEF UwExit, UwUnlock, UwIn, uwAt
  <1>5. Exclusive'
    BY <1>1, <1>4 DEF ThreadInv, Exclusive, SdIn, RaIn, UwIn, UwExit, UwUnlock, unlock
  <1>6. UpdateWindowInv'
    BY <1>4 DEF UpdateWindowInv
  <1> QED
    BY <1>2, <1>3, <1>5, <1>6 DEF ThreadInv

(* The counter moves on by a packet, or becomes negative. *)
LEMMA NextSeqValue ==
  ASSUME TypeOK, AlwaysInv, uw.pc = "loop", InWindow, uw' = NextSeq
  PROVE  /\ uw.seqNum \in Nat /\ uw.seqNum <= INT_MAX
         /\ uw'.pc = "loop"
         /\ uw'.seqNum >= 0 => uw'.seqNum = uw.seqNum + DATASIZE
  <1>n. INT_MAX \in Nat /\ DATASIZE \in Nat
    BY Numbers
  <1>t. uw \in [pc: {"lock", "loop", "done"}, seqNum: Int]
    BY DEF TypeOK, SenderType
  <1>1. uw.seqNum \in Nat
    BY DEF InWindow
  <1>2. uw.seqNum <= INT_MAX
    BY DEF AlwaysInv, PacketsSmall
  <1>3. uw'.pc = "loop" /\ uw'.seqNum = AsInt(uw.seqNum + DATASIZE)
    BY <1>t DEF NextSeq
  <1>4. uw.seqNum + DATASIZE \in Nat /\ uw.seqNum + DATASIZE < WORD
    BY <1>n, <1>1, <1>2, WordProperties
  <1> QED
    BY <1>1, <1>2, <1>3, <1>4, AsIntSmall

(* A packet that is loaded is skipped. *)
LEMMA UwSkipOwned ==
  ASSUME TypeOK, AlwaysInv, ContentInv, ThreadInv, UNCHANGED receiverVars, UwSkip
  PROVE  ContentInv' /\ ThreadInv'
  <1>n. /\ readSoFar \in Nat /\ sendBase \in Nat /\ Len(File) \in Nat
        /\ DATASIZE \in Nat
    BY Numbers
  <1>1. /\ uw.pc = "loop" /\ InWindow /\ uw' = NextSeq
        /\ uw.seqNum \in DOMAIN cwnd
        /\ UNCHANGED <<sendBase, nextSeqNum, cwnd, mtx, sd, ra, readSoFar, dataNet>>
    BY DEF UwSkip, ccVars, netVars
  <1>2. /\ uw.seqNum \in Nat
        /\ uw'.pc = "loop"
        /\ uw'.seqNum >= 0 => uw'.seqNum = uw.seqNum + DATASIZE
    BY <1>1, NextSeqValue
  <1>3. ContentInv'
    BY <1>1, ContentFrame DEF receiverVars
  <1>4. Exclusive' /\ NextInv' /\ SendDataInv'
    BY <1>1, <1>2 DEF ThreadInv, Exclusive, NextInv, SendDataInv, SdIn, RaIn, UwIn,
                      Aligned
  <1>5. UpdateWindowInv'
    <2>1. /\ uw.seqNum >= sendBase
          /\ readSoFar < Len(File) => Aligned(uw.seqNum)
      BY <1>1, <1>2 DEF ThreadInv, UpdateWindowInv, UwIn
    <2>2. ASSUME readSoFar < Len(File)
          PROVE  /\ Aligned(uw.seqNum + DATASIZE)
                 /\ uw.seqNum + DATASIZE <= readSoFar
      <3>1. Aligned(readSoFar)
        BY <1>n, <2>2 DEF ContentInv, ReadWhole
      <3>2. DataAt(uw.seqNum)
        BY <1>n, <1>1, <2>2 DEF ContentInv, CwndContent
      <3> QED
        BY <1>n, <1>2, <2>1, <2>2, <3>1, <3>2, AlignedNext, AlignedGap DEF DataAt
    <2>3. uw.seqNum + DATASIZE >= sendBase
      BY <1>n, <1>2, <2>1
    <2> QED
      BY <1>1, <1>2, <2>2, <2>3 DEF UpdateWindowInv, Aligned
  <1> QED
    BY <1>3, <1>4, <1>5 DEF ThreadInv

(* The packet that is loaded is the next one of the file, or an empty one. *)
LEMMA LoadedNumber ==
  ASSUME TypeOK, AlwaysInv, ContentInv, ThreadInv, UwLoad
  PROVE  /\ uw.seqNum \in Nat /\ uw.seqNum >= sendBase
         /\ readSoFar < Len(File) => uw.seqNum = readSoFar
         /\ ~(readSoFar < Len(File)) => ~DataAt(uw.seqNum)
  <1>n. /\ readSoFar \in Nat /\ sendBase \in Nat /\ Len(File) \in Nat
    BY Numbers
  <1>1. uw.seqNum \in Nat /\ uw.seqNum \notin DOMAIN cwnd
    BY NextSeqValue DEF UwLoad
  <1>2. /\ uw.seqNum >= sendBase
        /\ readSoFar < Len(File) => Aligned(uw.seqNum) /\ uw.seqNum <= readSoFar
    BY <1>1 DEF UwLoad, ThreadInv, UpdateWindowInv, UwIn
  <1>3. ~DataAt(uw.seqNum)
    BY <1>n, <1>1, <1>2, LoadedBelow DEF DataAt
  <1> QED
    BY <1>n, <1>1, <1>2, <1>3 DEF DataAt

(* Loading it keeps the window, the file position and the counter together. *)
LEMMA UwLoadOwned ==
  ASSUME TypeOK, AlwaysInv, ContentInv, ThreadInv, UNCHANGED receiverVars, UwLoad
  PROVE  ContentInv' /\ ThreadInv'
  <1> DEFINE seqNum == uw.seqNum
             chunk == Chunk(readSoFar)
             EOF == readSoFar = Len(File)
  <1>n. /\ nextSeqNum \in Nat /\ readSoFar \in Nat /\ readSoFar \in 0 .. Len(File)
        /\ sendBase \in Nat /\ bytesRcvdSoFar \in Nat
        /\ Len(File) \in Nat /\ INT_MAX \in Nat
        /\ DATASIZE \in Nat /\ DATASIZE > 0
    BY Numbers
  <1>1. /\ uw.pc = "loop" /\ InWindow /\ uw' = NextSeq
        /\ Insert(seqNum, [seq |-> seqNum, data |-> chunk])
        /\ readSoFar' = readSoFar + Len(chunk)
        /\ UNCHANGED <<sendBase, nextSeqNum, mtx, sd, ra, dataNet>>
    BY DEF UwLoad, netVars
  <1>2. /\ seqNum \in Nat /\ seqNum <= INT_MAX
        /\ uw'.pc = "loop"
        /\ uw'.seqNum >= 0 => uw'.seqNum = seqNum + DATASIZE
    BY <1>1, NextSeqValue
  <1>3. /\ seqNum >= sendBase
        /\ ~EOF => seqNum = readSoFar
        /\ EOF => ~DataAt(seqNum)
    BY <1>n, LoadedNumber
  <1>4. /\ Len(chunk) \in 0 .. DATASIZE
        /\ readSoFar + Len(chunk) <= Len(File)
        /\ chunk = <<>> <=> EOF
        /\ readSoFar + Len(chunk) < Len(File) => Len(chunk) = DATASIZE
    BY <1>n, ChunkLength
  <1>5. DOMAIN cwnd' = DOMAIN cwnd \cup {seqNum}
        /\ cwnd'[seqNum] = [seq |-> seqNum, data |-> chunk]
        /\ \A s \in DOMAIN cwnd : s # seqNum => cwnd'[s] = cwnd[s]
    BY <1>1 DEF Insert
  <1>6. EOF => readSoFar' = readSoFar
    <2>1. Len(<<>>) = 0
      OBVIOUS
    <2> QED
      BY <1>n, <1>1, <1>4, <2>1
  <1>7. ~EOF => /\ Aligned(readSoFar) /\ readSoFar < readSoFar'
                /\ readSoFar' < Len(File) => readSoFar' = readSoFar + DATASIZE
    <2>1. ~EOF => Len(chunk) # 0
      BY <1>n, <1>4, ChunkLength, EmptySeq
    <2>2. ~EOF => Aligned(readSoFar)
      BY DEF ContentInv, ReadWhole
    <2> QED
      BY <1>n, <1>1, <1>4, <2>1, <2>2
  <1>8. readSoFar' \in Nat /\ readSoFar <= readSoFar' /\ readSoFar' <= Len(File)
        /\ readSoFar' <= readSoFar + DATASIZE
    BY <1>n, <1>1, <1>4
  <1> HIDE DEF seqNum, chunk, EOF
  (* What becomes available is the number that is loaded. *)
  <1>9. \A s \in Nat : DataAt(s)' <=> DataAt(s) \/ (~EOF /\ s = seqNum)
    <2>1. ASSUME NEW s \in Nat, DataAt(s) PROVE DataAt(s)'
      BY <1>n, <1>8, <2>1 DEF DataAt, Aligned
    <2>2. ASSUME NEW s \in Nat, ~EOF, s = seqNum PROVE DataAt(s)'
      BY <1>3, <1>7, <2>2 DEF DataAt, Aligned
    <2>3. ASSUME NEW s \in Nat, DataAt(s)', ~DataAt(s)
          PROVE  ~EOF /\ s = seqNum
      <3>1. Aligned(s) /\ s < readSoFar' /\ readSoFar <= s
        BY <1>n, <1>8, <2>3 DEF DataAt, Aligned
      <3>2. ~EOF
        BY <1>n, <1>6, <3>1
      <3>3. s = readSoFar
        <4>1. s < readSoFar + DATASIZE
          BY <1>n, <1>8, <3>1
        <4> QED
          BY <1>n, <1>7, <3>1, <3>2, <4>1, AlignedSame
      <3> QED
        BY <1>3, <3>2, <3>3
    <2> QED
      BY <1>2, <2>1, <2>2, <2>3
  <1>10. ReadWhole'
    <2>1. CASE readSoFar' < Len(File)
      <3>1. ~EOF
        BY <1>n, <1>6, <2>1 DEF EOF
      <3>2. Aligned(readSoFar + DATASIZE)
        BY <1>n, <1>7, <3>1, AlignedNext
      <3> QED
        BY <1>7, <2>1, <3>1, <3>2 DEF ReadWhole, Aligned
    <2> QED
      BY <1>n, <1>8, <2>1 DEF ReadWhole
  <1>11. CwndContent'
    <2>1. ASSUME NEW s \in DOMAIN cwnd'
          PROVE  /\ cwnd'[s].seq = s /\ s <= INT_MAX
                 /\ DataAt(s)' => cwnd'[s].data = Chunk(s)
                 /\ ~DataAt(s)' => cwnd'[s].data = <<>> /\ readSoFar' = Len(File)
      <3>1. CASE s = seqNum
        <4>1. cwnd'[s].seq = s /\ s <= INT_MAX /\ cwnd'[s].data = chunk
          BY <1>2, <1>5, <3>1
        <4>2. CASE EOF
          BY <1>2, <1>3, <1>4, <1>6, <1>9, <3>1, <4>1, <4>2 DEF EOF
        <4>3. CASE ~EOF
          BY <1>3, <1>9, <3>1, <4>1, <4>3 DEF chunk
        <4> QED
          BY <4>2, <4>3
      <3>2. CASE s # seqNum
        <4>1. s \in DOMAIN cwnd /\ cwnd'[s] = cwnd[s] /\ s \in Nat
          BY <1>5, <3>2, Numbers
        <4>2. /\ cwnd[s].seq = s /\ s <= INT_MAX
              /\ DataAt(s) => cwnd[s].data = Chunk(s)
              /\ ~DataAt(s) => cwnd[s].data = <<>> /\ EOF
          BY <4>1 DEF ContentInv, CwndContent, EOF
        <4>3. DataAt(s)' <=> DataAt(s)
          BY <1>9, <3>2, <4>1
        <4> QED
          BY <1>6, <4>1, <4>2, <4>3 DEF EOF
      <3> QED
        BY <3>1, <3>2
    <2> QED
      BY <2>1 DEF CwndContent, Chunk
  <1>12. CwndComplete'
    <2>1. ASSUME NEW s \in sendBase .. readSoFar', DataAt(s)'
          PROVE  s \in DOMAIN cwnd'
      <3>1. s \in Nat /\ sendBase <= s
        BY <1>n, <1>8
      <3>2. CASE DataAt(s)
        BY <1>5, <3>1, <3>2, LoadedBelow DEF DataAt
      <3>3. CASE s = seqNum
        BY <1>5, <3>3
      <3> QED
        BY <1>9, <2>1, <3>1, <3>2, <3>3
    <2> QED
      BY <1>1, <2>1 DEF CwndComplete
  <1>13. NetContent'
    <2>1. ASSUME NEW m \in dataNet, m.data # <<>>
          PROVE  DataAt(m.seq)' /\ m.data = Chunk(m.seq)
      <3>1. m.seq \in Nat
        BY DEF TypeOK, NetType
      <3>2. DataAt(m.seq) /\ m.data = Chunk(m.seq)
        BY <2>1 DEF ContentInv, NetContent
      <3> QED
        BY <1>9, <3>1, <3>2
    <2> QED
      BY <1>1, <2>1 DEF NetContent, DataAt, Aligned, Chunk
  <1>14. ReceivedWhole' /\ Prefix'
    <2>1. bytesRcvdSoFar <= readSoFar'
      BY <1>n, <1>8 DEF ContentInv, ReceivedWhole
    <2> QED
      BY <2>1 DEF ContentInv, ReceivedWhole, Prefix, Aligned, receiverVars
  <1>15. BaseInv' /\ NextInv'
    <2>1. readSoFar' < Len(File) => readSoFar < Len(File)
      BY <1>n, <1>8
    <2>2. BaseInv /\ NextInv
      BY DEF ContentInv, ThreadInv
    <2>3. readSoFar' < Len(File) => sendBase <= readSoFar'
      BY <1>n, <1>8, <2>1, <2>2 DEF BaseInv
    <2>4. nextSeqNum <= readSoFar' \/ nextSeqNum <= sendBase
      BY <1>n, <1>8, <2>2 DEF NextInv
    <2> QED
      BY <1>1, <2>1, <2>2, <2>3, <2>4 DEF BaseInv, NextInv, RaIn, Aligned
  <1>16. Exclusive' /\ SendDataInv'
    <2>1. ~SdIn
      BY <1>1 DEF ThreadInv, Exclusive, UwIn
    <2> QED
      BY <1>1, <1>2, <2>1 DEF ThreadInv, Exclusive, SendDataInv, SdIn, RaIn, UwIn
  <1>17. UpdateWindowInv'
    <2>1. seqNum + DATASIZE >= sendBase
      BY <1>n, <1>2, <1>3
    <2>2. ASSUME readSoFar' < Len(File)
          PROVE  Aligned(seqNum + DATASIZE) /\ seqNum + DATASIZE <= readSoFar'
      <3>1. ~EOF
        BY <1>n, <1>6, <2>2 DEF EOF
      <3>2. seqNum + DATASIZE = readSoFar'
        BY <1>3, <1>7, <2>2, <3>1
      <3> QED
        BY <1>2, <1>3, <1>7, <1>8, <3>1, <3>2, AlignedNext
    <2> QED
      BY <1>1, <1>2, <2>1, <2>2 DEF UpdateWindowInv, Aligned
  <1> QED
    BY <1>10, <1>11, <1>12, <1>13, <1>14, <1>15, <1>16, <1>17
    DEF ContentInv, ThreadInv

------------------------------------------------------------------------------
(* The main thread *)

(* It only sends FINs, which carry no data. *)
LEMMA MainOwned ==
  ASSUME TypeOK, ContentInv, ThreadInv, UNCHANGED receiverVars, Main
  PROVE  ContentInv' /\ ThreadInv'
  <1>1. UNCHANGED <<readSoFar, cwnd, sendBase, nextSeqNum, mtx, sd, ra, uw>>
    BY DEF Main, Join, SendFin, RecvFinAck, FinTimeout, ccVars
  <1>2. \A m \in dataNet' : m \in dataNet \/ m.data = <<>>
    BY DEF Main, Join, SendFin, RecvFinAck, FinTimeout, SendToReceiver, FinPacket,
           netVars
  <1>3. NetContent'
    BY <1>1, <1>2 DEF ContentInv, NetContent, DataAt, Aligned, Chunk
  <1>4. ContentInv'
    BY <1>1, <1>3 DEF ContentInv, ReadWhole, CwndContent, CwndComplete, ReceivedWhole,
                      BaseInv, Prefix, DataAt, Aligned, Chunk, receiverVars
  <1> QED
    BY <1>1, <1>4, ThreadFrame

------------------------------------------------------------------------------
(* The receiver *)

(* A datagram that is accepted continues what was accepted by whole packets, or
   by the end of the file. *)
LEMMA RxDataOwned ==
  ASSUME TypeOK, AlwaysInv, ContentInv, NEW m \in dataNet,
         UNCHANGED <<senderVars, dataNet>>, RxData(m)
  PROVE  ReceivedWhole' /\ Prefix'
  <1>n. /\ readSoFar \in 0 .. Len(File) /\ readSoFar \in Nat /\ bytesRcvdSoFar \in Nat
        /\ Len(File) \in Nat /\ INT_MAX \in Nat
        /\ DATASIZE \in Nat /\ outfile \in Seq(Nat)
    BY Numbers
  <1>1. rx.data = <<>>
    BY DEF RxData, AlwaysInv, Written
  <1>2. outfile \o <<>> = outfile
    BY <1>n, ConcatEmptySeq
  <1>3. readSoFar' = readSoFar /\ outfile' = outfile
    BY DEF RxData, senderVars
  <1>4. outfile = SubSeq(File, 1, bytesRcvdSoFar)
    BY <1>1, <1>2 DEF ContentInv, Prefix
  <1>5. CASE m.seq = bytesRcvdSoFar /\ m.data # <<>>
    <2>1. DataAt(bytesRcvdSoFar) /\ m.data = Chunk(bytesRcvdSoFar)
      BY <1>5 DEF ContentInv, NetContent
    <2>2. /\ bytesRcvdSoFar \in 0 .. Len(File)
          /\ Len(m.data) \in 1 .. DATASIZE
          /\ bytesRcvdSoFar + Len(m.data) <= readSoFar
          /\ \/ bytesRcvdSoFar + Len(m.data) = Len(File)
             \/ Aligned(bytesRcvdSoFar + Len(m.data))
      BY <1>n, <2>1, ChunkBelow DEF DataAt, ContentInv, ReadWhole
    <2>3. /\ bytesRcvdSoFar' = bytesRcvdSoFar + Len(m.data)
          /\ rx'.data = m.data
      BY <1>5, NoWrap DEF RxData
    <2>4. bytesRcvdSoFar <= INT_MAX
      BY <1>5 DEF AlwaysInv, PacketsSmall
    <2>5. ReceivedWhole'
      <3>1. bytesRcvdSoFar \in 0 .. INT_MAX
        BY <1>n, <2>4
      <3>2. bytesRcvdSoFar' <= bytesRcvdSoFar + DATASIZE
        BY <1>n, <2>2, <2>3
      <3>3. \E s \in 0 .. INT_MAX : Aligned(s) /\ bytesRcvdSoFar' <= s + DATASIZE
        BY <2>1, <3>1, <3>2 DEF DataAt
      <3> QED
        BY <1>3, <2>2, <2>3, <3>3 DEF ReceivedWhole, Aligned
    <2>6. Prefix'
      BY <1>3, <1>4, <2>1, <2>2, <2>3, ChunkExtends DEF Prefix
    <2> QED
      BY <2>5, <2>6
  <1>6. CASE ~(m.seq = bytesRcvdSoFar /\ m.data # <<>>)
    <2>1. bytesRcvdSoFar' = bytesRcvdSoFar /\ rx'.data = <<>>
      <3>1. CASE m.seq = bytesRcvdSoFar
        <4>1. m.data = <<>> /\ Len(<<>>) = 0
          BY <1>6, <3>1
        <4>2. bytesRcvdSoFar' = bytesRcvdSoFar + Len(m.data) /\ rx'.data = m.data
          BY <3>1, NoWrap DEF RxData
        <4> QED
          BY <1>n, <4>1, <4>2
      <3>2. CASE m.seq # bytesRcvdSoFar
        BY <3>2 DEF RxData
      <3> QED
        BY <3>1, <3>2
    <2>2. ReceivedWhole'
      BY <1>3, <2>1 DEF ContentInv, ReceivedWhole, Aligned
    <2>3. Prefix'
      BY <1>2, <1>3, <1>4, <2>1 DEF Prefix
    <2> QED
      BY <2>2, <2>3
  <1> QED
    BY <1>5, <1>6

(* A step of the receiving process. *)
LEMMA ReceiverOwned ==
  ASSUME TypeOK, AlwaysInv, ContentInv, ThreadInv, UNCHANGED senderVars, ReceiverStep
  PROVE  ContentInv' /\ ThreadInv'
  <1>n. outfile \in Seq(Nat) /\ rx.data \in Seq(Nat)
    BY Numbers
  <1>t. rx \in [pc: {"recv", "push", "write", "fin", "close", "exit"}, data: Seq(Nat)]
    BY DEF TypeOK, ReceiverType
  <1>1. UNCHANGED <<readSoFar, cwnd, sendBase, nextSeqNum, mtx, sd, ra, uw>>
    BY DEF senderVars, ccVars
  <1>2. UNCHANGED dataNet
    BY DEF ReceiverStep, ReceiveData, SendACK, RxData, RxFin, RxPush, RxWrite,
           RxFinAck, RxExit, SaDrain, SaSend, SendToSender, netVars
  <1>3. ThreadInv'
    BY <1>1, ThreadFrame
  <1>4. ReadWhole' /\ CwndContent' /\ CwndComplete' /\ NetContent' /\ BaseInv'
    BY <1>1, <1>2 DEF ContentInv, ReadWhole, CwndContent, CwndComplete, NetContent,
                      BaseInv, DataAt, Aligned, Chunk
  <1>5. ReceivedWhole' /\ Prefix'
    <2>1. ASSUME NEW m \in dataNet, RxData(m) PROVE ReceivedWhole' /\ Prefix'
      BY <1>2, <2>1, RxDataOwned
    <2>2. CASE RxWrite
      <3>1. /\ outfile' = outfile \o rx.data /\ rx'.data = <<>>
            /\ bytesRcvdSoFar' = bytesRcvdSoFar
        BY <2>2 DEF RxWrite
      <3>2. outfile' \o <<>> = outfile'
        BY <1>n, <3>1, ConcatProperties, ConcatEmptySeq
      <3>3. Prefix'
        BY <3>1, <3>2 DEF ContentInv, Prefix
      <3> QED
        BY <1>1, <3>1, <3>3 DEF ContentInv, ReceivedWhole, Aligned
    <2>3. CASE \/ \E m \in dataNet : RxFin(m)
               \/ RxPush \/ RxFinAck \/ RxExit \/ SendACK
      <3>1. UNCHANGED <<bytesRcvdSoFar, outfile>> /\ rx'.data = rx.data
        BY <1>t, <2>3 DEF RxFin, RxPush, RxFinAck, RxExit, SendACK, SaDrain, SaSend
      <3> QED
        BY <1>1, <3>1 DEF ContentInv, ReceivedWhole, Prefix, Aligned
    <2> QED
      BY <2>1, <2>2, <2>3 DEF ReceiverStep, ReceiveData
  <1> QED
    BY <1>3, <1>4, <1>5 DEF ContentInv

------------------------------------------------------------------------------
(* The inductive invariant *)

(* The mutex stays stolen. *)
LEMMA StolenStays ==
  ASSUME [Next]_vars, ~stolen'
  PROVE  ~stolen
  BY DEF Next, vars, senderVars, receiverVars, SendingProcess, ReceivingProcess,
         SenderStep, SendData, SdLock, SdExit, SdFind, SdUnlock, SdSend, SdAdvance,
         RecvACK, RaRecv, RaTimeout, RaReset, RaUnlock, RaDone, RaDuplicate,
         RaNewAck, RaErase, RaSlide,
         UpdateWindow, UwLock, UwExit, UwSkip, UwLoad, UwUnlock,
         Main, Join, SendFin, RecvFinAck, FinTimeout

(* The parts are those of OwnedInv. *)
LEMMA OwnedParts == OwnedInv <=> ContentInv /\ ThreadInv
  BY DEF OwnedInv, ContentInv, ThreadInv

(* As long as the mutex is not stolen, every step preserves the second group of
   invariants. *)
LEMMA OwnedStep ==
  ASSUME TypeOK, AlwaysInv, ContentInv, ThreadInv, [Next]_vars, ~stolen'
  PROVE  ContentInv' /\ ThreadInv'
  <1>1. CASE SendingProcess
    <2>0. UNCHANGED receiverVars
      BY <1>1 DEF SendingProcess
    <2>1. CASE SendData
      BY <2>0, <2>1, SdControlOwned, SdSendOwned, SdAdvanceOwned DEF SendData
    <2>2. CASE RecvACK
      <3>1. CASE \/ \E m \in ackNet : RaRecv(m)
                 \/ RaTimeout \/ RaUnlock \/ RaDone \/ RaNewAck
        BY <2>0, <3>1, RaControlOwned
      <3>2. CASE RaReset
        BY <2>0, <3>2, RaResetOwned
      <3>3. CASE RaDuplicate
        BY <2>0, <3>3, RaDuplicateOwned
      <3>4. CASE RaErase
        BY <2>0, <3>4, RaEraseOwned
      <3>5. CASE RaSlide
        BY <2>0, <3>5, RaSlideOwned
      <3> QED
        BY <2>2, <3>1, <3>2, <3>3, <3>4, <3>5 DEF RecvACK
    <2>3. CASE UpdateWindow
      BY <2>0, <2>3, UwLockOwned, UwControlOwned, UwSkipOwned, UwLoadOwned
      DEF UpdateWindow
    <2>4. CASE Main
      BY <2>0, <2>4, MainOwned
    <2> QED
      BY <1>1, <2>1, <2>2, <2>3, <2>4 DEF SendingProcess, SenderStep
  <1>2. CASE ReceivingProcess
    BY <1>2, ReceiverOwned DEF ReceivingProcess
  <1>3. CASE UNCHANGED vars
    <2>1. UNCHANGED <<readSoFar, cwnd, sendBase, nextSeqNum, dataNet, mtx, sd, ra, uw,
                      bytesRcvdSoFar, outfile, rx>>
      BY <1>3 DEF vars, senderVars, receiverVars, ccVars, netVars
    <2> QED
      BY <2>1, ContentFrame, ThreadFrame
  <1> QED
    BY <1>1, <1>2, <1>3 DEF Next

(* The inductive invariant of a transfer holds for every file, every number of
   bytes asked for, every packet size and every width of an int. *)
THEOREM InductiveInvariant == Spec => []IInv
  <1>1. Init => IInv
    BY TypeInit, AlwaysInit, OwnedInit, OwnedParts DEF IInv
  <1>2. IInv /\ [Next]_vars => IInv'
    <2> SUFFICES ASSUME IInv, [Next]_vars PROVE IInv'
      OBVIOUS
    <2>1. TypeOK' /\ WindowInv'
      BY TypeStep DEF IInv
    <2>2. AlwaysInv'
      BY PacketsSmallStep, WrittenStep, AcksAcceptedStep, EndInOrderStep, BaseStep
      DEF IInv, AlwaysInv
    <2>3. ASSUME ~stolen' PROVE OwnedInv'
      <3>1. ContentInv /\ ThreadInv
        BY <2>3, StolenStays, OwnedParts DEF IInv
      <3>2. ContentInv' /\ ThreadInv'
        BY <2>3, <3>1, OwnedStep DEF IInv
      <3> QED
        BY <3>2 DEF OwnedInv, ContentInv, ThreadInv
    <2> QED
      BY <2>1, <2>2, <2>3 DEF IInv
  <1> QED
    BY <1>1, <1>2, PTL DEF Spec

------------------------------------------------------------------------------
(* What it implies *)

(* The output file is a prefix of the input file, whatever the network does, as
   long as no timeout released the mutex of another thread. *)
THEOREM PrefixWritten == Spec => []OutfilePrefix
  <1>1. ASSUME IInv, ~stolen PROVE InOrder
    <2>1. TypeOK /\ AlwaysInv /\ ContentInv
      BY <1>1, OwnedParts DEF IInv
    <2>2. /\ outfile \in Seq(Nat) /\ rx.data \in Seq(Nat)
          /\ bytesRcvdSoFar \in 0 .. Len(File)
          /\ Len(File) \in Nat
      BY <2>1, Numbers DEF ContentInv, ReceivedWhole
    <2>3. Len(outfile) \in 0 .. bytesRcvdSoFar
      BY <2>1, <2>2 DEF AlwaysInv, Written
    <2>4. outfile = SubSeq(File, 1, Len(outfile))
      <3>1. CASE Len(outfile) = 0
        BY <2>2, <3>1, EmptySeq, SubSeqEmpty, FileAssumption
      <3>2. CASE Len(outfile) # 0
        <4>1. /\ 1 \in 1 .. Len(outfile) /\ Len(outfile) \in 1 .. Len(outfile)
              /\ 1 \in 1 .. Len(File) /\ bytesRcvdSoFar \in 1 .. Len(File)
              /\ 1 \in 1 .. bytesRcvdSoFar - 1 + 1
              /\ Len(outfile) \in 1 .. bytesRcvdSoFar - 1 + 1
          BY <2>2, <2>3, <3>2
        <4>2. SubSeq(outfile \o rx.data, 1, Len(outfile)) = outfile
          BY <2>2, <4>1, SubSeqOfConcat1, SubSeqFull
        <4>3. SubSeq(SubSeq(File, 1, bytesRcvdSoFar), 1, Len(outfile))
                = SubSeq(File, 1 + 1 - 1, 1 + Len(outfile) - 1)
          BY <4>1, SubSeqOfSubSeq, FileAssumption
        <4>4. 1 + 1 - 1 = 1 /\ 1 + Len(outfile) - 1 = Len(outfile)
          BY <4>1
        <4> QED
          BY <2>1, <4>2, <4>3, <4>4 DEF ContentInv, Prefix
      <3> QED
        BY <3>1, <3>2
    <2> QED
      BY <2>2, <2>3, <2>4 DEF InOrder
  <1>2. IInv => OutfilePrefix
    BY <1>1 DEF OutfilePrefix
  <1> QED
    BY <1>2, InductiveInvariant, PTL

(* Data that the receiver misses is never erased: sendBase, which is not past
   the receiver by a packet, is not past it at all. *)
THEOREM NothingErasedTooEarly == Spec => []MissingPacketKept
  <1>1. ASSUME IInv, ~stolen, bytesRcvdSoFar < readSoFar
        PROVE  bytesRcvdSoFar \in DOMAIN cwnd
    <2>1. TypeOK /\ AlwaysInv /\ ContentInv
      BY <1>1, OwnedParts DEF IInv
    <2>2. /\ bytesRcvdSoFar \in Nat /\ sendBase \in Nat /\ DATASIZE \in Nat
          /\ readSoFar \in 0 .. Len(File) /\ Len(File) \in Nat
      BY <2>1, Numbers
    <2>3. Aligned(bytesRcvdSoFar)
      BY <1>1, <2>1, <2>2 DEF ContentInv, ReceivedWhole
    <2>4. sendBase <= bytesRcvdSoFar
      <3>1. sendBase < bytesRcvdSoFar + DATASIZE
        BY <2>1 DEF AlwaysInv, BaseNotPastReceiver
      <3>2. bytesRcvdSoFar < sendBase => bytesRcvdSoFar + DATASIZE <= sendBase
        BY <2>1, <2>2, <2>3, AlignedGap DEF ContentInv, BaseInv
      <3> QED
        BY <2>2, <3>1, <3>2
    <2> QED
      BY <1>1, <2>1, <2>2, <2>3, <2>4, LoadedBelow
  <1>2. IInv => MissingPacketKept
    BY <1>1 DEF MissingPacketKept
  <1> QED
    BY <1>2, InductiveInvariant, PTL

(* No number that is stored, sent or converted has lost bits. *)
THEOREM NoNumberLosesBits == Spec => []NumbersFit
  <1>1. ASSUME IInv, ~stolen
        PROVE  /\ \A s \in DOMAIN cwnd : s <= INT_MAX /\ cwnd[s].seq = s
               /\ nextSeqNum <= INT_MAX + DATASIZE
               /\ bytesRcvdSoFar <= INT_MAX + DATASIZE
    <2>1. TypeOK /\ ContentInv /\ ThreadInv
      BY <1>1, OwnedParts DEF IInv
    <2>2. /\ bytesRcvdSoFar \in Nat /\ INT_MAX \in Nat /\ DATASIZE \in Nat
      BY <2>1, Numbers
    <2>3. PICK s \in 0 .. INT_MAX : bytesRcvdSoFar <= s + DATASIZE
      BY <2>1 DEF ContentInv, ReceivedWhole
    <2>4. bytesRcvdSoFar <= INT_MAX + DATASIZE
      BY <2>2, <2>3
    <2> QED
      BY <2>1, <2>4 DEF ContentInv, CwndContent, ThreadInv, NextInv
  <1>2. IInv => NumbersFit
    BY <1>1 DEF NumbersFit
  <1> QED
    BY <1>2, InductiveInvariant, PTL

(* When the sender declares the transfer done, the receiver has accepted, and
   the sender has read, what was to be transferred. *)
THEOREM DoneIsAccepted == Spec => []DoneMeansAccepted
  <1>1. ASSUME IInv, isDone
        PROVE  /\ bytesRcvdSoFar >= totalSize
               /\ ~stolen => readSoFar >= totalSize
    <2>1. bytesRcvdSoFar >= totalSize
      BY <1>1 DEF IInv, AlwaysInv, EndInOrder
    <2>2. ASSUME ~stolen PROVE readSoFar >= totalSize
      <3>1. bytesRcvdSoFar <= readSoFar
        BY <1>1, <2>2 DEF IInv, OwnedInv, ReceivedWhole
      <3>2. bytesRcvdSoFar \in Nat /\ readSoFar \in Nat
        BY <1>1, Numbers DEF IInv
      <3> QED
        BY <2>1, <3>1, <3>2, TotalSizeAssumption
    <2> QED
      BY <2>1, <2>2
  <1>2. IInv => DoneMeansAccepted
    BY <1>1 DEF DoneMeansAccepted
  <1> QED
    BY <1>2, InductiveInvariant, PTL

(* One thread at a time works on the shared object, and only with the mutex. *)
THEOREM OneHolder == Spec => []MutualExclusion
  <1>1. ASSUME IInv, ~stolen
        PROVE  Holders = IF mtx THEN 1 ELSE 0
    <2> DEFINE H == {t \in {"sd", "ra", "uw"} :
                       \/ t = "sd" /\ sd.pc \in {"find", "send", "advance"}
                       \/ t = "ra" /\ ra.pc = "erase"
                       \/ t = "uw" /\ uw.pc = "loop"}
    <2>1. Exclusive
      BY <1>1 DEF IInv, OwnedInv
    <2>2. mtx => H = {"sd"} \/ H = {"ra"} \/ H = {"uw"}
      BY <2>1 DEF Exclusive, SdIn, RaIn, UwIn
    <2>3. ~mtx => H = {}
      BY <2>1 DEF Exclusive, SdIn, RaIn, UwIn
    <2>4. Holders = Cardinality(H)
      BY DEF Holders
    <2> HIDE DEF H
    <2> QED
      BY <2>2, <2>3, <2>4, FS_Singleton, FS_EmptySet
  <1>2. IInv => MutualExclusion
    BY <1>1 DEF MutualExclusion
  <1> QED
    BY <1>2, InductiveInvariant, PTL
==============================================================================
