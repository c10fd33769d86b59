-------------------------- MODULE CongestionControl --------------------------
(***************************************************************************)
(* The congestion window of the sender: the fields currState, size,        *)
(* ssthresh and dupACKcount of struct CongestionControl (mp_tcp, tcp.h)    *)
(* and the way recvACK changes them on a timeout, on a duplicate ACK and   *)
(* on a new ACK.  Only the recvACK thread writes these fields.             *)
(*                                                                         *)
(* All sizes are in bytes.  f_size, the window as a double, is abstracted  *)
(* to the integer `size' that the code rounds it up to: congestion         *)
(* avoidance moves `size' to some value of AvoidSizes, an interval that    *)
(* contains the one the floating-point sum gives.                          *)
(***************************************************************************)
EXTENDS Integers

CONSTANTS
  DATASIZE,  \* payload bytes of a full packet (1460)
  SSTHRESH   \* the first slow-start threshold (65536)

ASSUME DataSizeAssumption == DATASIZE \in Nat \ {0}
ASSUME SsthreshAssumption == SSTHRESH \in Nat

VARIABLE win

CCState == {"SLOW_START", "CNG_AVOID", "FAST_REC"}

(***************************************************************************)
(* dupACKcount is only ever compared with 3, so every count above 3 is     *)
(* represented by 4.                                                       *)
(***************************************************************************)
DupCounts == 0..4

WinType == [state: CCState, size: Nat, ssthresh: Nat, dup: DupCounts]

WinInit ==
  win = [state |-> "SLOW_START", size |-> DATASIZE,
         ssthresh |-> SSTHRESH, dup |-> 0]

WinTimeout ==
  win' = [state |-> "SLOW_START", size |-> DATASIZE,
          ssthresh |-> (5 * win.size) \div 8, dup |-> 0]

CountDuplicate(n) == IF n >= 3 THEN 4 ELSE n + 1

EntersFastRec == CountDuplicate(win.dup) = 3 /\ win.state # "FAST_REC"

(***************************************************************************)
(* An ACK below sendBase.  The third one in a row inflates the window.     *)
(***************************************************************************)
WinDuplicate ==
  win' = IF EntersFastRec
         THEN [state |-> "FAST_REC", size |-> win.size + 3 * DATASIZE,
               ssthresh |-> win.size \div 2, dup |-> 3]
         ELSE [win EXCEPT !.dup = CountDuplicate(@)]

(***************************************************************************)
(* The sizes that `packets' additions of DATASIZE * (DATASIZE / f_size)    *)
(* can lead to, f_size being anything in (s-1, s].  A window of size 0     *)
(* stays there: the division gives infinity, whose conversion to uint64_t  *)
(* gives 0 in the x86-64 build, and later additions leave it infinite.     *)
(***************************************************************************)
MaxIncrease(s) ==
  LET d == IF s > 1 THEN s - 1 ELSE 1
  IN  (DATASIZE * DATASIZE + d - 1) \div d

(* Variant for testing ClosedWindowStaysClosed: the division by a window of
   size 0 is taken for one by 1. *)
AvoidSizesFromZero(s, packets) == s .. (s + packets * MaxIncrease(s))

AvoidSizes(s, packets) ==
  IF s = 0 THEN {0} ELSE s .. (s + packets * MaxIncrease(s))

(* Variant for testing FastRecIffThreeDups: the end of fast recovery forgets to
   clear dupACKcount. *)
WinNewAckKeepsDups(packets) ==
  win' = [win EXCEPT !.state = "CNG_AVOID", !.size = win.ssthresh]

(***************************************************************************)
(* An ACK at or above sendBase that acknowledges `packets' more packets;   *)
(* it may be 0, for an ACK that repeats sendBase itself.                   *)
(***************************************************************************)
WinNewAck(packets) ==
  \/ /\ win.state = "SLOW_START"
     /\ LET grown == win.size + packets * DATASIZE
        IN  win' = [state |-> IF grown >= win.ssthresh THEN "CNG_AVOID"
                                                      ELSE "SLOW_START",
                    size |-> grown, ssthresh |-> win.ssthresh, dup |-> 0]
  \/ /\ win.state = "CNG_AVOID"
     /\ \E s \in AvoidSizes(win.size, packets) :
          win' = [state |-> "CNG_AVOID", size |-> s,
                  ssthresh |-> win.ssthresh, dup |-> 0]
  \/ /\ win.state = "FAST_REC"
     /\ win' = [state |-> "CNG_AVOID", size |-> win.ssthresh,
                ssthresh |-> win.ssthresh, dup |-> 0]

------------------------------------------------------------------------------
(* Fast recovery is entered by the third duplicate ACK and by nothing else,
   and everything that clears the count leaves it: the state and the counter,
   updated by four different branches of recvACK, agree at every moment. *)
FastRecIffThreeDups == win.state = "FAST_REC" <=> win.dup >= 3

(* While the window is inflated, the threshold remembers half of the window
   fast recovery started from: no event that keeps the sender in fast
   recovery inflates it again or moves the threshold under it. *)
InflatedWindow ==
  win.state = "FAST_REC" =>
    /\ win.size >= 3 * DATASIZE
    /\ win.ssthresh = (win.size - 3 * DATASIZE) \div 2

(* A window smaller than one packet is only ever seen in congestion
   avoidance, after fast recovery halved it: a sender in slow start or in fast
   recovery can always send at least one packet. *)
SmallWindowOnlyInAvoid == win.size < DATASIZE => win.state = "CNG_AVOID"

(* The invariant of the window, whose parts support each other. *)
WindowInv ==
  /\ win \in WinType
  /\ FastRecIffThreeDups
  /\ InflatedWindow
  /\ SmallWindowOnlyInAvoid

(* A window that has shrunk to nothing is opened only by a timeout or by the
   third duplicate ACK: no new ACK opens it, whatever it acknowledges, and the
   sender, which cannot send, must get an ACK from elsewhere or time out. *)
ClosedWindowStaysClosed ==
  [][win.size = 0 /\ win'.size # 0 =>
       win'.state = "SLOW_START" \/ EntersFastRec]_win
==============================================================================
