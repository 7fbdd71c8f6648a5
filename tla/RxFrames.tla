------------------------------ MODULE RxFrames ------------------------------
(***************************************************************************)
(* The length arithmetic of received frames (ob_rx_d11_rev42.c): a frame   *)
(* starts behind a prefix in its first buffer and goes on in as many full  *)
(* buffers as it needs.                                                    *)
(***************************************************************************)
EXTENDS Integers

CONSTANTS BufSize,      \* OB_DMA_RX_BUFSZ
          Prefix,       \* OB_RX_D11_REV42_PREFIX_LEN
          MinFrame,     \* OB_RX_MIN_FRAME
          MaxSegments   \* OB_RX_D11_REV42_MAX_SEGMENTS

ASSUME FramesAssumption ==
  /\ BufSize \in Nat \ {0}
  /\ Prefix \in 0 .. BufSize
  /\ MinFrame \in Nat
  /\ MaxSegments \in Nat \ {0}

Least(a, b) == IF a < b THEN a ELSE b

\* ob_rx_d11_rev42_plan_chain: what stands in the first buffer, prefix
\* included, and how many bytes and buffers follow.
FirstLength(len) == Least(Prefix + len, BufSize)
Continuation(len) == Prefix + len - FirstLength(len)

\* Mutant: an integer division that starts a new buffer behind a full one.
PlanSegmentsRoundedUp(len) == 1 + (Prefix + len) \div BufSize

PlanSegments(len) == 1 + (Continuation(len) + BufSize - 1) \div BufSize

\* The drain takes no frame below the minimum, and no chain above the maximum.
LengthOk(len) == len >= MinFrame /\ len > 0
PlanOk(len) == LengthOk(len) /\ PlanSegments(len) <= MaxSegments

\* ob_rx_d11_rev42_copy_chain: the bytes it copies out of the first n buffers.
Copied(len, n) ==
  Least(len, FirstLength(len) - Prefix) + Least(Continuation(len), (n - 1) * BufSize)
=============================================================================
