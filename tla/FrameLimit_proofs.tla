-------------------------- MODULE FrameLimit_proofs --------------------------
(* What the conversion of a frame rate into a frame time guarantees for every *)
(* rate, not only for those that TLC visits.                                  *)
EXTENDS FrameLimit, TLAPS

(* The two inequalities that define the integer quotient.                     *)
LEMMA Quotient ==
  ASSUME NEW a \in Nat, NEW b \in Nat \ {0}
  PROVE  /\ a \div b \in Nat
         /\ b * (a \div b) <= a
         /\ a < b * (a \div b) + b
  BY Z3T(30)

(* All that the proofs use of the constant.                                   *)
LEMMA SecondInMicroseconds == MICROSECONDS \in Nat \ {0}
  BY SMT DEF MICROSECONDS

(* The frame time is a natural number, at most one second: it always fits the *)
(* unsigned 32-bit field (fps_to_frame_limit_us).                             *)
THEOREM FrameLimitBounded ==
  ASSUME NEW fps \in Nat
  PROVE  fps_to_frame_limit_us(fps) \in 0..MICROSECONDS
<1>1. CASE fps = 0
  BY <1>1, SecondInMicroseconds DEF fps_to_frame_limit_us
<1>2. CASE fps # 0
  <2> DEFINE h == fps \div 2
             r == (MICROSECONDS + h) \div fps
  <2>1. h \in Nat /\ 2 * h <= fps
    BY Quotient
  <2>2. r \in Nat /\ fps * r <= MICROSECONDS + h
    BY <1>2, <2>1, Quotient, SecondInMicroseconds
  <2> HIDE DEF r, h
  <2>3. r <= MICROSECONDS
    <3>1. SUFFICES ASSUME r >= MICROSECONDS + 1 PROVE FALSE
      BY <2>2, SecondInMicroseconds
    <3>2. fps * r >= fps * (MICROSECONDS + 1)
      BY <1>2, <2>2, <3>1, SecondInMicroseconds
    <3>3. fps * (MICROSECONDS + 1) > MICROSECONDS + h
      BY <1>2, <2>1, SecondInMicroseconds
    <3> QED
      BY <2>1, <2>2, <3>2, <3>3, SecondInMicroseconds
  <2> QED
    BY <1>2, <2>2, <2>3, SecondInMicroseconds DEF fps_to_frame_limit_us, r, h
<1> QED
  BY <1>1, <1>2

(* Zero, Streamline's "unlimited", is sent for a rate of 0 and no other: a    *)
(* positive rate is never rounded down to no limit at all.                    *)
THEOREM UnlimitedOnlyForZero ==
  ASSUME NEW fps \in Nat
  PROVE  fps_to_frame_limit_us(fps) = 0 <=> fps = 0
  BY DEF fps_to_frame_limit_us

(* Up to the rates that are clamped, the frame time is the nearest one: its   *)
(* error over a whole second is at most half a frame (fps_to_frame_limit_us). *)
THEOREM FrameLimitNearest ==
  ASSUME NEW fps \in 1..(2 * MICROSECONDS)
  PROVE  LET us == fps_to_frame_limit_us(fps)
         IN  /\ 2 * (fps * us - MICROSECONDS) <= fps
             /\ 2 * (MICROSECONDS - fps * us) <= fps
<1> DEFINE h == fps \div 2
           r == (MICROSECONDS + h) \div fps
<1>1. h \in Nat /\ 2 * h <= fps /\ fps < 2 * h + 2
  BY Quotient, SecondInMicroseconds
<1>2. r \in Nat /\ fps * r <= MICROSECONDS + h /\ MICROSECONDS + h < fps * r + fps
  BY <1>1, Quotient, SecondInMicroseconds
<1>3. r # 0
  BY <1>1, <1>2, SecondInMicroseconds
<1>4. fps_to_frame_limit_us(fps) = r
  BY <1>3, SecondInMicroseconds DEF fps_to_frame_limit_us
<1> HIDE DEF h, r
<1> QED
  BY <1>1, <1>2, <1>4, SecondInMicroseconds

(* A higher rate never gets a longer frame time (fps_to_frame_limit_us).      *)
THEOREM FrameLimitAntitone ==
  ASSUME NEW slow \in Nat \ {0}, NEW fast \in Nat, slow <= fast
  PROVE  fps_to_frame_limit_us(fast) <= fps_to_frame_limit_us(slow)
<1> DEFINE hs == slow \div 2
           hf == fast \div 2
           rs == (MICROSECONDS + hs) \div slow
           rf == (MICROSECONDS + hf) \div fast
<1>1. /\ hs \in Nat /\ 2 * hs <= slow /\ slow < 2 * hs + 2
      /\ hf \in Nat /\ 2 * hf <= fast /\ fast < 2 * hf + 2
  BY Quotient
<1>2. /\ rs \in Nat /\ MICROSECONDS + hs < slow * rs + slow
      /\ rf \in Nat /\ fast * rf <= MICROSECONDS + hf
  BY <1>1, Quotient, SecondInMicroseconds
<1>3. /\ fps_to_frame_limit_us(slow) = IF rs = 0 THEN 1 ELSE rs
      /\ fps_to_frame_limit_us(fast) = IF rf = 0 THEN 1 ELSE rf
  BY DEF fps_to_frame_limit_us
<1> HIDE DEF hs, hf, rs, rf
<1>4. rf >= 2 => rf <= rs
  <2>1. SUFFICES ASSUME rf >= 2, rs + 1 <= rf PROVE FALSE
    BY <1>2
  <2>2. slow * (rs + 1) <= slow * rf /\ slow * (rs + 1) = slow * rs + slow
    BY <1>2, <2>1
  <2>3. PICK d \in Nat : fast = slow + d
    <3>1. fast - slow \in Nat /\ fast = slow + (fast - slow)
      OBVIOUS
    <3> QED
      BY <3>1
  <2>4. fast * rf = slow * rf + d * rf /\ d * rf >= 2 * d
    BY <1>2, <2>1, <2>3
  <2>5. MICROSECONDS + hs + 2 * d + 1 <= MICROSECONDS + hf
    BY <1>1, <1>2, <2>2, <2>3, <2>4, SecondInMicroseconds
  <2> QED
    BY <1>1, <2>3, <2>5, SecondInMicroseconds
<1> QED
  BY <1>2, <1>3, <1>4

(* A text of config.ini that is not an unsigned number in range leaves the    *)
(* default in force; a rate in use is always in range (read_config_fps).      *)
THEOREM ConfigFpsInRange ==
  ASSUME NEW text, NEW fallback \in Fps
  PROVE  read_config_fps(text, fallback) \in Fps
  BY DEF read_config_fps, Fps
===============================================================================
