------------------------------ MODULE FrameLimit ------------------------------
(* The arithmetic between a frame rate in config.ini and the number that a    *)
(* limiter is given: read_config_fps and fps_to_frame_limit_us. Both are pure *)
(* functions; dynamic_fps_limit and reflex_fps_limit carry the same code.     *)
EXTENDS Integers

CONSTANTS
  UINT32_MAX,     \* the largest frame rate that the parser accepts
  Invalid         \* any text that is not a whole unsigned number

ASSUME FrameLimitAssumption ==
  /\ UINT32_MAX \in Nat
  /\ Invalid \notin Nat

MICROSECONDS == 1000000

(* Mutated forms: a misplaced parenthesis, no check of the text, a number     *)
(* that wraps.                                                                *)
MisplacedRounding(fps) ==
  IF fps = 0 THEN 0 ELSE MICROSECONDS \div fps + fps \div 2
RawText(text, fallback) == text
WrappedText(text, fallback) ==
  IF text \in Nat THEN text % (UINT32_MAX + 1) ELSE fallback

(* A frame rate becomes the nearest frame time. Streamline reads 0 as "no     *)
(* limit", so a rate too high for one microsecond is given one microsecond.   *)
fps_to_frame_limit_us(fps) ==
  IF fps = 0
    THEN 0
    ELSE LET rounded == (MICROSECONDS + fps \div 2) \div fps
         IN  IF rounded = 0 THEN 1 ELSE rounded

(* A text of config.ini is abstracted to the number it spells, or Invalid.    *)
(* Whatever does not fit an unsigned 32-bit integer falls back.               *)
read_config_fps(text, fallback) ==
  IF text \in 0..UINT32_MAX THEN text ELSE fallback

Fps == 0..UINT32_MAX
===============================================================================
