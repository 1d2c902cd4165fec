----------------------------- MODULE MCRdataPatch -----------------------------
(* Small PE files: each cut off before, inside and after every field that the *)
(* tool reads, with up to two sections.                                       *)
EXTENDS RdataPatch

CONSTANTS
  Lengths,        \* of a file
  Offsets,        \* where its NT header may be
  OptSizes        \* the sizes of its optional header

SmallHeaders == [name : SectionNames, chars : {{"READ"}, {"READ", "WRITE"}}]

MCFiles ==
  UNION {[len : Lengths, lfanew : Offsets, signature : BOOLEAN, count : {n},
          opt : OptSizes, sections : [0..(n - 1) -> SmallHeaders]] : n \in 0..2}
===============================================================================
