--------------------------- MODULE RdataPatch_proofs ---------------------------
(* What rdata_patch does with any file, whatever its headers say.             *)
EXTENDS RdataPatch, TLAPS

-------------------------------------------------------------------------------
(* What each step of the tool knows of the file.                              *)
InHeaders == {"dos", "nt", "count", "opt", "table"}
InMemory == InHeaders \cup {"scan", "patch"}
Labels == InMemory \cup {"read", "write", "success", "rejected", "failed", "panic"}

DosHeaderKnown ==
  tool \in {"nt", "count", "opt", "table", "scan", "patch"} =>
    file.len >= DOS_HEADER /\ file.lfanew # 0

SignatureKnown == tool \in {"count", "opt", "table", "scan", "patch"} => file.signature

(* No header before the one at hand matches.                                  *)
ScanInv ==
  /\ tool \in InHeaders \cup {"read"} => i = 0
  /\ tool \in {"scan", "patch"} =>
       /\ i \in 0..file.count
       /\ \A j \in 0..(i - 1) : ~HasPrefix(file.sections[j].name)
  /\ tool = "patch" =>
       /\ i < file.count
       /\ HasPrefix(file.sections[i].name)
       /\ SectionOffset(file, i + 1) <= file.len

(* What is to be written is complete before the first byte of it is.          *)
CopyPatched ==
  \E k \in 0..(file.count - 1) :
    /\ Holds(file, k)
    /\ modified = [file.sections EXCEPT ![k].chars = @ \cup {"WRITE"}]

CopyInv ==
  /\ tool \in InMemory \cup {"read", "write", "rejected"} => written = "no"
  /\ tool \in InMemory => modified = file.sections
  /\ tool = "write" => CopyPatched

(* What a rejected file does not have.                                        *)
NoRdata(f) ==
  f.len < UINT32_VALUES =>
    \A k \in 0..(f.count - 1) : f.sections[k].name = ".rdata" => ~Holds(f, k)

ToolInv ==
  /\ tool \in Labels
  /\ tool \in InMemory \cup {"write", "rejected"} => file \in Files
  /\ DosHeaderKnown /\ SignatureKnown /\ ScanInv /\ CopyInv
  /\ OneFlagPatched

(* What the fields of a file are, and what arithmetic does with them.         *)
LEMMA FileType ==
  ASSUME NEW f \in Files
  PROVE  /\ f.len \in Nat /\ f.lfanew \in Nat /\ f.count \in Nat /\ f.opt \in Nat
         /\ f.signature \in BOOLEAN
         /\ f.sections \in [0..(f.count - 1) -> SectionHeaders]
         /\ uint32(f.len) \in Nat
<1>1. ASSUME NEW n \in Nat PROVE uint32(n) \in Nat
  BY RdataPatchAssumption DEF uint32
<1> QED
  BY <1>1, RdataPatchAssumption

(* Section headers lie one after the other.                                   *)
LEMMA SectionsInOrder ==
  ASSUME NEW f \in Files, NEW k \in Nat, NEW m \in Nat, k <= m
  PROVE  /\ SectionOffset(f, k) \in Nat
         /\ SectionOffset(f, k + 1) = SectionOffset(f, k) + SECTION_HEADER
         /\ SectionOffset(f, k) <= SectionOffset(f, m)
         /\ sectionTableOffset(f) <= SectionOffset(f, k)
  BY FileType DEF SectionOffset, sectionTableOffset, SECTION_HEADER

(* A file is rejected for a reason that leaves no header to patch.            *)
LEMMA HeadersTooShort ==
  ASSUME NEW f \in Files,
         \/ f.len < DOS_HEADER
         \/ f.lfanew = 0
         \/ f.lfanew >= uint32(f.len)
         \/ ~f.signature
         \/ f.len < sectionTableOffset(f)
  PROVE  NoRdata(f)
<1> SUFFICES ASSUME f.len < UINT32_VALUES, NEW k \in 0..(f.count - 1), Holds(f, k) PROVE FALSE
  BY DEF NoRdata
<1>1. /\ k \in Nat /\ k + 1 \in Nat
      /\ f.len \in Nat /\ f.lfanew \in Nat /\ uint32(f.len) \in Nat
  BY FileType
<1>2. /\ sectionTableOffset(f) <= SectionOffset(f, k + 1)
      /\ SectionOffset(f, k + 1) \in Nat
  BY <1>1, SectionsInOrder
<1>3. sectionTableOffset(f) \in Nat /\ f.lfanew < sectionTableOffset(f)
  BY FileType DEF sectionTableOffset
<1>4. uint32(f.len) = f.len
  BY <1>1, RdataPatchAssumption DEF uint32
<1> QED
  BY <1>1, <1>2, <1>3, <1>4 DEF Holds, DOS_HEADER

(* The checks of the headers.                                                 *)
LEMMA HeadersStep ==
  ASSUME ToolInv, ReadHeaders
  PROVE  ToolInv'
<1> USE DEF InHeaders, InMemory, Labels
<1>1. /\ file \in Files /\ UNCHANGED <<file, i, modified, written>>
      /\ written = "no" /\ modified = file.sections /\ i = 0
      /\ tool \in InHeaders
  BY DEF ToolInv, ScanInv, CopyInv, ReadHeaders, Read, Step
<1>2. /\ file.len \in Nat /\ file.lfanew \in Nat /\ file.opt \in Nat /\ file.count \in Nat
      /\ uint32(file.len) \in Nat /\ file.signature \in BOOLEAN
  BY <1>1, FileType
<1>3. CASE tool' = "rejected"
  <2>1. \/ file.len < DOS_HEADER
        \/ file.lfanew = 0
        \/ file.lfanew >= uint32(file.len)
        \/ ~file.signature
        \/ file.len < sectionTableOffset(file)
    BY <1>2, <1>3 DEF ReadHeaders, Read, Step, sectionTableOffset
  <2>2. NoRdata(file)
    BY <1>1, <2>1, HeadersTooShort
  <2>3. NoRdata(file)'
    BY <1>1, <2>2 DEF NoRdata, Holds, SectionOffset, sectionTableOffset
  <2> QED
    BY <1>1, <1>3, <2>3
       DEF ToolInv, DosHeaderKnown, SignatureKnown, ScanInv, CopyInv, OneFlagPatched, NoRdata
<1>4. CASE tool' # "rejected"
  <2>1. /\ tool' \in {"nt", "count", "opt", "table", "scan"}
        /\ tool = "dos" => tool' = "nt" /\ file.len >= DOS_HEADER
                         /\ file.lfanew # 0
        /\ tool = "nt" => tool' = "count" /\ file.signature
        /\ tool \notin {"dos", "nt"} => tool' \notin {"nt", "count"}
    BY <1>1, <1>2, <1>4 DEF ReadHeaders, Read, Step, DOS_HEADER, sectionTableOffset
  <2>2. DosHeaderKnown'
    BY <1>1, <1>2, <2>1 DEF ToolInv, DosHeaderKnown, DOS_HEADER
  <2>3. SignatureKnown'
    BY <1>1, <2>1 DEF ToolInv, SignatureKnown
  <2>4. ScanInv'
    BY <1>1, <1>2, <2>1 DEF ScanInv
  <2> QED
    BY <1>1, <2>1, <2>2, <2>3, <2>4 DEF ToolInv, CopyInv, OneFlagPatched
<1> QED
  BY <1>3, <1>4

(* One turn of the loop.                                                      *)
LEMMA SectionStep ==
  ASSUME ToolInv, ReadSection
  PROVE  ToolInv'
<1> USE DEF InHeaders, InMemory, Labels
<1>1. /\ tool = "scan" /\ file \in Files /\ UNCHANGED <<file, modified, written>>
      /\ written = "no" /\ modified = file.sections
      /\ i \in 0..(file.count - 1) /\ i \in Nat /\ file.count \in Nat /\ file.len \in Nat
      /\ \A j \in 0..(i - 1) : ~HasPrefix(file.sections[j].name)
  <2>1. file \in Files /\ tool = "scan"
    BY DEF ToolInv, ReadSection
  <2> QED
    BY <2>1, FileType DEF ToolInv, ScanInv, CopyInv, ReadSection
<1>2. /\ SectionOffset(file, i) \in Nat
      /\ SectionOffset(file, i + 1) = SectionOffset(file, i) + SECTION_HEADER
  BY <1>1, SectionsInOrder
<1>3. CASE file.len < SectionOffset(file, i) + SECTION_HEADER
  <2>1. tool' = "rejected"
    BY <1>3 DEF ReadSection, Step
  <2>2. ASSUME NEW k \in 0..(file.count - 1), file.sections[k].name = ".rdata", Holds(file, k)
        PROVE  FALSE
    <3>1. k \in Nat /\ i <= k
      BY <1>1, <2>2 DEF HasPrefix
    <3>2. SectionOffset(file, i + 1) <= SectionOffset(file, k + 1)
      BY <1>1, <3>1, SectionsInOrder
    <3>3. SectionOffset(file, k + 1) \in Nat /\ SectionOffset(file, k + 1) <= file.len
      BY <1>1, <2>2, <3>1, SectionsInOrder DEF Holds
    <3> QED
      BY <1>1, <1>2, <1>3, <3>2, <3>3 DEF SECTION_HEADER
  <2>3. NoRdata(file)'
    BY <1>1, <2>2 DEF NoRdata, Holds, SectionOffset, sectionTableOffset
  <2> QED
    BY <1>1, <2>1, <2>3
       DEF ToolInv, DosHeaderKnown, SignatureKnown, ScanInv, CopyInv, OneFlagPatched, NoRdata
<1>4. CASE ~(file.len < SectionOffset(file, i) + SECTION_HEADER)
  <2>1. /\ tool' = IF HasPrefix(file.sections[i].name) THEN "patch" ELSE "scan"
        /\ i' = IF HasPrefix(file.sections[i].name) THEN i ELSE i + 1
    BY <1>1, <1>2, <1>4 DEF ReadSection, Step, SECTION_HEADER
  <2>2. DosHeaderKnown' /\ SignatureKnown'
    BY <1>1, <2>1 DEF ToolInv, DosHeaderKnown, SignatureKnown
  <2>3. ScanInv'
    <3>1. CASE HasPrefix(file.sections[i].name)
      <4>1. SectionOffset(file, i + 1) <= file.len
        BY <1>1, <1>2, <1>4 DEF SECTION_HEADER
      <4> QED
        BY <1>1, <2>1, <3>1, <4>1 DEF ScanInv, HasPrefix, SectionOffset, sectionTableOffset
    <3>2. CASE ~HasPrefix(file.sections[i].name)
      <4>1. tool' = "scan" /\ i' = i + 1 /\ i' \in 0..file.count
        BY <1>1, <2>1, <3>2
      <4>2. \A j \in 0..(i' - 1) : ~HasPrefix(file.sections[j].name)
        BY <1>1, <3>2, <4>1
      <4> QED
        BY <1>1, <4>1, <4>2 DEF ScanInv, HasPrefix
    <3> QED
      BY <3>1, <3>2
  <2> QED
    BY <1>1, <2>1, <2>2, <2>3 DEF ToolInv, CopyInv, OneFlagPatched
<1> QED
  BY <1>3, <1>4

(* The end of the section table.                                              *)
LEMMA NoSectionStep ==
  ASSUME ToolInv, NoSection
  PROVE  ToolInv'
<1> USE DEF InHeaders, InMemory, Labels
<1>1. /\ tool = "scan" /\ tool' = "rejected" /\ UNCHANGED <<file, i, modified, written>>
      /\ file \in Files /\ written = "no" /\ file.count \in Nat /\ i = file.count
      /\ \A j \in 0..(i - 1) : ~HasPrefix(file.sections[j].name)
  <2>1. file \in Files /\ tool = "scan"
    BY DEF ToolInv, NoSection
  <2> QED
    BY <2>1, FileType DEF ToolInv, ScanInv, CopyInv, NoSection
<1>2. NoRdata(file)'
  BY <1>1 DEF NoRdata, HasPrefix
<1> QED
  BY <1>1, <1>2
     DEF ToolInv, DosHeaderKnown, SignatureKnown, ScanInv, CopyInv, OneFlagPatched, NoRdata

(* The flag is set in the header that the scan stopped at, which was checked. *)
LEMMA PatchStep ==
  ASSUME ToolInv, PatchSection
  PROVE  ToolInv'
<1> USE DEF InHeaders, InMemory, Labels
<1>1. /\ tool = "patch" /\ UNCHANGED <<file, i, written>>
      /\ file \in Files /\ written = "no" /\ modified = file.sections
      /\ i \in 0..(file.count - 1) /\ i \in Nat /\ file.len \in Nat
      /\ SectionOffset(file, i + 1) <= file.len
      /\ Holds(file, i)
  <2>1. file \in Files /\ tool = "patch"
    BY DEF ToolInv, PatchSection, Step
  <2> QED
    BY <2>1, FileType
       DEF ToolInv, DosHeaderKnown, SignatureKnown, ScanInv, CopyInv, PatchSection, Holds
<1>2. ~(file.len < SectionOffset(file, i) + 36 + 4)
  <2>1. /\ SectionOffset(file, i) \in Nat
        /\ SectionOffset(file, i + 1) = SectionOffset(file, i) + SECTION_HEADER
    BY <1>1, SectionsInOrder
  <2> QED
    BY <1>1, <2>1 DEF SECTION_HEADER
<1>3. /\ tool' = "write"
      /\ modified' = [file.sections EXCEPT ![i].chars = @ \cup {"WRITE"}]
  BY <1>1, <1>2 DEF PatchSection, Step, newChars
<1>4. CopyPatched'
  BY <1>1, <1>3 DEF CopyPatched, Holds, SectionOffset, sectionTableOffset
<1> QED
  BY <1>1, <1>3, <1>4
     DEF ToolInv, DosHeaderKnown, SignatureKnown, ScanInv, CopyInv, OneFlagPatched, NoRdata

(* The output is written when the copy is complete.                           *)
LEMMA WriteStep ==
  ASSUME ToolInv, WriteOutput
  PROVE  ToolInv'
<1> USE DEF InHeaders, InMemory, Labels
<1>1. CopyPatched'
  BY DEF ToolInv, CopyInv, WriteOutput, CopyPatched, Holds, SectionOffset,
         sectionTableOffset
<1> QED
  BY <1>1 DEF ToolInv, DosHeaderKnown, SignatureKnown, ScanInv, CopyInv, OneFlagPatched, NoRdata,
              WriteOutput, CopyPatched

(* The input is read into a buffer of its own.                                *)
LEMMA InputStep ==
  ASSUME ToolInv, ReadInput
  PROVE  ToolInv'
  BY DEF InHeaders, InMemory, Labels, ToolInv, DosHeaderKnown, SignatureKnown, ScanInv,
         CopyInv, OneFlagPatched, ReadInput

LEMMA ToolInvHolds == ToolSpec => []ToolInv
<1>1. InitTool => ToolInv
  BY DEF InitTool, InHeaders, InMemory, Labels, ToolInv, DosHeaderKnown, SignatureKnown, ScanInv,
         CopyInv, OneFlagPatched
<1>2. ToolInv /\ [makeRdataWritable]_toolVars => ToolInv'
  <2> SUFFICES ASSUME ToolInv, [makeRdataWritable]_toolVars PROVE ToolInv'
    OBVIOUS
  <2>1. CASE makeRdataWritable
    BY <2>1, InputStep, HeadersStep, SectionStep, NoSectionStep, PatchStep, WriteStep
       DEF makeRdataWritable
  <2>2. CASE UNCHANGED toolVars
    BY <2>2 DEF toolVars, InHeaders, InMemory, Labels, ToolInv, DosHeaderKnown, SignatureKnown,
                ScanInv, CopyInv, CopyPatched, OneFlagPatched, Holds, SectionOffset, sectionTableOffset
  <2> QED
    BY <2>1, <2>2
<1> QED
  BY <1>1, <1>2, PTL DEF ToolSpec

(* No file makes the tool access bytes past its end, whatever its headers     *)
(* say; none that has a section .rdata and a length of 32 bits is rejected;   *)
(* and what is written is the file with one flag of one section set           *)
(* (makeRdataWritable).                                                       *)
THEOREM PatchesOneSection == ToolSpec => []OneFlagPatched
<1>1. ToolInv => OneFlagPatched
  BY DEF ToolInv
<1> QED
  BY <1>1, ToolInvHolds, PTL
===============================================================================
