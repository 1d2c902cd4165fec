------------------------------ MODULE RdataPatch ------------------------------
(* rdata_patch/main.go: a tool that copies a PE file and makes the section    *)
(* .rdata of the copy writable. It compares every offset with the length of   *)
(* the file before it uses it; an access that is not would make Go panic.     *)
(* What the tool reads of a file is abstracted to a record:                   *)
(*   len        the length, in bytes                                          *)
(*   lfanew     the offset of the NT header                                   *)
(*   signature  are there the four bytes PE\0\0?                              *)
(*   count, opt NumberOfSections and SizeOfOptionalHeader                     *)
(*   sections   name and characteristics of section headers 0, 1, ...         *)
(* Fields beyond the end of the file are there too, and never looked at.      *)
EXTENDS Integers

CONSTANTS
  Files,          \* that the tool may be given
  NoFile,         \* before it has read one
  UINT32_VALUES   \* how many values a uint32 has

(* A name is .rdata, another that begins so, or anything else.                *)
SectionNames == {".rdata", ".rdata...", "other"}
HasPrefix(name) == name # "other"
SectionHeaders == [name : SectionNames, chars : SUBSET {"READ", "WRITE"}]

ASSUME RdataPatchAssumption ==
  /\ UINT32_VALUES \in Nat \ {0}
  /\ \A f \in Files :
       /\ f.len \in Nat /\ f.lfanew \in Nat /\ f.count \in Nat /\ f.opt \in Nat
       /\ f.signature \in BOOLEAN
       /\ f.sections \in [0..(f.count - 1) -> SectionHeaders]

VARIABLES
  tool,           \* the next step of makeRdataWritable, or how it ended
  file,           \* what was read
  i,              \* the section header at hand
  modified,       \* the section headers of the copy in memory
  written         \* how much of the copy is in the output file
toolVars == <<tool, file, i, modified, written>>

DOS_HEADER == 64
SECTION_HEADER == 40

uint32(n) == n % UINT32_VALUES
sectionTableOffset(f) == f.lfanew + 24 + f.opt
SectionOffset(f, k) == sectionTableOffset(f) + k * SECTION_HEADER
newChars(chars) == chars \cup {"WRITE"}

InitTool ==
  /\ tool = "read"
  /\ file = NoFile
  /\ i = 0
  /\ modified = <<>>
  /\ written = "no"

ReadInput ==
  /\ tool = "read"
  /\ \/ \E f \in Files : file' = f /\ modified' = f.sections /\ tool' = "dos"
     \/ tool' = "failed" /\ UNCHANGED <<file, modified>>
  /\ UNCHANGED <<i, written>>

(* The file is checked to be as long as checked and then read up to accessed. *)
Step(from, checked, accessed, to) ==
  /\ tool = from
  /\ tool' = IF file.len < checked THEN "rejected"
           ELSE IF file.len < accessed THEN "panic" ELSE to

Read(from, end, to) ==
  Step(from, end, end, to) /\ UNCHANGED <<file, i, modified, written>>

(* The length is cut to 32 bits before the offset is compared with it.        *)
ReadHeaders ==
  \/ Read("dos", DOS_HEADER,
          IF file.lfanew = 0 \/ file.lfanew >= uint32(file.len) THEN "rejected" ELSE "nt")
  \/ Read("nt", file.lfanew + 4, IF file.signature THEN "count" ELSE "rejected")
  \/ Read("count", file.lfanew + 6 + 2, "opt")
  \/ Read("opt", file.lfanew + 20 + 2, "table")
  \/ Read("table", sectionTableOffset(file), "scan")

UncheckedSection ==          \* mutated: the headers are not checked one by one
  /\ tool = "scan" /\ i < file.count
  /\ Step("scan", 0, SectionOffset(file, i) + 8,
          IF HasPrefix(file.sections[i].name) THEN "patch" ELSE "scan")
  /\ i' = IF tool' = "scan" THEN i + 1 ELSE i
  /\ UNCHANGED <<file, modified, written>>

(* The loop over the section headers ends at the first match, or at the first *)
(* header that does not fit.                                                  *)
ReadSection ==
  /\ tool = "scan" /\ i < file.count
  /\ Step("scan", SectionOffset(file, i) + SECTION_HEADER, SectionOffset(file, i) + 8,
          IF HasPrefix(file.sections[i].name) THEN "patch" ELSE "scan")
  /\ i' = IF tool' = "scan" THEN i + 1 ELSE i
  /\ UNCHANGED <<file, modified, written>>

NoSection ==
  /\ tool = "scan" /\ i >= file.count
  /\ tool' = "rejected"
  /\ UNCHANGED <<file, i, modified, written>>

PatchSection ==
  /\ Step("patch", SectionOffset(file, i) + 36 + 4, SectionOffset(file, i) + 36 + 4, "write")
  /\ modified' = IF tool' = "write" THEN [modified EXCEPT ![i].chars = newChars(@)]
                                  ELSE modified
  /\ UNCHANGED <<file, i, written>>

(* A write that fails may have written anything up to the whole.              *)
WriteOutput ==
  /\ tool = "write"
  /\ \/ tool' = "success" /\ written' = "whole"
     \/ tool' = "failed" /\ written' \in {"no", "partly", "whole"}
  /\ UNCHANGED <<file, i, modified>>

makeRdataWritable ==
  ReadInput \/ ReadHeaders \/ ReadSection \/ NoSection \/ PatchSection \/ WriteOutput

ToolSpec == InitTool /\ [][makeRdataWritable]_toolVars

-------------------------------------------------------------------------------
(* The headers up to section header k, that one included, are in the file.    *)
Holds(f, k) ==
  /\ f.len >= DOS_HEADER
  /\ f.lfanew # 0 /\ f.signature
  /\ SectionOffset(f, k + 1) <= f.len

(* No file, however damaged, makes the tool access bytes past its end. A file *)
(* that holds the header of a section .rdata is not rejected, as long as its  *)
(* length is one that 32 bits can hold, as in a PE file; a rejected one       *)
(* leaves no output; any output is the input but for one flag of one section, *)
(* and whole when success is reported (makeRdataWritable).                    *)
OneFlagPatched ==
  /\ tool # "panic"
  /\ tool = "rejected" =>
       /\ written = "no"
       /\ file.len < UINT32_VALUES =>
            \A k \in 0..(file.count - 1) :
              file.sections[k].name = ".rdata" => ~Holds(file, k)
  /\ written # "no" =>
       \E k \in 0..(file.count - 1) :
         /\ Holds(file, k)
         /\ modified = [file.sections EXCEPT ![k].chars = @ \cup {"WRITE"}]
  /\ tool = "success" => written = "whole"

(* After a success the section .rdata of the output, if the input has one, is *)
(* writable (README.md of the tool; main, makeRdataWritable).                 *)
RdataSections ==
  {k \in 0..(file.count - 1) : file.sections[k].name = ".rdata" /\ Holds(file, k)}

RdataIsWritable ==
  tool = "success" /\ RdataSections # {} =>
    \E k \in RdataSections : "WRITE" \in modified[k].chars
===============================================================================
