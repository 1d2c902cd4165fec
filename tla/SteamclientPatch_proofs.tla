------------------------ MODULE SteamclientPatch_proofs ------------------------
(* Safety of the redirection of steamclient64.dll for any number of threads,  *)
(* any addresses and any number of references.                                *)
EXTENDS SteamclientPatch, FiniteSetTheorems, TLAPS

(* The definitions that only group or abbreviate.                             *)
USE DEF At, Goto, May, LoaderFree, locks, steamVars

-------------------------------------------------------------------------------
(* What the threads in the detour hold, and a DllMain besides. The loader knows the patched library  *)
(* under the name it was loaded by only while a thread is renaming it.        *)
Renaming == {"restore", "full_name", "base_name", "unlock_loader"}
Detour == {"check", "load", "leave"} \cup Renaming

LockInv ==
  \A t \in Threads :
    /\ pc[t] \in {"idle", "enter", "dll_main"} \cup Detour
    /\ g_redirect_lock = t <=> pc[t] \in Detour
    /\ loader_lock = t <=> pc[t] \in Renaming \ {"restore"} \/ dll_main = t
    /\ dll_main = t => pc[t] # "idle"
    /\ pc[t] = "dll_main" => dll_main = t

(* Nobody is redirected before the detour is enabled, and nobody is loaded    *)
(* past it afterwards.                                                        *)
HookInv ==
  /\ hooked <=> pc[Installer] = "installed"
  /\ ~hooked => g_loaded_steamclient = NoBase /\ \A t \in Threads : pc[t] = "idle"

(* The references of a module are those that the threads own.                 *)
BalanceInv ==
  \A b \in Addresses :
    /\ IsFiniteSet(Owned(b))
    /\ modules[b].refs = Cardinality(Owned(b))
    /\ Mapped(b) <=> modules[b].refs > 0

(* The owner of g_redirect_lock keeps the module that it is to return: the    *)
(* reference is its own, so that nobody else's FreeLibrary unmaps it.         *)
HandleInv ==
  \A t \in Threads :
    /\ pc[t] \in Renaming => module[t] # NoBase
    /\ module[t] # NoBase =>
         /\ pc[t] \in Renaming \cup {"leave"}
         /\ module[t] = g_loaded_steamclient
         /\ handles[t][module[t]] > 0
    /\ pc[t] \in Renaming => modules[module[t]].file = "patched"
    /\ pc[t] = "load" => g_loaded_steamclient = NoBase

(* g_loaded_steamclient finds the patched library wherever it is mapped, and  *)
(* nothing else has the name that the loader would look it up by.             *)
PatchedInv ==
  \A b \in Addresses :
    /\ modules[b].file = "patched" => g_loaded_steamclient = b
    /\ modules[b].base = "steamclient6p" => modules[b].file = "patched"
    /\ modules[b].base = "none" <=> modules[b].file = "none"

SteamInv == LockInv /\ HookInv /\ BalanceInv /\ HandleInv /\ PatchedInv

-------------------------------------------------------------------------------
(* What the operations on the loader's table do to one module.                *)
Module == [file : {"none", "other", "original", "patched"},
           full : Names, base : Names, refs : Nat]

OnlyAt(b) == \A c \in Addresses : c # b => modules'[c] = modules[c]

LEMMA AddReferenceEffect ==
  ASSUME TypeOK, NEW t \in Threads, NEW b \in Addresses, AddReference(t, b)
  PROVE  /\ modules' \in [Addresses -> Module] /\ OnlyAt(b)
         /\ modules'[b].file = modules[b].file /\ modules'[b].full = modules[b].full
         /\ modules'[b].base = modules[b].base /\ modules'[b].refs = modules[b].refs + 1
<1>1. modules \in [Addresses -> Module]
  BY DEF TypeOK, Module
<1>2. modules' = [modules EXCEPT ![b].refs = @ + 1]
  BY DEF AddReference
<1>3. modules'[b] = [modules[b] EXCEPT !.refs = modules[b].refs + 1]
  BY <1>1, <1>2
<1>4. modules[b] \in Module
  BY <1>1
<1>5. /\ modules'[b] \in Module
      /\ modules'[b].file = modules[b].file /\ modules'[b].full = modules[b].full
      /\ modules'[b].base = modules[b].base /\ modules'[b].refs = modules[b].refs + 1
  BY <1>3, <1>4 DEF Module
<1>6. OnlyAt(b)
  BY <1>1, <1>2 DEF OnlyAt
<1>7. modules' \in [Addresses -> Module]
  BY <1>1, <1>2, <1>5, <1>6 DEF OnlyAt
<1> QED
  BY <1>5, <1>6, <1>7

LEMMA LoadAtEffect ==
  ASSUME TypeOK, NEW t \in Threads, NEW b \in Addresses, NEW file, NEW name,
         file \in {"other", "original", "patched"}, name \in Names,
         LoadAt(t, b, Loaded(file, name))
  PROVE  /\ modules' \in [Addresses -> Module] /\ OnlyAt(b) /\ ~Mapped(b)
         /\ modules'[b].file = file /\ modules'[b].full = name
         /\ modules'[b].base = name /\ modules'[b].refs = 1
<1>1. modules \in [Addresses -> Module]
  BY DEF TypeOK, Module
<1>2. ~Mapped(b) /\ modules' = [modules EXCEPT ![b] = Loaded(file, name)]
  BY DEF LoadAt
<1>3. Loaded(file, name) \in Module
  BY DEF Loaded, Module
<1> QED
  BY <1>1, <1>2, <1>3 DEF OnlyAt, Loaded

LEMMA HandlesEffect ==
  ASSUME TypeOK, NEW t \in Threads, NEW b \in Addresses,
         handles' = [handles EXCEPT ![t][b] = @ + 1]
  PROVE  /\ handles' \in [Threads -> [Addresses -> Nat]]
         /\ \A u \in Threads, c \in Addresses :
              handles'[u][c] = IF u = t /\ c = b THEN handles[t][b] + 1 ELSE handles[u][c]
<1>1. handles \in [Threads -> [Addresses -> Nat]]
  BY DEF TypeOK
<1>2. handles'[t] = [handles[t] EXCEPT ![b] = handles[t][b] + 1]
  BY <1>1
<1>3. handles[t] \in [Addresses -> Nat]
  BY <1>1
<1>4. handles'[t] \in [Addresses -> Nat]
  BY <1>2, <1>3
<1>5. \A u \in Threads : u # t => handles'[u] = handles[u]
  BY <1>1
<1> QED
  BY <1>1, <1>2, <1>3, <1>4, <1>5

(* Owned(b), reference by reference.                                          *)
LEMMA OwnedElements ==
  ASSUME NEW b
  PROVE  \A r : r \in Owned(b) <=> \E t \in Threads : \E i \in 1..handles[t][b] : r = <<t, i>>
  BY DEF Owned

LEMMA OneMore ==
  ASSUME TypeOK, NEW t \in Threads, NEW b \in Addresses,
         handles' = [handles EXCEPT ![t][b] = @ + 1], IsFiniteSet(Owned(b))
  PROVE  /\ IsFiniteSet(Owned(b)') /\ Cardinality(Owned(b)') = Cardinality(Owned(b)) + 1
         /\ \A c \in Addresses : c # b => Owned(c)' = Owned(c)
<1>1. \A u \in Threads, c \in Addresses :
        handles'[u][c] = IF u = t /\ c = b THEN handles[t][b] + 1 ELSE handles[u][c]
  BY HandlesEffect
<1>2. PICK n \in Nat : n = handles[t][b]
  BY DEF TypeOK
<1>3. <<t, n + 1>> \notin Owned(b)
  BY <1>2, OwnedElements
<1>4. Owned(b)' = Owned(b) \cup {<<t, n + 1>>}
  <2>1. 1..(n + 1) = (1..n) \cup {n + 1}
    OBVIOUS
  <2>2. \A u \in Threads : 1..handles'[u][b] = IF u = t THEN (1..n) \cup {n + 1}
                                                     ELSE 1..handles[u][b]
    BY <1>1, <1>2, <2>1
  <2>3. \A r : r \in Owned(b)' <=>
                 \E u \in Threads : \E i \in 1..handles'[u][b] : r = <<u, i>>
    BY OwnedElements DEF Owned
  <2>4. \A r : r \in Owned(b)' <=> r \in Owned(b) \/ r = <<t, n + 1>>
    <3> TAKE r
    <3>1. ASSUME NEW u \in Threads, NEW i \in 1..handles'[u][b], r = <<u, i>>
          PROVE  r \in Owned(b) \/ r = <<t, n + 1>>
      <4>1. i \in 1..handles[u][b] \/ (u = t /\ i = n + 1)
        BY <1>2, <2>2
      <4> QED
        BY <3>1, <4>1, OwnedElements
    <3>2. ASSUME NEW u \in Threads, NEW i \in 1..handles[u][b], r = <<u, i>>
          PROVE  r \in Owned(b)'
      <4>1. i \in 1..handles'[u][b]
        BY <1>2, <2>2
      <4> QED
        BY <2>3, <3>2, <4>1
    <3>3. r = <<t, n + 1>> => r \in Owned(b)'
      <4>1. n + 1 \in 1..handles'[t][b]
        BY <2>2
      <4> QED
        BY <2>3, <4>1
    <3> QED
      BY <2>3, <3>1, <3>2, <3>3, OwnedElements
  <2> QED
    BY <2>4
<1>5. \A c \in Addresses : c # b => Owned(c)' = Owned(c)
  BY <1>1 DEF Owned
<1> QED
  BY <1>3, <1>4, <1>5, FS_AddElement

LEMMA OneLess ==
  ASSUME TypeOK, NEW t \in Threads, NEW b \in Addresses, handles[t][b] > 0,
         handles' = [handles EXCEPT ![t][b] = @ - 1], IsFiniteSet(Owned(b))
  PROVE  /\ handles' \in [Threads -> [Addresses -> Nat]]
         /\ \A u \in Threads, c \in Addresses :
              handles'[u][c] = IF u = t /\ c = b THEN handles[t][b] - 1 ELSE handles[u][c]
         /\ IsFiniteSet(Owned(b)') /\ Cardinality(Owned(b)') = Cardinality(Owned(b)) - 1
         /\ \A c \in Addresses : c # b => Owned(c)' = Owned(c)
<1>1. /\ handles' \in [Threads -> [Addresses -> Nat]]
      /\ \A u \in Threads, c \in Addresses :
           handles'[u][c] = IF u = t /\ c = b THEN handles[t][b] - 1 ELSE handles[u][c]
  <2>1. handles \in [Threads -> [Addresses -> Nat]] /\ handles[t] \in [Addresses -> Nat]
    BY DEF TypeOK
  <2>2. handles'[t] = [handles[t] EXCEPT ![b] = handles[t][b] - 1]
    BY <2>1
  <2>3. handles'[t] \in [Addresses -> Nat]
    BY <2>1, <2>2
  <2>4. \A u \in Threads : u # t => handles'[u] = handles[u]
    BY <2>1
  <2> QED
    BY <2>1, <2>2, <2>3, <2>4
<1>2. PICK n \in Nat : n + 1 = handles[t][b]
  <2>1. handles[t][b] - 1 \in Nat /\ (handles[t][b] - 1) + 1 = handles[t][b]
    BY DEF TypeOK
  <2> QED
    BY <2>1
<1>3. <<t, n + 1>> \in Owned(b)
  <2>1. n + 1 \in 1..handles[t][b]
    BY <1>2
  <2> QED
    BY <2>1, OwnedElements
<1>4. Owned(b)' = Owned(b) \ {<<t, n + 1>>}
  <2>1. \A i : i \in 1..n <=> i \in 1..(n + 1) /\ i # n + 1
    OBVIOUS
  <2>2. \A u \in Threads : \A i : i \in 1..handles'[u][b]
                                    <=> i \in 1..handles[u][b] /\ ~(u = t /\ i = n + 1)
    BY <1>1, <1>2, <2>1
  <2>3. \A r : r \in Owned(b)' <=>
                 \E u \in Threads : \E i \in 1..handles'[u][b] : r = <<u, i>>
    BY OwnedElements DEF Owned
  <2>4. \A r : r \in Owned(b)' <=> r \in Owned(b) /\ r # <<t, n + 1>>
    <3> TAKE r
    <3>1. ASSUME NEW u \in Threads, NEW i \in 1..handles'[u][b], r = <<u, i>>
          PROVE  r \in Owned(b) /\ r # <<t, n + 1>>
      <4>1. i \in 1..handles[u][b] /\ ~(u = t /\ i = n + 1)
        BY <2>2
      <4> QED
        BY <3>1, <4>1, OwnedElements
    <3>2. ASSUME NEW u \in Threads, NEW i \in 1..handles[u][b], r = <<u, i>>,
                 r # <<t, n + 1>>
          PROVE  r \in Owned(b)'
      <4>1. i \in 1..handles'[u][b]
        BY <2>2, <3>2
      <4> QED
        BY <2>3, <3>2, <4>1
    <3> QED
      BY <2>3, <3>1, <3>2, OwnedElements
  <2> QED
    BY <2>4
<1>5. \A c \in Addresses : c # b => Owned(c)' = Owned(c)
  BY <1>1 DEF Owned
<1>6. /\ IsFiniteSet(Owned(b)') /\ Cardinality(Owned(b)') = Cardinality(Owned(b)) - 1
  <2>1. /\ IsFiniteSet(Owned(b) \ {<<t, n + 1>>})
        /\ Cardinality(Owned(b) \ {<<t, n + 1>>}) = Cardinality(Owned(b)) - 1
    BY <1>3, FS_RemoveElement
  <2> QED
    BY <1>4, <2>1
<1> QED
  BY <1>1, <1>5, <1>6

(* Whoever owns a reference keeps the module mapped.                          *)
LEMMA OwnedIsMapped ==
  ASSUME TypeOK, BalanceInv, NEW t \in Threads, NEW b \in Addresses, handles[t][b] > 0
  PROVE  Mapped(b) /\ modules[b].refs > 0
<1>1. 1 \in 1..handles[t][b]
  BY DEF TypeOK
<1>2. <<t, 1>> \in Owned(b)
  BY <1>1, OwnedElements
<1>3. Cardinality(Owned(b)) # 0 /\ Cardinality(Owned(b)) \in Nat
  BY <1>2, FS_EmptySet, FS_CardinalityType DEF BalanceInv
<1> QED
  BY <1>3 DEF BalanceInv

-------------------------------------------------------------------------------
(* Every operation on the table keeps its type and its balance.               *)
TableOK == /\ modules \in [Addresses -> Module]
           /\ handles \in [Threads -> [Addresses -> Nat]]
           /\ BalanceInv

LEMMA AddReferenceTable ==
  ASSUME TypeOK, BalanceInv, NEW t \in Threads, NEW b \in Addresses, Mapped(b),
         AddReference(t, b)
  PROVE  TableOK'
<1>1. handles' = [handles EXCEPT ![t][b] = @ + 1] /\ IsFiniteSet(Owned(b))
  BY DEF AddReference, BalanceInv
<1>2. handles' \in [Threads -> [Addresses -> Nat]]
  BY <1>1, HandlesEffect
<1>3. /\ IsFiniteSet(Owned(b)') /\ Cardinality(Owned(b)') = Cardinality(Owned(b)) + 1
      /\ \A c \in Addresses : c # b => Owned(c)' = Owned(c)
  BY <1>1, OneMore
<1>4. /\ modules' \in [Addresses -> Module] /\ OnlyAt(b)
      /\ modules'[b].file = modules[b].file /\ modules'[b].refs = modules[b].refs + 1
  BY AddReferenceEffect
<1>5. modules[b].refs \in Nat
  BY DEF TypeOK
<1>6. BalanceInv'
  BY <1>3, <1>4, <1>5 DEF BalanceInv, Mapped, OnlyAt
<1> QED
  BY <1>2, <1>4, <1>6 DEF TableOK

LEMMA LoadAtTable ==
  ASSUME TypeOK, BalanceInv, NEW t \in Threads, NEW b \in Addresses, NEW file, NEW name,
         file \in {"other", "original", "patched"}, name \in Names,
         LoadAt(t, b, Loaded(file, name))
  PROVE  TableOK'
<1>1. handles' = [handles EXCEPT ![t][b] = @ + 1] /\ IsFiniteSet(Owned(b))
  BY DEF LoadAt, BalanceInv
<1>2. handles' \in [Threads -> [Addresses -> Nat]]
  BY <1>1, HandlesEffect
<1>3. /\ IsFiniteSet(Owned(b)') /\ Cardinality(Owned(b)') = Cardinality(Owned(b)) + 1
      /\ \A c \in Addresses : c # b => Owned(c)' = Owned(c)
  BY <1>1, OneMore
<1>4. /\ modules' \in [Addresses -> Module] /\ OnlyAt(b) /\ ~Mapped(b)
      /\ modules'[b].file = file /\ modules'[b].refs = 1
  BY LoadAtEffect
<1>5. Cardinality(Owned(b)) = 0
  <2>1. modules[b].refs \in Nat /\ ~(modules[b].refs > 0)
    BY <1>4 DEF TypeOK, BalanceInv
  <2> QED
    BY <2>1 DEF BalanceInv
<1>6. BalanceInv'
  BY <1>3, <1>4, <1>5 DEF BalanceInv, Mapped, OnlyAt
<1> QED
  BY <1>2, <1>4, <1>6 DEF TableOK

LEMMA LoadByNameTable ==
  ASSUME TypeOK, BalanceInv, NEW t \in Threads, NEW b \in Bases, NEW file, NEW name,
         file \in {"original", "patched"}, name \in Names \ {"none"},
         \A c \in Addresses : modules[c].base = name => Mapped(c),
         LoadByName(t, b, file, name)
  PROVE  TableOK'
<1>1. b \in Addresses
  BY DEF Addresses
<1>2. CASE modules[b].base = name /\ AddReference(t, b)
  BY <1>1, <1>2, AddReferenceTable
<1>3. CASE LoadAt(t, b, Loaded(file, name))
  BY <1>1, <1>3, LoadAtTable
<1> QED
  BY <1>2, <1>3 DEF LoadByName

(* FreeLibrary by one module and one thread.                                  *)
FreeAt(t, b) ==
  /\ handles[t][b] > 0
  /\ handles' = [handles EXCEPT ![t][b] = @ - 1]
  /\ modules' = [modules EXCEPT ![b] = Released(@)]

LEMMA FreeEffect ==
  ASSUME TypeOK, BalanceInv, NEW t \in Threads, NEW b \in Addresses, FreeAt(t, b)
  PROVE  /\ modules' \in [Addresses -> Module] /\ OnlyAt(b)
         /\ \/ modules[b].refs = 1 /\ modules'[b] = Free
            \/ /\ modules[b].refs > 1
               /\ modules'[b].file = modules[b].file /\ modules'[b].full = modules[b].full
               /\ modules'[b].base = modules[b].base
               /\ modules'[b].refs = modules[b].refs - 1
<1>1. modules \in [Addresses -> Module] /\ modules[b] \in Module /\ modules[b].refs \in Nat
  BY DEF TypeOK, Module
<1>2. modules[b].refs > 0
  BY OwnedIsMapped DEF FreeAt
<1>3. modules' = [modules EXCEPT ![b] = modules'[b]]
  BY <1>1 DEF FreeAt
<1>4. CASE modules[b].refs = 1
  <2>1. modules'[b] = Free /\ Free \in Module
    BY <1>1, <1>4 DEF FreeAt, Released, Free, Module, Names
  <2> QED
    BY <1>1, <1>3, <1>4, <2>1 DEF OnlyAt
<1>5. CASE modules[b].refs > 1
  <2>1. modules'[b] = [modules[b] EXCEPT !.refs = modules[b].refs - 1]
    <3>1. modules'[b] = Released(modules[b])
      BY <1>1 DEF FreeAt
    <3>2. modules[b].refs # 1
      BY <1>5
    <3> QED
      BY <3>1, <3>2 DEF Released
  <2>2. /\ modules'[b] \in Module
        /\ modules'[b].file = modules[b].file /\ modules'[b].full = modules[b].full
        /\ modules'[b].base = modules[b].base /\ modules'[b].refs = modules[b].refs - 1
    BY <1>1, <1>5, <2>1 DEF Module
  <2> QED
    BY <1>1, <1>3, <1>5, <2>2 DEF OnlyAt
<1> QED
  BY <1>1, <1>2, <1>4, <1>5

LEMMA FreeTable ==
  ASSUME TypeOK, BalanceInv, NEW t \in Threads, NEW b \in Addresses, FreeAt(t, b)
  PROVE  TableOK'
<1>1. /\ handles' \in [Threads -> [Addresses -> Nat]]
      /\ IsFiniteSet(Owned(b)') /\ Cardinality(Owned(b)') = Cardinality(Owned(b)) - 1
      /\ \A c \in Addresses : c # b => Owned(c)' = Owned(c)
  <2>1. IsFiniteSet(Owned(b))
    BY DEF BalanceInv
  <2> QED
    BY <2>1, OneLess DEF FreeAt
<1>2. /\ modules' \in [Addresses -> Module] /\ OnlyAt(b)
      /\ \/ modules[b].refs = 1 /\ modules'[b] = Free
         \/ /\ modules[b].refs > 1 /\ modules'[b].file = modules[b].file
            /\ modules'[b].refs = modules[b].refs - 1
  BY FreeEffect
<1>3. modules[b].refs \in Nat /\ Mapped(b)
  BY OwnedIsMapped DEF TypeOK, FreeAt
<1>4. BalanceInv'
  BY <1>1, <1>2, <1>3 DEF BalanceInv, Mapped, OnlyAt, Free
<1> QED
  BY <1>1, <1>2, <1>4 DEF TableOK

(* A name is all that changes.                                                *)
LEMMA RenameEffect ==
  ASSUME TypeOK, NEW b \in Addresses,
         \/ modules' = [modules EXCEPT ![b].full = "steamclient64"]
         \/ modules' = [modules EXCEPT ![b].base = "steamclient64"]
  PROVE  /\ modules' \in [Addresses -> Module] /\ OnlyAt(b)
         /\ modules'[b].file = modules[b].file /\ modules'[b].refs = modules[b].refs
<1>1. modules \in [Addresses -> Module] /\ modules[b] \in Module
  BY DEF TypeOK, Module
<1>2. \/ modules'[b] = [modules[b] EXCEPT !.full = "steamclient64"]
      \/ modules'[b] = [modules[b] EXCEPT !.base = "steamclient64"]
  BY <1>1
<1>3. /\ modules'[b] \in Module
      /\ modules'[b].file = modules[b].file /\ modules'[b].refs = modules[b].refs
  BY <1>1, <1>2 DEF Module, Names
<1>4. OnlyAt(b)
  BY <1>1 DEF OnlyAt
<1>5. modules' = [modules EXCEPT ![b] = modules'[b]]
  BY <1>1
<1> QED
  BY <1>1, <1>3, <1>4, <1>5

-------------------------------------------------------------------------------
(* Type correctness.                                                          *)

LEMMA InitTypeSteam == Init => TypeOK /\ SteamInv
<1> SUFFICES ASSUME Init PROVE TypeOK /\ SteamInv
  OBVIOUS
<1> USE SteamclientPatchAssumption DEF Init
<1>1. TypeOK
  <2>1. Free \in Module
    BY DEF Free, Module, Names
  <2>2. modules \in [Addresses -> Module] /\ handles \in [Threads -> [Addresses -> Nat]]
    BY <2>1
  <2>3. pc \in [Threads \cup {Installer} -> Labels]
    BY DEF Labels
  <2> QED
    BY <2>2, <2>3 DEF TypeOK, Module
<1>2. LockInv
  BY DEF LockInv, Detour, Renaming
<1>3. HookInv
  BY DEF HookInv
<1>4. BalanceInv
  <2> SUFFICES ASSUME NEW b \in Addresses
               PROVE  /\ IsFiniteSet(Owned(b))
                      /\ modules[b].refs = Cardinality(Owned(b))
                      /\ Mapped(b) <=> modules[b].refs > 0
    BY DEF BalanceInv
  <2>1. \A t \in Threads : handles[t][b] = 0
    OBVIOUS
  <2>2. Owned(b) = {}
    BY <2>1 DEF Owned
  <2>3. IsFiniteSet(Owned(b)) /\ Cardinality(Owned(b)) = 0
    BY <2>2, FS_EmptySet
  <2> QED
    BY <2>3 DEF Free, Mapped
<1>5. HandleInv
  BY DEF HandleInv, Renaming
<1>6. PatchedInv
  BY DEF PatchedInv, Free
<1> QED
  BY <1>1, <1>2, <1>3, <1>4, <1>5, <1>6 DEF SteamInv

LEMMA NextTypeSteam == TypeOK /\ SteamInv /\ [Next]_vars => TypeOK' /\ BalanceInv'
<1> SUFFICES ASSUME TypeOK, SteamInv, [Next]_vars PROVE TypeOK' /\ BalanceInv'
  OBVIOUS
<1> USE DEF SteamInv
<1>t. /\ Module = [file : {"none", "other", "original", "patched"},
                   full : Names, base : Names, refs : Nat]
      /\ pc \in [Threads \cup {Installer} -> Labels] /\ module \in [Threads -> Bases \cup {NoBase}]
      /\ modules \in [Addresses -> Module] /\ handles \in [Threads -> [Addresses -> Nat]]
      /\ hooked \in BOOLEAN /\ names_restored \in BOOLEAN
      /\ loader_lock \in Threads \cup {NoThread} /\ dll_main \in Threads \cup {NoThread}
      /\ g_redirect_lock \in Threads \cup {NoThread}
      /\ g_loaded_steamclient \in Bases \cup {NoBase}
      /\ Bases \subseteq Addresses /\ NoBase \notin Bases /\ Installer \notin Threads
  BY SteamclientPatchAssumption DEF TypeOK, Module, Addresses
<1>n. {"other", "steamclient64", "steamclient6p"} \subseteq Names
  BY DEF Names
<1>k. ASSUME UNCHANGED <<modules, handles>> PROVE TableOK'
  <2>1. \A b : Owned(b)' = Owned(b)
    BY <1>k DEF Owned
  <2> QED
    BY <1>k, <1>t, <2>1 DEF TableOK, BalanceInv, Mapped
<1>s. ASSUME NEW t \in Threads, NEW label \in Labels, pc' = [pc EXCEPT ![t] = label]
      PROVE  pc' \in [Threads \cup {Installer} -> Labels]
  BY <1>s, <1>t
<1>l. {"idle", "enter", "check", "load", "restore", "full_name", "base_name",
       "unlock_loader", "leave", "dll_main", "resolve", "initialize", "create",
       "enable", "installed", "failed"} \subseteq Labels
  BY DEF Labels
<1>q. ASSUME TableOK', pc' \in [Threads \cup {Installer} -> Labels],
             module' \in [Threads -> Bases \cup {NoBase}],
             hooked' \in BOOLEAN, names_restored' \in BOOLEAN,
             loader_lock' \in Threads \cup {NoThread}, dll_main' \in Threads \cup {NoThread},
             g_redirect_lock' \in Threads \cup {NoThread},
             g_loaded_steamclient' \in Bases \cup {NoBase}
      PROVE  TypeOK' /\ BalanceInv'
  BY <1>q, <1>t DEF TypeOK, TableOK
<1>1. CASE UNCHANGED vars
  BY <1>1, <1>k, <1>q, <1>t DEF vars
<1>2. CASE on_mod_load \/ install_hook
  <2>1. PICK to \in {"resolve", "initialize", "create", "enable", "installed"} :
          \E from, outcomes : InstallStep(from, outcomes, to)
    BY <1>2 DEF on_mod_load, install_hook
  <2>2. /\ UNCHANGED <<modules, locks, steamVars, module, handles>>
        /\ hooked' \in BOOLEAN
        /\ pc' \in [Threads \cup {Installer} -> Labels]
    BY <1>t, <1>l, <2>1 DEF InstallStep
  <2> QED
    BY <1>k, <1>q, <1>t, <2>2
<1>3. ASSUME NEW t \in Threads, LoadOther(t) PROVE TypeOK' /\ BalanceInv'
  <2>1. PICK b \in OtherBases : LoadAt(t, b, Loaded("other", "other"))
    BY <1>3 DEF LoadOther
  <2>2. TableOK'
    BY <1>n, <2>1, LoadAtTable DEF Addresses
  <2> QED
    BY <1>3, <1>q, <1>t, <2>2 DEF LoadOther
<1>4. ASSUME NEW t \in Threads, FreeLibrary(t) PROVE TypeOK' /\ BalanceInv'
  <2>1. PICK b \in Addresses : FreeAt(t, b)
    BY <1>4 DEF FreeLibrary, FreeAt
  <2>2. TableOK'
    BY <2>1, FreeTable
  <2> QED
    BY <1>4, <1>q, <1>t, <2>2 DEF FreeLibrary
<1>5. ASSUME NEW t \in Threads, LoadDirect(t) PROVE TypeOK' /\ BalanceInv'
  <2>1. PICK b \in Bases : LoadByName(t, b, "original", "steamclient64")
    BY <1>5 DEF LoadDirect
  <2>2. \A c \in Addresses : modules[c].base = "steamclient64" => Mapped(c)
    BY DEF PatchedInv, Mapped
  <2>3. TableOK'
    BY <1>n, <2>1, <2>2, LoadByNameTable
  <2> QED
    BY <1>5, <1>q, <1>t, <2>3 DEF LoadDirect
<1>6. ASSUME NEW t \in Threads, hooked_load_library_ex_w(t) PROVE TypeOK' /\ BalanceInv'
  <2>1. /\ UNCHANGED <<hooked, modules, locks, steamVars, module, handles>>
        /\ pc' = [pc EXCEPT ![t] = "enter"]
    BY <1>6 DEF hooked_load_library_ex_w
  <2> QED
    BY <1>k, <1>l, <1>q, <1>s, <1>t, <2>1
<1>7. ASSUME NEW t \in Threads, EnterRedirect(t) PROVE TypeOK' /\ BalanceInv'
  <2>1. /\ UNCHANGED <<hooked, modules, loader_lock, dll_main, steamVars, module, handles>>
        /\ pc' = [pc EXCEPT ![t] = "check"] /\ g_redirect_lock' = t
    BY <1>7 DEF EnterRedirect
  <2> QED
    BY <1>k, <1>l, <1>q, <1>s, <1>t, <2>1
<1>8. ASSUME NEW t \in Threads, CheckLoaded(t) PROVE TypeOK' /\ BalanceInv'
  <2>1. CASE g_loaded_steamclient # NoBase /\ Mapped(g_loaded_steamclient)
    <3>1. /\ UNCHANGED <<hooked, locks, names_restored, g_loaded_steamclient>>
          /\ pc' = [pc EXCEPT ![t] = "leave"] /\ AddReference(t, g_loaded_steamclient)
          /\ module' = [module EXCEPT ![t] = g_loaded_steamclient]
      BY <1>8, <2>1 DEF CheckLoaded
    <3>2. TableOK'
      BY <1>t, <2>1, <3>1, AddReferenceTable
    <3> QED
      BY <1>l, <1>q, <1>s, <1>t, <3>1, <3>2
  <2>2. CASE ~(g_loaded_steamclient # NoBase /\ Mapped(g_loaded_steamclient))
    <3>1. /\ UNCHANGED <<hooked, locks, names_restored, modules, module, handles>>
          /\ pc' = [pc EXCEPT ![t] = "load"] /\ g_loaded_steamclient' = NoBase
      BY <1>8, <2>2 DEF CheckLoaded
    <3> QED
      BY <1>k, <1>l, <1>q, <1>s, <1>t, <3>1
  <2> QED
    BY <2>1, <2>2
<1>9. ASSUME NEW t \in Threads, LoadPatched(t) PROVE TypeOK' /\ BalanceInv'
  <2>1. UNCHANGED <<hooked, locks>> /\ names_restored' = FALSE
    BY <1>9 DEF LoadPatched
  <2>2. CASE \E b \in Bases :
               /\ LoadByName(t, b, "patched", "steamclient6p")
               /\ module' = [module EXCEPT ![t] = b]
               /\ g_loaded_steamclient' = b
               /\ pc' = [pc EXCEPT ![t] = "restore"]
    <3>1. PICK b \in Bases : /\ LoadByName(t, b, "patched", "steamclient6p")
                             /\ module' = [module EXCEPT ![t] = b]
                             /\ g_loaded_steamclient' = b
                             /\ pc' = [pc EXCEPT ![t] = "restore"]
      BY <2>2
    <3>2. \A c \in Addresses : modules[c].base = "steamclient6p" => Mapped(c)
      BY DEF PatchedInv, Mapped
    <3>3. TableOK'
      BY <1>n, <3>1, <3>2, LoadByNameTable
    <3> QED
      BY <1>l, <1>q, <1>s, <1>t, <2>1, <3>1, <3>3
  <2>3. CASE /\ pc' = [pc EXCEPT ![t] = "leave"]
             /\ UNCHANGED <<modules, module, g_loaded_steamclient, handles>>
    BY <1>k, <1>l, <1>q, <1>s, <1>t, <2>1, <2>3
  <2> QED
    BY <1>9, <2>2, <2>3 DEF LoadPatched
<1>10. ASSUME NEW t \in Threads, LockLoader(t) PROVE TypeOK' /\ BalanceInv'
  <2>1. /\ UNCHANGED <<hooked, modules, dll_main, g_redirect_lock, steamVars, module, handles>>
        /\ \/ loader_lock' = t /\ pc' = [pc EXCEPT ![t] = "full_name"]
           \/ loader_lock' = t /\ pc' = [pc EXCEPT ![t] = "unlock_loader"]
           \/ loader_lock' = loader_lock /\ pc' = [pc EXCEPT ![t] = "leave"]
    BY <1>10 DEF LockLoader
  <2> QED
    BY <1>k, <1>l, <1>q, <1>s, <1>t, <2>1
<1>11. ASSUME NEW t \in Threads, RestoreFullName(t) \/ RestoreBaseName(t)
       PROVE  TypeOK' /\ BalanceInv'
  <2>1. /\ UNCHANGED <<hooked, locks, g_loaded_steamclient, module, handles>>
        /\ names_restored' \in BOOLEAN /\ pc[t] \in Renaming
        /\ \/ pc' = [pc EXCEPT ![t] = "base_name"]
           \/ pc' = [pc EXCEPT ![t] = "unlock_loader"]
        /\ \/ modules' = [modules EXCEPT ![module[t]].full = "steamclient64"]
           \/ modules' = [modules EXCEPT ![module[t]].base = "steamclient64"]
    BY <1>11, <1>t DEF RestoreFullName, RestoreBaseName, Renaming
  <2>2. module[t] \in Addresses
    BY <1>t, <2>1 DEF HandleInv
  <2>3. /\ modules' \in [Addresses -> Module] /\ OnlyAt(module[t])
        /\ modules'[module[t]].file = modules[module[t]].file
        /\ modules'[module[t]].refs = modules[module[t]].refs
    BY <2>1, <2>2, RenameEffect
  <2>4. TableOK'
    <3>1. \A b : Owned(b)' = Owned(b)
      BY <2>1 DEF Owned
    <3> QED
      BY <1>t, <2>1, <2>3, <3>1 DEF TableOK, BalanceInv, Mapped, OnlyAt
  <2> QED
    BY <1>l, <1>q, <1>s, <1>t, <2>1, <2>4
<1>12. ASSUME NEW t \in Threads, UnlockLoader(t) PROVE TypeOK' /\ BalanceInv'
  <2>1. /\ UNCHANGED <<hooked, modules, dll_main, g_redirect_lock, steamVars, module, handles>>
        /\ loader_lock' \in {t, NoThread}
        /\ pc' = [pc EXCEPT ![t] = "leave"]
    BY <1>12 DEF UnlockLoader
  <2> QED
    BY <1>k, <1>l, <1>q, <1>s, <1>t, <2>1
<1>13. ASSUME NEW t \in Threads, LeaveRedirect(t) PROVE TypeOK' /\ BalanceInv'
  <2>1. /\ UNCHANGED <<hooked, modules, loader_lock, dll_main, steamVars, handles>>
        /\ g_redirect_lock' = NoThread /\ module' = [module EXCEPT ![t] = NoBase]
        /\ \E label \in {"idle", "dll_main"} : pc' = [pc EXCEPT ![t] = label]
    BY <1>13 DEF LeaveRedirect
  <2> QED
    BY <1>k, <1>l, <1>q, <1>s, <1>t, <2>1
<1>14. ASSUME NEW t \in Threads, DllMainReturns(t) PROVE TypeOK' /\ BalanceInv'
  <2>1. /\ UNCHANGED <<hooked, modules, g_redirect_lock, steamVars, module, handles>>
        /\ loader_lock' = NoThread /\ dll_main' = NoThread
        /\ pc' = [pc EXCEPT ![t] = "idle"]
    BY <1>14 DEF DllMainReturns
  <2> QED
    BY <1>k, <1>l, <1>q, <1>s, <1>t, <2>1
<1>15. ASSUME NEW t \in Threads, LoadRequesting(t) PROVE TypeOK' /\ BalanceInv'
  <2>1. PICK b \in OtherBases : LoadAt(t, b, Loaded("other", "other"))
    BY <1>15 DEF LoadRequesting
  <2>2. TableOK'
    BY <1>n, <2>1, LoadAtTable DEF Addresses
  <2>3. /\ UNCHANGED <<hooked, g_redirect_lock, steamVars, module>>
        /\ loader_lock' = t /\ dll_main' = t /\ pc' = [pc EXCEPT ![t] = "enter"]
    BY <1>15 DEF LoadRequesting
  <2> QED
    BY <1>l, <1>q, <1>s, <1>t, <2>2, <2>3
<1> QED
  BY <1>1, <1>2, <1>3, <1>4, <1>5, <1>6, <1>7, <1>8, <1>9, <1>10, <1>11, <1>12, <1>13,
     <1>14, <1>15
     DEF Next, RedirectStep

-------------------------------------------------------------------------------
(* The invariant of the detour is inductive.                                  *)

LEMMA NextLockSteam == TypeOK /\ SteamInv /\ [Next]_vars => LockInv' /\ HookInv'
<1> SUFFICES ASSUME TypeOK, SteamInv, [Next]_vars PROVE LockInv' /\ HookInv'
  OBVIOUS
<1>t. /\ pc \in [Threads \cup {Installer} -> Labels]
      /\ Installer \notin Threads /\ NoThread \notin Threads
      /\ hooked \in BOOLEAN
  BY SteamclientPatchAssumption DEF TypeOK
<1>i. LockInv /\ HookInv
  BY DEF SteamInv
<1> USE DEF LockInv, HookInv, Detour, Renaming
<1>1. CASE UNCHANGED vars
  BY <1>1, <1>i DEF vars
<1>2. CASE on_mod_load \/ install_hook
  <2>1. /\ pc[Installer] # "installed" /\ UNCHANGED <<locks, steamVars>>
        /\ \E label : /\ pc' = [pc EXCEPT ![Installer] = label]
                      /\ hooked' = (label = "installed")
    BY <1>2 DEF on_mod_load, install_hook, InstallStep
  <2>2. ~hooked
    BY <1>i, <2>1
  <2> QED
    BY <1>i, <1>t, <2>1, <2>2
<1>3. ASSUME NEW t \in Threads, LoadOther(t) \/ FreeLibrary(t) \/ LoadDirect(t)
      PROVE  LockInv' /\ HookInv'
  <2>1. UNCHANGED <<hooked, locks, steamVars, pc>>
    BY <1>3 DEF LoadOther, FreeLibrary, LoadDirect
  <2> QED
    BY <1>i, <2>1
<1>4. ASSUME NEW t \in Threads, hooked_load_library_ex_w(t) PROVE LockInv' /\ HookInv'
  <2>1. /\ UNCHANGED <<hooked, locks, steamVars>> /\ hooked /\ pc[t] = "idle"
        /\ pc' = [pc EXCEPT ![t] = "enter"]
    BY <1>4 DEF hooked_load_library_ex_w, MayLoad
  <2> QED
    BY <1>i, <1>t, <2>1
<1>5. ASSUME NEW t \in Threads, EnterRedirect(t) PROVE LockInv' /\ HookInv'
  <2>1. /\ UNCHANGED <<hooked, loader_lock, dll_main, steamVars>> /\ pc[t] = "enter"
        /\ g_redirect_lock = NoThread /\ g_redirect_lock' = t
        /\ pc' = [pc EXCEPT ![t] = "check"]
    BY <1>5 DEF EnterRedirect
  <2> QED
    BY <1>i, <1>t, <2>1
<1>6. ASSUME NEW t \in Threads,
             CheckLoaded(t) \/ LoadPatched(t) \/ RestoreFullName(t) \/ RestoreBaseName(t)
      PROVE  LockInv' /\ HookInv'
  <2>1. /\ UNCHANGED <<hooked, locks>>
        /\ pc[t] \in {"check", "load", "full_name", "base_name"}
        /\ \/ /\ pc[t] \in {"check", "load"}
              /\ \E label \in {"load", "leave", "restore"} : pc' = [pc EXCEPT ![t] = label]
           \/ /\ pc[t] \in {"full_name", "base_name"}
              /\ \E label \in {"base_name", "unlock_loader"} : pc' = [pc EXCEPT ![t] = label]
    BY <1>6 DEF CheckLoaded, LoadPatched, RestoreFullName, RestoreBaseName
  <2>2. hooked
    BY <1>i, <2>1
  <2>3. LockInv'
    BY <1>i, <1>t, <2>1
  <2>4. HookInv'
    BY <1>i, <1>t, <2>1, <2>2
  <2> QED
    BY <2>3, <2>4
<1>7. ASSUME NEW t \in Threads, LockLoader(t) PROVE LockInv' /\ HookInv'
  <2>1. /\ UNCHANGED <<hooked, dll_main, g_redirect_lock, steamVars>> /\ pc[t] = "restore"
        /\ loader_lock \in {NoThread, t}
        /\ \/ /\ loader_lock' = t
              /\ \E label \in {"full_name", "unlock_loader"} : pc' = [pc EXCEPT ![t] = label]
           \/ loader_lock' = loader_lock /\ pc' = [pc EXCEPT ![t] = "leave"]
    BY <1>7 DEF LockLoader
  <2>2. hooked
    BY <1>i, <2>1
  <2> QED
    BY <1>i, <1>t, <2>1, <2>2
<1>8. ASSUME NEW t \in Threads, UnlockLoader(t) PROVE LockInv' /\ HookInv'
  <2>1. /\ UNCHANGED <<hooked, dll_main, g_redirect_lock, g_loaded_steamclient>>
        /\ pc[t] = "unlock_loader" /\ loader_lock' = IF dll_main = t THEN t ELSE NoThread
        /\ pc' = [pc EXCEPT ![t] = "leave"]
    BY <1>8 DEF UnlockLoader
  <2>2. hooked /\ loader_lock = t
    BY <1>i, <2>1
  <2> QED
    BY <1>i, <1>t, <2>1, <2>2
<1>9. ASSUME NEW t \in Threads, LeaveRedirect(t) PROVE LockInv' /\ HookInv'
  <2>1. /\ UNCHANGED <<hooked, loader_lock, dll_main, g_loaded_steamclient>>
        /\ pc[t] = "leave" /\ g_redirect_lock' = NoThread
        /\ pc' = [pc EXCEPT ![t] = IF dll_main = t THEN "dll_main" ELSE "idle"]
    BY <1>9 DEF LeaveRedirect
  <2>2. hooked /\ g_redirect_lock = t
    BY <1>i, <2>1
  <2> QED
    BY <1>i, <1>t, <2>1, <2>2
<1>10. ASSUME NEW t \in Threads, LoadRequesting(t) PROVE LockInv' /\ HookInv'
  <2>1. /\ UNCHANGED <<hooked, g_redirect_lock, steamVars>> /\ hooked /\ pc[t] = "idle"
        /\ loader_lock \in {NoThread, t} /\ loader_lock' = t /\ dll_main' = t
        /\ pc' = [pc EXCEPT ![t] = "enter"]
    BY <1>10 DEF LoadRequesting, MayLoad
  <2>2. loader_lock = NoThread /\ \A u \in Threads : dll_main # u
    BY <1>i, <1>t, <2>1
  <2> QED
    BY <1>i, <1>t, <2>1, <2>2
<1>11. ASSUME NEW t \in Threads, DllMainReturns(t) PROVE LockInv' /\ HookInv'
  <2>1. /\ UNCHANGED <<hooked, g_redirect_lock, steamVars>> /\ pc[t] = "dll_main"
        /\ loader_lock' = NoThread /\ dll_main' = NoThread
        /\ pc' = [pc EXCEPT ![t] = "idle"]
    BY <1>11 DEF DllMainReturns
  <2>2. hooked /\ loader_lock = t /\ dll_main = t
    BY <1>i, <2>1
  <2> QED
    BY <1>i, <1>t, <2>1, <2>2
<1> QED
  BY <1>1, <1>2, <1>3, <1>4, <1>5, <1>6, <1>7, <1>8, <1>9, <1>10, <1>11
     DEF Next, RedirectStep

LEMMA TwoOwners ==
  ASSUME TypeOK, BalanceInv, NEW b \in Addresses, NEW t \in Threads, NEW u \in Threads, t # u,
         handles[t][b] > 0, handles[u][b] > 0
  PROVE  modules[b].refs > 1
<1>1. 1 \in 1..handles[t][b] /\ 1 \in 1..handles[u][b]
  BY DEF TypeOK
<1>2. <<t, 1>> \in Owned(b) /\ <<u, 1>> \in Owned(b) /\ <<t, 1>> # <<u, 1>>
  BY <1>1, OwnedElements
<1>3. IsFiniteSet(Owned(b)) /\ Cardinality(Owned(b)) \in Nat
  BY FS_CardinalityType DEF BalanceInv
<1>4. /\ IsFiniteSet(Owned(b) \ {<<t, 1>>})
      /\ Cardinality(Owned(b) \ {<<t, 1>>}) = Cardinality(Owned(b)) - 1
  BY <1>2, <1>3, FS_RemoveElement
<1>5. Owned(b) \ {<<t, 1>>} # {}
  BY <1>2
<1>6. Cardinality(Owned(b)) - 1 # 0 /\ Cardinality(Owned(b)) - 1 \in Nat
  BY <1>4, <1>5, FS_EmptySet, FS_CardinalityType
<1> QED
  BY <1>3, <1>6 DEF BalanceInv

(* A module keeps its file and its names.                                     *)
Keeps(b) == /\ modules'[b].file = modules[b].file
            /\ modules'[b].full = modules[b].full
            /\ modules'[b].base = modules[b].base

(* What others do between two requests leaves a module that is being handled  *)
(* to its handler, and never brings in the patched library.                   *)
LEMMA OthersEffect ==
  ASSUME TypeOK, SteamInv, NEW t \in Threads,
         LoadOther(t) \/ LoadRequesting(t) \/ FreeLibrary(t) \/ LoadDirect(t)
  PROVE  /\ \A c \in Addresses :
              \/ Keeps(c)
              \/ /\ modules'[c].file \in {"none", "other", "original"}
                 /\ modules'[c].full = modules'[c].base /\ modules'[c].base # "steamclient6p"
                 /\ modules'[c].file = "none" <=> modules'[c].base = "none"
                 /\ \A u \in Threads : module[u] # c
         /\ \A u \in Threads : module[u] # NoBase => handles'[u][module[u]] > 0
<1>t. /\ handles \in [Threads -> [Addresses -> Nat]] /\ modules \in [Addresses -> Module]
      /\ module \in [Threads -> Bases \cup {NoBase}] /\ Bases \subseteq Addresses
      /\ NoBase \notin Addresses
  BY SteamclientPatchAssumption DEF TypeOK, Module, Addresses
<1>i. HandleInv /\ BalanceInv /\ PatchedInv
  BY DEF SteamInv
<1>o. \A u \in Threads :
        module[u] # NoBase => /\ u # t /\ module[u] \in Addresses
                              /\ handles[u][module[u]] > 0 /\ Mapped(module[u])
  <2>1. pc[t] = "idle"
    BY DEF LoadOther, LoadRequesting, FreeLibrary, LoadDirect, MayLoad
  <2> SUFFICES ASSUME NEW u \in Threads, module[u] # NoBase
               PROVE  /\ u # t /\ module[u] \in Addresses
                      /\ handles[u][module[u]] > 0 /\ Mapped(module[u])
    OBVIOUS
  <2>2. u # t /\ handles[u][module[u]] > 0 /\ module[u] \in Addresses
    BY <1>t, <1>i, <2>1 DEF HandleInv, Renaming
  <2> QED
    BY <1>i, <2>2, OwnedIsMapped
<1>l. ASSUME NEW b \in Addresses, NEW file \in {"other", "original"},
             NEW name \in {"other", "steamclient64"}, LoadAt(t, b, Loaded(file, name))
      PROVE  /\ \A c \in Addresses :
                  \/ Keeps(c)
                  \/ /\ modules'[c].file \in {"other", "original"}
                     /\ modules'[c].full = modules'[c].base
                     /\ modules'[c].base \in {"other", "steamclient64"}
                     /\ \A u \in Threads : module[u] # c
             /\ \A u \in Threads : module[u] # NoBase => handles'[u][module[u]] > 0
  <2>1. /\ OnlyAt(b) /\ ~Mapped(b) /\ modules'[b].file = file
        /\ modules'[b].full = name /\ modules'[b].base = name
    BY <1>l, LoadAtEffect DEF Names
  <2>2. \A u \in Threads : module[u] # b
    BY <1>o, <1>t, <2>1
  <2>3. handles' = [handles EXCEPT ![t][b] = @ + 1]
    BY <1>l DEF LoadAt
  <2>4. \A u \in Threads, c \in Addresses :
          handles'[u][c] = IF u = t /\ c = b THEN handles[t][b] + 1 ELSE handles[u][c]
    BY <2>3, HandlesEffect
  <2> QED
    BY <1>o, <2>1, <2>2, <2>4 DEF OnlyAt, Keeps
<1>1. CASE LoadOther(t) \/ LoadRequesting(t)
  <2>1. PICK b \in OtherBases : LoadAt(t, b, Loaded("other", "other"))
    BY <1>1 DEF LoadOther, LoadRequesting
  <2>2. b \in Addresses
    BY DEF Addresses
  <2> QED
    BY <1>l, <2>1, <2>2
<1>2. CASE LoadDirect(t)
  <2>1. PICK b \in Bases : LoadByName(t, b, "original", "steamclient64")
    BY <1>2 DEF LoadDirect
  <2>2. b \in Addresses
    BY DEF Addresses
  <2>3. CASE AddReference(t, b)
    <3>1. OnlyAt(b) /\ Keeps(b)
      BY <2>2, <2>3, AddReferenceEffect DEF Keeps
    <3>2. handles' = [handles EXCEPT ![t][b] = @ + 1]
      BY <2>3 DEF AddReference
    <3>3. \A u \in Threads, c \in Addresses :
            handles'[u][c] = IF u = t /\ c = b THEN handles[t][b] + 1 ELSE handles[u][c]
      BY <2>2, <3>2, HandlesEffect
    <3> QED
      BY <1>o, <3>1, <3>3 DEF OnlyAt, Keeps
  <2>4. CASE LoadAt(t, b, Loaded("original", "steamclient64"))
    BY <1>l, <2>2, <2>4
  <2> QED
    BY <2>1, <2>3, <2>4 DEF LoadByName
<1>3. CASE FreeLibrary(t)
  <2>1. PICK b \in Addresses : FreeAt(t, b)
    BY <1>3 DEF FreeLibrary, FreeAt
  <2>2. /\ OnlyAt(b)
        /\ Keeps(b) \/ (modules[b].refs = 1 /\ modules'[b] = Free)
    BY <1>i, <2>1, FreeEffect DEF Keeps
  <2>3. \A u \in Threads, c \in Addresses :
          handles'[u][c] = IF u = t /\ c = b THEN handles[t][b] - 1 ELSE handles[u][c]
    <3>1. IsFiniteSet(Owned(b))
      BY <1>i DEF BalanceInv
    <3> QED
      BY <2>1, <3>1, OneLess DEF FreeAt
  <2>4. modules[b].refs = 1 => \A u \in Threads : module[u] # b
    <3> SUFFICES ASSUME NEW u \in Threads, module[u] = b PROVE modules[b].refs > 1
      BY <1>t
    <3>1. u # t /\ handles[u][b] > 0
      BY <1>o, <1>t
    <3> QED
      BY <1>i, <2>1, <3>1, TwoOwners DEF FreeAt
  <2> QED
    BY <1>o, <2>2, <2>3, <2>4 DEF OnlyAt, Keeps, Free
<1> QED
  BY <1>1, <1>2, <1>3

(* A redirected request that loads maps the only copy.                        *)
LEMMA LoadPatchedEffect ==
  ASSUME TypeOK, SteamInv, NEW t \in Threads, LoadPatched(t)
  PROVE  /\ \A c \in Addresses : modules[c].file # "patched"
         /\ names_restored' = FALSE
         /\ \/ /\ pc' = [pc EXCEPT ![t] = "leave"]
               /\ UNCHANGED <<modules, module, g_loaded_steamclient, handles>>
            \/ \E b \in Bases :
                 /\ pc' = [pc EXCEPT ![t] = "restore"]
                 /\ module' = [module EXCEPT ![t] = b] /\ g_loaded_steamclient' = b
                 /\ OnlyAt(b) /\ modules'[b].file = "patched"
                 /\ modules'[b].full = "steamclient6p" /\ modules'[b].base = "steamclient6p"
                 /\ handles'[t][b] > 0
<1>t. Bases \subseteq Addresses /\ NoBase \notin Addresses
  BY SteamclientPatchAssumption DEF Addresses
<1>1. \A c \in Addresses : modules[c].file # "patched"
  BY <1>t DEF SteamInv, HandleInv, PatchedInv, LoadPatched
<1>2. ASSUME NEW b \in Bases, LoadByName(t, b, "patched", "steamclient6p")
      PROVE  /\ OnlyAt(b) /\ modules'[b].file = "patched"
             /\ modules'[b].full = "steamclient6p" /\ modules'[b].base = "steamclient6p"
             /\ handles'[t][b] > 0
  <2>1. \A c \in Bases : modules[c].base # "steamclient6p"
    BY <1>1, <1>t DEF SteamInv, PatchedInv
  <2>2. LoadAt(t, b, Loaded("patched", "steamclient6p")) /\ b \in Addresses
    BY <1>2, <1>t, <2>1 DEF LoadByName
  <2>3. handles' = [handles EXCEPT ![t][b] = @ + 1] /\ handles[t][b] \in Nat
    BY <2>2 DEF LoadAt, TypeOK
  <2>4. handles'[t][b] = handles[t][b] + 1
    BY <2>2, <2>3, HandlesEffect
  <2> QED
    BY <2>2, <2>3, <2>4, LoadAtEffect DEF Names
<1> QED
  BY <1>1, <1>2 DEF LoadPatched

LEMMA NextHandleSteam == TypeOK /\ SteamInv /\ [Next]_vars => HandleInv' /\ PatchedInv'
<1> SUFFICES ASSUME TypeOK, SteamInv, [Next]_vars PROVE HandleInv' /\ PatchedInv'
  OBVIOUS
<1>t. /\ pc \in [Threads \cup {Installer} -> Labels]
      /\ module \in [Threads -> Bases \cup {NoBase}] /\ Bases \subseteq Addresses
      /\ modules \in [Addresses -> Module] /\ handles \in [Threads -> [Addresses -> Nat]]
      /\ g_loaded_steamclient \in Bases \cup {NoBase}
      /\ Installer \notin Threads /\ NoThread \notin Threads /\ NoBase \notin Addresses
  BY SteamclientPatchAssumption DEF TypeOK, Module, Addresses
<1>i. LockInv /\ HandleInv /\ PatchedInv
  BY DEF SteamInv
<1>o. ASSUME NEW t \in Threads, pc[t] \in Detour
      PROVE  \A u \in Threads : u # t => pc[u] \notin Detour /\ module[u] = NoBase
  BY <1>o, <1>i DEF LockInv, HandleInv, Detour
<1>1. CASE UNCHANGED vars
  BY <1>1, <1>i DEF vars, HandleInv, PatchedInv
<1>2. CASE on_mod_load \/ install_hook
  <2>1. /\ UNCHANGED <<modules, module, handles, g_loaded_steamclient>>
        /\ \A t \in Threads : pc'[t] = pc[t]
    BY <1>2, <1>t DEF on_mod_load, install_hook, InstallStep
  <2> QED
    BY <1>i, <2>1 DEF HandleInv, PatchedInv
<1>3. ASSUME NEW t \in Threads,
             LoadOther(t) \/ LoadRequesting(t) \/ FreeLibrary(t) \/ LoadDirect(t)
      PROVE  HandleInv' /\ PatchedInv'
  <2>1. /\ UNCHANGED <<module, g_loaded_steamclient>>
        /\ \A u \in Threads : pc'[u] = pc[u] \/ (pc[u] = "idle" /\ pc'[u] = "enter")
    BY <1>3, <1>t DEF LoadOther, LoadRequesting, FreeLibrary, LoadDirect, MayLoad
  <2>2. /\ \A c \in Addresses :
             \/ Keeps(c)
             \/ /\ modules'[c].file \in {"none", "other", "original"}
                /\ modules'[c].full = modules'[c].base /\ modules'[c].base # "steamclient6p"
                /\ modules'[c].file = "none" <=> modules'[c].base = "none"
                /\ \A u \in Threads : module[u] # c
        /\ \A u \in Threads : module[u] # NoBase => handles'[u][module[u]] > 0
    BY <1>3, OthersEffect
  <2>3. PatchedInv'
    BY <1>i, <2>1, <2>2 DEF PatchedInv, Keeps
  <2>4. \A u \in Threads : pc[u] \in Renaming => Keeps(module[u])
    BY <1>i, <1>t, <2>2 DEF HandleInv
  <2>5. HandleInv'
    BY <1>i, <2>1, <2>2, <2>4 DEF HandleInv, Keeps, Renaming
  <2> QED
    BY <2>3, <2>5
<1>4. ASSUME NEW t \in Threads,
             hooked_load_library_ex_w(t) \/ EnterRedirect(t) \/ LockLoader(t)
               \/ UnlockLoader(t) \/ LeaveRedirect(t) \/ DllMainReturns(t)
      PROVE  HandleInv' /\ PatchedInv'
  <2>1. UNCHANGED <<modules, handles, g_loaded_steamclient>>
    BY <1>4 DEF hooked_load_library_ex_w, EnterRedirect, LockLoader, UnlockLoader,
                LeaveRedirect, DllMainReturns
  <2>2. \/ module' = module
        \/ /\ module' = [module EXCEPT ![t] = NoBase]
           /\ \E label \in {"idle", "dll_main"} : pc' = [pc EXCEPT ![t] = label]
    BY <1>4 DEF hooked_load_library_ex_w, EnterRedirect, LockLoader, UnlockLoader,
                LeaveRedirect, DllMainReturns
  <2>3. \/ /\ pc[t] \in {"idle", "enter", "leave", "dll_main"}
           /\ \E label \in {"enter", "check", "idle", "dll_main"} :
                pc' = [pc EXCEPT ![t] = label]
        \/ pc[t] \in Renaming /\ \E label \in {"full_name", "unlock_loader", "leave"} :
                                   pc' = [pc EXCEPT ![t] = label]
    BY <1>4 DEF hooked_load_library_ex_w, EnterRedirect, LockLoader, UnlockLoader,
                LeaveRedirect, DllMainReturns, MayLoad, Renaming
  <2>4. pc[t] = "leave" => module'[t] = NoBase
    BY <1>4, <1>t DEF hooked_load_library_ex_w, EnterRedirect, LockLoader, UnlockLoader,
                      LeaveRedirect, DllMainReturns, MayLoad
  <2>5. HandleInv'
    BY <1>i, <1>t, <2>1, <2>2, <2>3, <2>4 DEF HandleInv, Renaming
  <2> QED
    BY <1>i, <2>1, <2>5 DEF PatchedInv
<1>5. ASSUME NEW t \in Threads, CheckLoaded(t) PROVE HandleInv' /\ PatchedInv'
  <2>o. pc[t] = "check" /\ module[t] = NoBase
        /\ \A u \in Threads : u # t => pc[u] \notin Detour /\ module[u] = NoBase
    <3>1. pc[t] = "check"
      BY <1>5 DEF CheckLoaded
    <3> QED
      BY <1>i, <1>o, <3>1 DEF HandleInv, Detour, Renaming
  <2>1. CASE g_loaded_steamclient # NoBase /\ Mapped(g_loaded_steamclient)
    <3> DEFINE b == g_loaded_steamclient
    <3>1. /\ UNCHANGED g_loaded_steamclient /\ b \in Addresses
          /\ pc' = [pc EXCEPT ![t] = "leave"] /\ AddReference(t, b)
          /\ module' = [module EXCEPT ![t] = b]
      BY <1>5, <1>t, <2>1 DEF CheckLoaded
    <3>2. OnlyAt(b) /\ Keeps(b)
      BY <3>1, AddReferenceEffect DEF Keeps
    <3>3. handles'[t][b] > 0
      <4>1. handles' = [handles EXCEPT ![t][b] = @ + 1] /\ handles[t][b] \in Nat
        BY <1>t, <3>1 DEF AddReference
      <4>2. handles'[t][b] = handles[t][b] + 1
        BY <3>1, <4>1, HandlesEffect
      <4> QED
        BY <4>1, <4>2
    <3>4. PatchedInv'
      BY <1>i, <3>1, <3>2 DEF PatchedInv, Keeps, OnlyAt
    <3>5. HandleInv'
      BY <1>i, <1>t, <2>o, <3>1, <3>3 DEF HandleInv, Renaming, Detour
    <3> QED
      BY <3>4, <3>5
  <2>2. CASE ~(g_loaded_steamclient # NoBase /\ Mapped(g_loaded_steamclient))
    <3>1. /\ UNCHANGED <<modules, module, handles>>
          /\ pc' = [pc EXCEPT ![t] = "load"] /\ g_loaded_steamclient' = NoBase
      BY <1>5, <2>2 DEF CheckLoaded
    <3>2. \A c \in Addresses : modules[c].file # "patched"
      BY <1>i, <1>t, <2>2 DEF PatchedInv, Mapped
    <3>3. PatchedInv'
      BY <1>i, <3>1, <3>2 DEF PatchedInv
    <3>4. HandleInv'
      BY <1>i, <1>t, <2>o, <3>1 DEF HandleInv, Renaming, Detour
    <3> QED
      BY <3>3, <3>4
  <2> QED
    BY <2>1, <2>2
<1>6. ASSUME NEW t \in Threads, LoadPatched(t) PROVE HandleInv' /\ PatchedInv'
  <2>o. pc[t] = "load" /\ module[t] = NoBase
        /\ \A u \in Threads : u # t => pc[u] \notin Detour /\ module[u] = NoBase
    <3>1. pc[t] = "load"
      BY <1>6 DEF LoadPatched
    <3> QED
      BY <1>i, <1>o, <3>1 DEF HandleInv, Detour, Renaming
  <2>1. CASE /\ pc' = [pc EXCEPT ![t] = "leave"]
             /\ UNCHANGED <<modules, module, g_loaded_steamclient, handles>>
    <3>1. HandleInv'
      BY <1>i, <1>t, <2>o, <2>1 DEF HandleInv, Renaming, Detour
    <3> QED
      BY <1>i, <2>1, <3>1 DEF PatchedInv
  <2>2. ASSUME NEW b \in Bases, pc' = [pc EXCEPT ![t] = "restore"],
               module' = [module EXCEPT ![t] = b], g_loaded_steamclient' = b,
               OnlyAt(b), modules'[b].file = "patched", modules'[b].base = "steamclient6p",
               handles'[t][b] > 0
        PROVE  HandleInv' /\ PatchedInv'
    <3>1. \A c \in Addresses : modules[c].file # "patched"
      BY <1>6, LoadPatchedEffect
    <3>2. PatchedInv'
      BY <1>i, <2>2, <3>1 DEF PatchedInv, OnlyAt
    <3>3. HandleInv'
      BY <1>i, <1>t, <2>o, <2>2 DEF HandleInv, Renaming, Detour
    <3> QED
      BY <3>2, <3>3
  <2> QED
    BY <1>6, <2>1, <2>2, LoadPatchedEffect
<1>7. ASSUME NEW t \in Threads, RestoreFullName(t) \/ RestoreBaseName(t)
      PROVE  HandleInv' /\ PatchedInv'
  <2>1. /\ UNCHANGED <<module, handles, g_loaded_steamclient>>
        /\ pc[t] \in {"full_name", "base_name"}
        /\ \E label \in {"base_name", "unlock_loader"} : pc' = [pc EXCEPT ![t] = label]
        /\ \/ modules' = [modules EXCEPT ![module[t]].full = "steamclient64"]
           \/ modules' = [modules EXCEPT ![module[t]].base = "steamclient64"]
    BY <1>7 DEF RestoreFullName, RestoreBaseName
  <2>2. module[t] \in Addresses /\ modules[module[t]].file = "patched"
    BY <1>i, <1>t, <2>1 DEF HandleInv, Renaming
  <2>3. /\ OnlyAt(module[t]) /\ modules'[module[t]].file = modules[module[t]].file
    BY <2>1, <2>2, RenameEffect
  <2>4. modules'[module[t]].base \in {modules[module[t]].base, "steamclient64"}
    BY <1>t, <2>1, <2>2 DEF Module
  <2>5. \A c \in Addresses : modules'[c].file = modules[c].file
    BY <2>3 DEF OnlyAt
  <2>6. PatchedInv'
    BY <1>i, <2>1, <2>2, <2>3, <2>4, <2>5 DEF PatchedInv, OnlyAt
  <2>7. HandleInv'
    BY <1>i, <1>t, <2>1, <2>5 DEF HandleInv, Renaming
  <2> QED
    BY <2>6, <2>7
<1> QED
  BY <1>1, <1>2, <1>3, <1>4, <1>5, <1>6, <1>7 DEF Next, RedirectStep
-------------------------------------------------------------------------------
LEMMA SteamInvariant == Spec => [](TypeOK /\ SteamInv)
<1>1. TypeOK /\ SteamInv /\ [Next]_vars => (TypeOK /\ SteamInv)'
  BY NextTypeSteam, NextLockSteam, NextHandleSteam DEF SteamInv
<1> QED
  BY InitTypeSteam, <1>1, PTL DEF Spec

(* The table of the loader, its two locks, the detour's variables and the     *)
(* threads keep the shapes that steamclient_rdata_patch/main.cpp gives them,  *)
(* whatever fails.                                                            *)
THEOREM TypeCorrect == Spec => []TypeOK
BY SteamInvariant, PTL

(* However many requests for steamclient64.dll meet in hooked_load_library_   *)
(* ex_w, and whatever the game frees between them, the process maps one       *)
(* steamclient6p.dll at most: the handle remembered under g_redirect_lock     *)
(* finds it although its name is gone.                                        *)
THEOREM OneCopyOfThePatchedLibrary == Spec => []OnePatchedCopy
<1>1. SteamInv => OnePatchedCopy
  BY DEF SteamInv, PatchedInv, OnePatchedCopy
<1> QED
  BY <1>1, SteamInvariant, PTL

(* Every request that returns a library gives its caller exactly one          *)
(* reference, as the LoadLibraryExW that it replaces would: a library stays   *)
(* mapped as long as somebody owns it and no longer (GetModuleHandleExW and   *)
(* g_original_load_library_ex_w in hooked_load_library_ex_w).                 *)
THEOREM ReferencesAreBalanced == Spec => []ReferencesBalanced
<1>1. SteamInv => ReferencesBalanced
  BY DEF SteamInv, BalanceInv, ReferencesBalanced
<1> QED
  BY <1>1, SteamInvariant, PTL

-------------------------------------------------------------------------------
(* The names of the module that a thread renames are those that its next step *)
(* expects, and the log tells the names of the patched library whenever       *)
(* nobody is renaming it.                                                     *)
NameIn(labels, t) == IF pc[t] \in labels THEN "steamclient64" ELSE "steamclient6p"
Reported == IF names_restored THEN "steamclient64" ELSE "steamclient6p"

NamesInv ==
  /\ \A b \in Addresses :
       \/ modules[b].full = modules[b].base
       \/ \E t \in Threads : pc[t] = "base_name" /\ module[t] = b
  /\ \A t \in Threads : pc[t] \in Renaming =>
       /\ names_restored <=> pc[t] = "unlock_loader"
       /\ modules[module[t]].full = NameIn({"base_name", "unlock_loader"}, t)
       /\ modules[module[t]].base = NameIn({"unlock_loader"}, t)
  /\ (\A t \in Threads : pc[t] \notin Renaming) =>
       \A b \in Addresses : modules[b].file = "patched" =>
         modules[b].full = Reported /\ modules[b].base = Reported

LEMMA InitNamesSteam == Init => NamesInv
<1> SUFFICES ASSUME Init PROVE NamesInv
  OBVIOUS
<1>1. /\ \A b \in Addresses : modules[b].full = modules[b].base /\ modules[b].file = "none"
      /\ \A t \in Threads : pc[t] = "idle"
  BY SteamclientPatchAssumption DEF Init, Free
<1> QED
  BY <1>1 DEF NamesInv, Renaming

LEMMA NextNamesSteam == TypeOK /\ SteamInv /\ NamesInv /\ [Next]_vars => NamesInv'
<1> SUFFICES ASSUME TypeOK, SteamInv, NamesInv, [Next]_vars PROVE NamesInv'
  OBVIOUS
<1>t. /\ pc \in [Threads \cup {Installer} -> Labels]
      /\ module \in [Threads -> Bases \cup {NoBase}] /\ Bases \subseteq Addresses
      /\ modules \in [Addresses -> Module] /\ names_restored \in BOOLEAN
      /\ Installer \notin Threads /\ NoThread \notin Threads /\ NoBase \notin Addresses
  BY SteamclientPatchAssumption DEF TypeOK, Module, Addresses
<1>i. LockInv /\ HandleInv /\ PatchedInv
  BY DEF SteamInv
<1>o. ASSUME NEW t \in Threads, pc[t] \in Detour
      PROVE  \A u \in Threads : u # t => pc[u] \notin Renaming /\ pc[u] # "base_name"
  BY <1>o, <1>i DEF LockInv, Detour, Renaming
<1>r. ASSUME NEW t \in Threads, pc[t] \in Renaming
      PROVE  /\ module[t] \in Addresses /\ modules[module[t]].file = "patched"
             /\ \A b \in Addresses : modules[b].file = "patched" => b = module[t]
  BY <1>r, <1>i, <1>t DEF HandleInv, PatchedInv
<1>1. CASE UNCHANGED vars
  BY <1>1 DEF vars, NamesInv, NameIn, Reported
<1>2. CASE on_mod_load \/ install_hook
  <2>1. /\ UNCHANGED <<modules, module, names_restored>>
        /\ \A t \in Threads : pc'[t] = pc[t]
    BY <1>2, <1>t DEF on_mod_load, install_hook, InstallStep
  <2> QED
    BY <2>1 DEF NamesInv, NameIn, Reported
<1>3. ASSUME NEW t \in Threads,
             LoadOther(t) \/ LoadRequesting(t) \/ FreeLibrary(t) \/ LoadDirect(t)
      PROVE  NamesInv'
  <2>1. /\ UNCHANGED <<module, names_restored>>
        /\ \A u \in Threads : pc'[u] = pc[u] \/ (pc[u] = "idle" /\ pc'[u] = "enter")
    BY <1>3, <1>t DEF LoadOther, LoadRequesting, FreeLibrary, LoadDirect, MayLoad
  <2>2. \A c \in Addresses :
             \/ Keeps(c)
             \/ /\ modules'[c].file # "patched" /\ modules'[c].full = modules'[c].base
                /\ \A u \in Threads : module[u] # c
    BY <1>3, OthersEffect
  <2>3. \A u \in Threads : pc[u] \in Renaming => Keeps(module[u])
    BY <1>r, <2>2
  <2> QED
    BY <2>1, <2>2, <2>3 DEF NamesInv, NameIn, Reported, Keeps, Renaming
<1>4. ASSUME NEW t \in Threads, UNCHANGED <<modules, names_restored>>,
             pc[t] \notin Renaming,
             \E label \in Labels \ Renaming : pc' = [pc EXCEPT ![t] = label],
             \A u \in Threads : u # t => module'[u] = module[u]
      PROVE  NamesInv'
  BY <1>4, <1>t DEF NamesInv, NameIn, Reported, Renaming
<1>5. ASSUME NEW t \in Threads,
             hooked_load_library_ex_w(t) \/ EnterRedirect(t) \/ LeaveRedirect(t)
               \/ DllMainReturns(t)
      PROVE  NamesInv'
  <2>1. /\ UNCHANGED <<modules, names_restored>> /\ pc[t] \notin Renaming
        /\ \E label \in {"enter", "check", "idle", "dll_main"} : pc' = [pc EXCEPT ![t] = label]
        /\ module' = module \/ module' = [module EXCEPT ![t] = NoBase]
    BY <1>5 DEF hooked_load_library_ex_w, EnterRedirect, LeaveRedirect, DllMainReturns,
                MayLoad, Renaming
  <2>2. \E label \in Labels \ Renaming : pc' = [pc EXCEPT ![t] = label]
    BY <2>1 DEF Labels, Renaming
  <2>3. \A u \in Threads : u # t => module'[u] = module[u]
    BY <1>t, <2>1
  <2> QED
    BY <1>4, <2>1, <2>2, <2>3
<1>6. ASSUME NEW t \in Threads, CheckLoaded(t) PROVE NamesInv'
  <2>1. UNCHANGED names_restored /\ pc[t] = "check"
    BY <1>6 DEF CheckLoaded
  <2>2. \A c \in Addresses : Keeps(c)
    <3>1. CASE UNCHANGED modules
      BY <3>1 DEF Keeps
    <3>2. ASSUME AddReference(t, g_loaded_steamclient), g_loaded_steamclient # NoBase
          PROVE  \A c \in Addresses : Keeps(c)
      <4>1. g_loaded_steamclient \in Addresses
        BY <1>t, <3>2 DEF TypeOK
      <4> QED
        BY <3>2, <4>1, AddReferenceEffect DEF OnlyAt, Keeps
    <3> QED
      BY <1>6, <3>1, <3>2 DEF CheckLoaded
  <2>3. /\ \A u \in Threads : u # t => module'[u] = module[u]
        /\ \E label \in {"leave", "load"} : pc' = [pc EXCEPT ![t] = label]
    BY <1>6, <1>t DEF CheckLoaded
  <2> QED
    BY <1>r, <1>t, <2>1, <2>2, <2>3 DEF NamesInv, NameIn, Reported, Renaming, Keeps
<1>7. ASSUME NEW t \in Threads, LoadPatched(t) PROVE NamesInv'
  <2>o. pc[t] = "load" /\ \A u \in Threads : pc[u] \notin Renaming
    <3>1. pc[t] = "load"
      BY <1>7 DEF LoadPatched
    <3> QED
      BY <1>o, <3>1 DEF Detour, Renaming
  <2>b. \A c \in Addresses : modules[c].full = modules[c].base
    BY <2>o DEF NamesInv, Renaming
  <2>p. \A c \in Addresses : modules[c].file # "patched"
    BY <1>7, LoadPatchedEffect
  <2>1. CASE pc' = [pc EXCEPT ![t] = "leave"] /\ UNCHANGED modules
    BY <1>t, <2>o, <2>b, <2>p, <2>1 DEF NamesInv, Renaming
  <2>2. ASSUME NEW b \in Bases, pc' = [pc EXCEPT ![t] = "restore"],
               module' = [module EXCEPT ![t] = b], OnlyAt(b), names_restored' = FALSE,
               modules'[b].full = "steamclient6p", modules'[b].base = "steamclient6p"
        PROVE  NamesInv'
    <3>1. \A c \in Addresses : modules'[c].full = modules'[c].base
      BY <2>2, <2>b DEF OnlyAt
    <3>2. pc'[t] = "restore" /\ module'[t] = b /\ \A u \in Threads : pc'[u] \in Renaming => u = t
      BY <1>t, <2>o, <2>2
    <3> QED
      BY <2>2, <3>1, <3>2 DEF NamesInv, NameIn, Renaming
  <2>3. names_restored' = FALSE
    BY <1>7, LoadPatchedEffect
  <2> QED
    BY <1>7, <2>1, <2>2, <2>3, LoadPatchedEffect
<1>8. ASSUME NEW t \in Threads,
             LockLoader(t) \/ RestoreFullName(t) \/ RestoreBaseName(t) \/ UnlockLoader(t)
      PROVE  NamesInv'
  <2>o. /\ pc[t] \in Renaming /\ UNCHANGED module
        /\ \A u \in Threads : u # t => pc[u] \notin Renaming /\ pc[u] # "base_name"
    <3>1. pc[t] \in Renaming /\ UNCHANGED module
      BY <1>8 DEF LockLoader, RestoreFullName, RestoreBaseName, UnlockLoader, Renaming
    <3> QED
      BY <1>o, <3>1 DEF Detour
  <2> DEFINE m == module[t]
  <2>m. /\ m \in Addresses
        /\ \A b \in Addresses : modules[b].file = "patched" => b = m
        /\ \A b \in Addresses \ {m} : modules[b].full = modules[b].base
        /\ names_restored <=> pc[t] = "unlock_loader"
    BY <1>r, <2>o DEF NamesInv
  <2>1. CASE LockLoader(t)
    <3>1. /\ pc[t] = "restore" /\ UNCHANGED <<modules, names_restored>>
          /\ \E label \in {"full_name", "leave"} : pc' = [pc EXCEPT ![t] = label]
      BY <1>r, <2>o, <2>1 DEF LockLoader, Mapped
    <3>2. modules[m].full = "steamclient6p" /\ modules[m].base = "steamclient6p"
      BY <3>1 DEF NamesInv, NameIn, Renaming
    <3> HIDE DEF m
    <3> QED
      BY <1>t, <2>o, <2>m, <3>1, <3>2 DEF NamesInv, NameIn, Reported, Renaming, m
  <2>2. CASE RestoreFullName(t)
    <3>1. /\ pc[t] = "full_name" /\ UNCHANGED names_restored
          /\ pc' = [pc EXCEPT ![t] = "base_name"]
          /\ modules' = [modules EXCEPT ![m].full = "steamclient64"]
      BY <2>2 DEF RestoreFullName
    <3>2. modules[m].base = "steamclient6p"
      BY <3>1 DEF NamesInv, NameIn, Renaming
    <3>3. /\ OnlyAt(m) /\ modules'[m].full = "steamclient64"
          /\ modules'[m].base = "steamclient6p"
      <4>1. OnlyAt(m)
        BY <2>m, <3>1, RenameEffect
      <4>2. modules[m] \in Module
        BY <1>t, <2>m
      <4>3. modules'[m] = [modules[m] EXCEPT !.full = "steamclient64"]
        BY <1>t, <2>m, <3>1
      <4> QED
        BY <3>2, <4>1, <4>2, <4>3 DEF Module
    <3>4. pc'[t] = "base_name" /\ \A u \in Threads : u # t => pc'[u] \notin Renaming
      BY <1>t, <2>o, <3>1
    <3> QED
      BY <2>o, <2>m, <3>1, <3>3, <3>4 DEF NamesInv, NameIn, Renaming, OnlyAt
  <2>3. CASE RestoreBaseName(t)
    <3>1. /\ pc[t] = "base_name" /\ names_restored' = TRUE
          /\ pc' = [pc EXCEPT ![t] = "unlock_loader"]
          /\ modules' = [modules EXCEPT ![m].base = "steamclient64"]
      BY <2>3 DEF RestoreBaseName
    <3>2. modules[m].full = "steamclient64"
      BY <3>1 DEF NamesInv, NameIn, Renaming
    <3>3. /\ OnlyAt(m) /\ modules'[m].full = "steamclient64"
          /\ modules'[m].base = "steamclient64"
      <4>1. OnlyAt(m)
        BY <2>m, <3>1, RenameEffect
      <4>2. modules[m] \in Module
        BY <1>t, <2>m
      <4>3. modules'[m] = [modules[m] EXCEPT !.base = "steamclient64"]
        BY <1>t, <2>m, <3>1
      <4> QED
        BY <3>2, <4>1, <4>2, <4>3 DEF Module
    <3>4. pc'[t] = "unlock_loader" /\ \A u \in Threads : u # t => pc'[u] \notin Renaming
      BY <1>t, <2>o, <3>1
    <3> QED
      BY <2>o, <2>m, <3>1, <3>3, <3>4 DEF NamesInv, NameIn, Renaming, OnlyAt
  <2>4. CASE UnlockLoader(t)
    <3>1. /\ pc[t] = "unlock_loader" /\ UNCHANGED modules
          /\ pc' = [pc EXCEPT ![t] = "leave"] /\ UNCHANGED names_restored
      BY <2>4 DEF UnlockLoader
    <3>2. modules[m].full = "steamclient64" /\ modules[m].base = "steamclient64"
      BY <3>1 DEF NamesInv, NameIn, Renaming
    <3> HIDE DEF m
    <3> QED
      BY <1>t, <2>o, <2>m, <3>1, <3>2 DEF NamesInv, NameIn, Reported, Renaming
  <2> QED
    BY <1>8, <2>1, <2>2, <2>3, <2>4
<1> QED
  BY <1>1, <1>2, <1>3, <1>5, <1>6, <1>7, <1>8 DEF Next, RedirectStep

(* Whoever takes the loader's lock sees a module under two equal names, and   *)
(* between redirected requests the patched library is known by the names that *)
(* the log reports (restore_original_loader_names under LdrLockLoaderLock).   *)
THEOREM NamesAreRestored == Spec => []NamesRestored
<1>1. TypeOK /\ SteamInv /\ NamesInv => NamesRestored
  <2> SUFFICES ASSUME TypeOK, SteamInv, NamesInv PROVE NamesRestored
    OBVIOUS
  <2>1. ASSUME loader_lock = NoThread \/ pc[loader_lock] # "base_name"
        PROVE  \A b \in Addresses : modules[b].full = modules[b].base
    BY <2>1, SteamclientPatchAssumption DEF SteamInv, LockInv, NamesInv, Renaming
  <2>2. ASSUME g_redirect_lock = NoThread
        PROVE  \A t \in Threads : pc[t] \notin Renaming
    BY <2>2, SteamclientPatchAssumption DEF SteamInv, LockInv, Detour
  <2> QED
    BY <2>1, <2>2 DEF NamesRestored, NamesInv, Reported
<1>2. Spec => []NamesInv
  BY InitNamesSteam, NextNamesSteam, SteamInvariant, PTL DEF Spec
<1> QED
  BY <1>1, <1>2, SteamInvariant, PTL

-------------------------------------------------------------------------------
(* A remembered handle is the patched library or is mapped no longer: nothing *)
(* else came to lie at its address.                                           *)
StaleInv == g_loaded_steamclient # NoBase =>
              modules[g_loaded_steamclient].file \in {"none", "patched"}

LEMMA NextStaleSteam ==
  ASSUME Bases \cap OtherBases = {}
  PROVE  TypeOK /\ SteamInv /\ StaleInv /\ [Next]_vars => StaleInv'
<1> SUFFICES ASSUME TypeOK, SteamInv, StaleInv, [Next]_vars PROVE StaleInv'
  OBVIOUS
<1>t. /\ Bases \subseteq Addresses /\ NoBase \notin Addresses
      /\ modules \in [Addresses -> Module] /\ g_loaded_steamclient \in Bases \cup {NoBase}
      /\ module \in [Threads -> Bases \cup {NoBase}]
  BY SteamclientPatchAssumption DEF TypeOK, Module, Addresses
<1>i. HookInv /\ HandleInv /\ BalanceInv
  BY DEF SteamInv
<1>s. ASSUME UNCHANGED g_loaded_steamclient,
             \A b \in Bases : modules'[b].file = modules[b].file
      PROVE  StaleInv'
  BY <1>s, <1>t DEF StaleInv
<1>1. CASE UNCHANGED vars \/ on_mod_load \/ install_hook
  <2>1. UNCHANGED <<modules, g_loaded_steamclient>>
    BY <1>1 DEF vars, steamVars, on_mod_load, install_hook, InstallStep
  <2> QED
    BY <1>s, <2>1
<1>2. ASSUME NEW t \in Threads, LoadOther(t) \/ LoadRequesting(t) PROVE StaleInv'
  <2>1. /\ UNCHANGED g_loaded_steamclient
        /\ \E b \in OtherBases : LoadAt(t, b, Loaded("other", "other"))
    BY <1>2 DEF LoadOther, LoadRequesting
  <2>2. PICK b \in OtherBases : OnlyAt(b)
    BY <2>1, LoadAtEffect DEF Addresses, Names
  <2> QED
    BY <1>s, <1>t, <2>1, <2>2 DEF OnlyAt
<1>3. ASSUME NEW t \in Threads, FreeLibrary(t) PROVE StaleInv'
  <2>1. UNCHANGED g_loaded_steamclient
    BY <1>3 DEF FreeLibrary
  <2>2. PICK b \in Addresses : FreeAt(t, b)
    BY <1>3 DEF FreeLibrary, FreeAt
  <2>3. OnlyAt(b) /\ modules'[b].file \in {modules[b].file, "none"}
    BY <1>i, <2>2, FreeEffect DEF Free
  <2> QED
    BY <1>t, <2>1, <2>3 DEF StaleInv, OnlyAt
<1>4. ASSUME NEW t \in Threads, LoadDirect(t) PROVE StaleInv'
  BY <1>4, <1>i DEF LoadDirect, HookInv, StaleInv
<1>5. ASSUME NEW t \in Threads, CheckLoaded(t) PROVE StaleInv'
  <2>1. CASE g_loaded_steamclient # NoBase /\ AddReference(t, g_loaded_steamclient)
             /\ UNCHANGED g_loaded_steamclient
    <3>1. g_loaded_steamclient \in Addresses
      BY <1>t, <2>1
    <3>2. modules'[g_loaded_steamclient].file = modules[g_loaded_steamclient].file
      BY <2>1, <3>1, AddReferenceEffect
    <3> QED
      BY <2>1, <3>2 DEF StaleInv
  <2> QED
    BY <1>5, <2>1 DEF CheckLoaded, StaleInv
<1>6. ASSUME NEW t \in Threads, LoadPatched(t) PROVE StaleInv'
  BY <1>6, LoadPatchedEffect DEF StaleInv
<1>7. ASSUME NEW t \in Threads, RestoreFullName(t) \/ RestoreBaseName(t) PROVE StaleInv'
  <2>1. module[t] \in Addresses /\ UNCHANGED g_loaded_steamclient
    BY <1>7, <1>i, <1>t DEF HandleInv, Renaming, RestoreFullName, RestoreBaseName
  <2>2. OnlyAt(module[t]) /\ modules'[module[t]].file = modules[module[t]].file
    BY <1>7, <2>1, RenameEffect DEF RestoreFullName, RestoreBaseName
  <2> QED
    BY <1>s, <1>t, <2>1, <2>2 DEF OnlyAt
<1>8. ASSUME NEW t \in Threads,
             hooked_load_library_ex_w(t) \/ EnterRedirect(t) \/ LockLoader(t)
               \/ UnlockLoader(t) \/ LeaveRedirect(t) \/ DllMainReturns(t)
      PROVE  StaleInv'
  <2>1. UNCHANGED <<modules, g_loaded_steamclient>>
    BY <1>8 DEF hooked_load_library_ex_w, EnterRedirect, LockLoader, UnlockLoader,
                LeaveRedirect, DllMainReturns
  <2> QED
    BY <1>s, <2>1
<1> QED
  BY <1>1, <1>2, <1>3, <1>4, <1>5, <1>6, <1>7, <1>8 DEF Next, RedirectStep

(* A request for steamclient64.dll returns steamclient6p.dll or nothing, as   *)
(* long as the system maps no other library where Steam's once lay: the code  *)
(* checks a remembered handle by its address alone (hooked_load_library_ex_w, *)
(* g_loaded_steamclient), and without the hypothesis the run                  *)
(* MCSteamclientPatchReuse refutes the property.                              *)
THEOREM RedirectsToThePatchedLibrary ==
  ASSUME Bases \cap OtherBases = {}
  PROVE  Spec => []RedirectedToPatched
<1>1. Init => StaleInv
  BY DEF Init, StaleInv
<1>2. TypeOK /\ SteamInv /\ StaleInv => RedirectedToPatched
  <2> SUFFICES ASSUME TypeOK, SteamInv, StaleInv, NEW t \in Threads,
                      pc[t] = "leave", module[t] # NoBase
               PROVE  modules[module[t]].file = "patched"
    BY DEF RedirectedToPatched
  <2>1. module[t] \in Addresses
    BY DEF TypeOK, Addresses
  <2>2. module[t] = g_loaded_steamclient /\ handles[t][module[t]] > 0
    BY DEF SteamInv, HandleInv
  <2>3. Mapped(module[t])
    BY <2>1, <2>2, OwnedIsMapped DEF SteamInv
  <2> QED
    BY <2>2, <2>3 DEF StaleInv, Mapped
<1>3. TypeOK /\ SteamInv /\ StaleInv /\ [Next]_vars => StaleInv'
  BY NextStaleSteam
<1>4. Spec => []StaleInv
  BY <1>1, <1>3, SteamInvariant, PTL DEF Spec
<1> QED
  BY <1>2, <1>4, SteamInvariant, PTL

-------------------------------------------------------------------------------
(* A thread of the game can wait at EnterCriticalSection for g_redirect_lock, *)
(* and in each call of the loader for loader_lock.                            *)
WaitsFor(t, u) ==
  \/ At(t, "enter") /\ g_redirect_lock = u
  \/ pc[t] \in {"idle", "check", "load", "restore"} /\ loader_lock = u /\ u # t

(* There is one way only for threads to wait for each other. The owner of     *)
(* g_redirect_lock may want the lock of the loader, whose owner is renaming   *)
(* and waits for nobody, or is in a DllMain. Of three threads that wait, one  *)
(* for the next, one is therefore a DllMain whose request waits for           *)
(* g_redirect_lock, whose owner waits for that DllMain: the deadlock that the *)
(* code can meet, since hooked_load_library_ex_w keeps g_redirect_lock over   *)
(* its own calls of the loader. Requests from outside a DllMain take the two  *)
(* locks in one order and cannot block each other.                            *)
THEOREM OnlyDllMainsDeadlock ==
  Spec => [](\A t, u, v, w \in Threads :
               WaitsFor(t, u) /\ WaitsFor(u, v) /\ WaitsFor(v, w) =>
                 DllMainDeadlock /\ dll_main \in {u, v} /\ w = u)
<1>1. ASSUME TypeOK, SteamInv, NEW t \in Threads, NEW u \in Threads, NEW v \in Threads,
             NEW w \in Threads, WaitsFor(t, u), WaitsFor(u, v), WaitsFor(v, w)
      PROVE  DllMainDeadlock /\ dll_main \in {u, v} /\ w = u
  <2> USE DEF LockInv, Detour, Renaming
  <2>i. LockInv
    BY <1>1 DEF SteamInv
  <2>1. CASE pc[u] \in {"check", "load", "restore"} /\ loader_lock = v /\ v # u
    <3>1. g_redirect_lock = u /\ pc[v] \notin Detour
      BY <2>i, <2>1
    <3>2. dll_main = v /\ pc[v] = "enter" /\ w = u
      BY <1>1, <2>i, <2>1, <3>1 DEF WaitsFor
    <3> QED
      BY <2>1, <3>1, <3>2 DEF DllMainDeadlock
  <2>2. CASE pc[u] = "enter" /\ g_redirect_lock = v
    <3>1. loader_lock = u /\ dll_main = u
      BY <1>1, <2>i, <2>2 DEF WaitsFor
    <3>2. pc[v] \in {"check", "load", "restore"} /\ w = u
      BY <1>1, <2>i, <2>2, <3>1 DEF WaitsFor
    <3> QED
      BY <2>2, <3>1, <3>2 DEF DllMainDeadlock
  <2>3. pc[u] # "idle"
    BY <1>1, <2>i DEF WaitsFor
  <2> QED
    BY <1>1, <2>1, <2>2, <2>3 DEF WaitsFor
<1>2. TypeOK /\ SteamInv =>
        \A t, u, v, w \in Threads :
          WaitsFor(t, u) /\ WaitsFor(u, v) /\ WaitsFor(v, w) =>
            DllMainDeadlock /\ dll_main \in {u, v} /\ w = u
  BY <1>1
<1> QED
  BY <1>2, SteamInvariant, PTL
===============================================================================
