-------------------------------- MODULE ElfImage --------------------------------
(***************************************************************************)
(* One guest library in memory: elf32_map reserves and fills it,           *)
(* elf32_relocate links it (runtime/src/elf32_loader.c), the patches of    *)
(* runtime/src/jni_bridge.c are written, guest code runs or the image is   *)
(* unmapped.  Addresses wrap at WordSize (2^32 in the code), a word is the *)
(* unit of memory, and each page has rights that an access must respect.   *)
(***************************************************************************)
EXTENDS SymbolLookup

CONSTANTS WordSize, (* number of addresses                                 *)
          Page,     (* words in a page of the host                         *)
          Files,    (* library files                                       *)
          Home      (* Home[p]: where provider p has its symbol, for       *)
                    (* "wrapper" the wrapper of an FMOD entry              *)

Address == 0..WordSize - 1
PageNumber == 0..(WordSize \div Page) - 1
Right == {"R", "W", "X"}

\* A file, as far as the loader looks at it: `index`, its place in link order,
\* and `app`, whether it is libapp; `loads`, its PT_LOAD headers, each with the
\* words the file has from its offset on; `meta`, the ranges elf32_map reads in
\* the image (program headers, PT_DYNAMIC, strings); `symtab`, the hash and symbol
\* tables; `tables`, REL and PLT REL; `relocs`, the relocations of both; `patch`,
\* the words patched, and `known`, whether they are the ones the patch expects.
Load == [vaddr : Address, memsz : Address, filesz : Address, flags : SUBSET Right,
         words : Seq(Address)]
Place == [vaddr : Address, length : Nat]
Symbol == [defined : {"no", "image", "abs", "tls", "bad"}, value : Address,
           exporters : SUBSET Nat, offers : SUBSET (Open \cup {"softfp", "eglproc"}),
           softfp : BOOLEAN, bionic : BOOLEAN, gl : BOOLEAN, weak : BOOLEAN, wrapped : BOOLEAN]
Relocation == [type : {"relative", "abs32", "glob_dat", "jump_slot", "copy"},
               offset : Address, symbol : Symbol]
File == [index : Nat, app : BOOLEAN, loads : Seq(Load), meta : Seq(Place), symtab : Seq(Place),
         tables : Seq(Place), relocs : Seq(Relocation), patch : SUBSET Address, known : BOOLEAN]

\* Functions of different providers are at different places.
ASSUME ElfImageAssumption ==
    /\ WordSize \in Nat \ {0} /\ Page \in 1..WordSize /\ WordSize % Page = 0
    /\ Files \subseteq File
    /\ DOMAIN Home = Open \cup {"guest", "softfp", "eglproc", "wrapper", "patch"}
    /\ \A p \in DOMAIN Home : Home[p] \in Address \ {0}
    /\ \A p, q \in DOMAIN Home : Home[p] = Home[q] => p = q

VARIABLES file,
          stage,      (* how far the image is                              *)
          at,         (* the segment or relocation the stage is at         *)
          start, low, size, (* mapping, virtual_base, mapping_size         *)
          rights,     (* rights[p]: protection of page p                   *)
          mem,        (* mem[a]: the word at address a                     *)
          status,     (* what elf32_relocate is about to return            *)
          unresolved, (* stats->unresolved                                 *)
          behind,     (* guest_set_output and the like: what is wrapped    *)
          reported    (* symbols the census reported                       *)

layoutVars == <<start, low, size>>
linkVars == <<status, unresolved, behind, reported>>
vars == <<file, stage, at, layoutVars, rights, mem, linkVars>>

Init ==
    /\ file \in Files
    /\ stage = "open" /\ at = 1
    /\ start = 0 /\ low = 0 /\ size = 0
    /\ rights = [p \in PageNumber |-> {}] /\ mem = [a \in Address |-> 0]
    /\ status = 0 /\ unresolved = 0 /\ behind = 0 /\ reported = {}
-----------------------------------------------------------------------------
(* Address arithmetic.                                                     *)

AlignDown(v) == v - (v % Page)
CanAlignUp(v) == v <= WordSize - Page
AlignUp(v) == AlignDown(v + Page - 1)

\* Mutant of InImage: the length is not looked at.
InImageStart(a, n) ==
    LET end == (start + size) % WordSize
    IN  end >= start /\ a >= start /\ a <= end

\* range_in_image
InImage(a, n) ==
    LET end == (start + size) % WordSize
    IN  end >= start /\ a >= start /\ a <= end /\ n <= end - a

\* load_bias + v
Biased(v) == (start + (WordSize - low) + v) % WordSize

\* Segments that occupy memory; their pages in the image.
Loads == {l \in DOMAIN file.loads : file.loads[l].memsz # 0}
PagesOf(load) ==
    AlignDown(Biased(load.vaddr)) \div Page
        .. (AlignUp(Biased(load.vaddr + load.memsz)) \div Page) - 1

\* mprotect over the pages of a segment.
Protect(load, how) ==
    rights' = [p \in PageNumber |-> IF p \in PagesOf(load) THEN how ELSE rights[p]]

\* n words from address a on may be accessed as `need` asks.
Permits(a, n, need) == \A b \in a..a + n - 1 : need \subseteq rights[b \div Page]

Goto(next) == stage' = next /\ at' = 1

\* An access without the right to it: SIGSEGV.
Crash == Goto("crashed") /\ UNCHANGED <<file, layoutVars, rights, mem, linkVars>>

\* elf32_unmap
Unmapped ==
    /\ Goto("released")
    /\ start' = 0 /\ low' = 0 /\ size' = 0
    /\ rights' = [p \in PageNumber |-> {}] /\ mem' = [a \in Address |-> 0]
-----------------------------------------------------------------------------
(* elf32_map                                                               *)

ValidLoad(load) ==
    /\ load.filesz <= load.memsz
    /\ load.memsz <= WordSize - 1 - load.vaddr
    /\ load.filesz <= Len(load.words)
    /\ CanAlignUp(load.vaddr + load.memsz)

\* The headers are sound and the address space has a place for the image;
\* the kernel chooses it and never at either end.
Reserve ==
    /\ stage = "open"
    /\ file.loads # <<>>
    /\ \A l \in DOMAIN file.loads : ValidLoad(file.loads[l])
    /\ LET first == Min({AlignDown(file.loads[l].vaddr) : l \in DOMAIN file.loads})
           last == Max({AlignUp(file.loads[l].vaddr + file.loads[l].memsz) :
                           l \in DOMAIN file.loads})
       IN  /\ first < last
           /\ low' = first /\ size' = last - first
           /\ \E p \in PageNumber \ {0} :
                  p * Page + (last - first) < WordSize /\ start' = p * Page
    /\ Goto("fill")
    /\ UNCHANGED <<file, rights, mem, linkVars>>

\* One PT_LOAD is made writable and its file part copied.
Fill ==
    /\ stage = "fill" /\ at <= Len(file.loads)
    /\ at' = at + 1
    /\ LET load == file.loads[at] IN
         IF load.memsz = 0 THEN UNCHANGED <<rights, mem>>
         ELSE /\ CanAlignUp(Biased(load.vaddr + load.memsz))
              /\ Protect(load, {"R", "W"})
              /\ mem' = [a \in Address |->
                           LET v == a - Biased(load.vaddr)
                           IN  IF v \in 0..load.filesz - 1 THEN load.words[v + 1] ELSE mem[a]]
    /\ UNCHANGED <<file, stage, layoutVars, linkVars>>

\* Ranges of the file, moved to where the image is.
AllInImage(ranges) ==
    \A r \in Range(ranges) : InImage(Biased(r.vaddr), r.length)
AllReadable(ranges) ==
    \A r \in Range(ranges) : Permits(Biased(r.vaddr), r.length, {"R"})

\* Program headers, PT_DYNAMIC and the strings are taken from the image.
Accept ==
    /\ stage = "fill" /\ at > Len(file.loads)
    /\ AllInImage(file.meta)
    /\ IF AllReadable(file.meta)
       THEN Goto("seal") /\ UNCHANGED <<file, layoutVars, rights, mem, linkVars>>
       ELSE Crash

\* protect_segments, at the end of elf32_map and of elf32_relocate.
Seal ==
    /\ stage \in {"seal", "restore"} /\ at <= Len(file.loads)
    /\ at' = at + 1
    /\ IF file.loads[at].memsz = 0 THEN UNCHANGED rights
       ELSE /\ CanAlignUp(Biased(file.loads[at].vaddr + file.loads[at].memsz))
            /\ Protect(file.loads[at], file.loads[at].flags)
    /\ UNCHANGED <<file, stage, layoutVars, mem, linkVars>>

Mapped ==
    /\ stage = "seal" /\ at > Len(file.loads)
    /\ Goto("mapped")
    /\ UNCHANGED <<file, layoutVars, rights, mem, linkVars>>

\* Every way elf32_map fails ends with nothing mapped: a refused file, a
\* range outside the image, mmap or mprotect.
MapFails ==
    /\ stage \in {"open", "fill", "seal"}
    /\ Unmapped
    /\ UNCHANGED <<file, linkVars>>
-----------------------------------------------------------------------------
(* The census, which changes nothing in the image.                         *)

\* Relocations that name a symbol, and the imports among these.
Symbolic == {"abs32", "glob_dat", "jump_slot"}
Imports ==
    {r.symbol : r \in {q \in Range(file.relocs) : q.type \in Symbolic /\ q.symbol.defined = "no"}}

TakeCensus ==
    /\ stage = "mapped"
    /\ AllInImage(file.symtab)
    /\ IF AllReadable(file.symtab)
       THEN /\ reported' = {s \in Imports : Reported(s)}
            /\ Goto("counted")
            /\ UNCHANGED <<file, layoutVars, rights, mem, status, unresolved, behind>>
       ELSE Crash
-----------------------------------------------------------------------------
(* elf32_relocate                                                          *)

\* parse_relocation_info succeeds.
Parse ==
    /\ stage = "counted"
    /\ AllInImage(file.symtab) /\ AllInImage(file.tables)
    /\ IF AllReadable(file.symtab)
       THEN /\ status' = 0 /\ unresolved' = 0
            /\ Goto("unseal")
            /\ UNCHANGED <<file, layoutVars, rights, mem, behind, reported>>
       ELSE Crash

\* set_segments_writable
Unseal ==
    /\ stage = "unseal" /\ at <= Len(file.loads)
    /\ at' = at + 1
    /\ IF file.loads[at].memsz = 0 THEN UNCHANGED rights
       ELSE /\ CanAlignUp(Biased(file.loads[at].vaddr + file.loads[at].memsz))
            /\ Protect(file.loads[at], {"R", "W"})
    /\ UNCHANGED <<file, stage, layoutVars, mem, linkVars>>

Unsealed ==
    /\ stage = "unseal" /\ at > Len(file.loads)
    /\ Goto("apply")
    /\ UNCHANGED <<file, layoutVars, rights, mem, linkVars>>

\* The FMOD entries of an earlier image reach libapp through a wrapper.
Wraps(s) == file.app /\ s.wrapped /\ Provider(s, file.index) = "guest"

\* relocation_symbol: its value, 0 when nobody has it.
Value(s) ==
    CASE s.defined = "image" -> Biased(s.value)
      [] s.defined = "abs" -> s.value
      [] Wraps(s) -> Home["wrapper"]
      [] OTHER -> IF Provider(s, file.index) \in DOMAIN Home
                  THEN Home[Provider(s, file.index)] ELSE 0

Missing(r) == r.type \in Symbolic /\ r.symbol.defined = "no" /\ Unresolved(r.symbol, file.index)
Refused(r) ==
    \/ ~InImage(Biased(r.offset), 1)
    \/ r.type \notin Symbolic \cup {"relative"}
    \/ r.type \in Symbolic /\ r.symbol.defined \in {"tls", "bad"}

\* What relocation r makes of the word it finds, the addend.
Relocated(r, addend) ==
    CASE r.type = "relative" -> Biased(addend)
      [] r.type = "abs32" -> (Value(r.symbol) + addend) % WordSize
      [] OTHER -> Value(r.symbol)

\* Mutants of Apply: an unresolved symbol is not skipped, ...
ApplyZero ==
    /\ stage = "apply" /\ at <= Len(file.relocs)
    /\ LET r == file.relocs[at]
           target == Biased(r.offset)
       IN  /\ ~Refused(r)
           /\ AllReadable(file.tables) /\ Permits(target, 1, {"R", "W"})
           /\ mem' = [mem EXCEPT ![target] = Relocated(r, @)]
           /\ unresolved' = unresolved + (IF Missing(r) THEN 1 ELSE 0)
    /\ at' = at + 1
    /\ UNCHANGED <<file, stage, layoutVars, rights, status, behind, reported>>

\* ... the wrapper is put in place before the entry behind it is kept.
ApplyWrapFirst ==
    /\ stage = "apply" /\ at <= Len(file.relocs)
    /\ LET r == file.relocs[at]
           target == Biased(r.offset)
       IN  /\ ~Refused(r)
           /\ AllReadable(file.tables) /\ Permits(target, 1, {"R", "W"})
           /\ IF Missing(r)
              THEN unresolved' = unresolved + 1 /\ UNCHANGED <<mem, behind>>
              ELSE /\ mem' = [mem EXCEPT ![target] = Relocated(r, @)]
                   /\ behind' = IF r.type \in Symbolic /\ r.symbol.defined = "no" /\ Wraps(r.symbol)
                                THEN Value(r.symbol) ELSE behind
                   /\ UNCHANGED unresolved
    /\ at' = at + 1
    /\ UNCHANGED <<file, stage, layoutVars, rights, status, reported>>

\* apply_relocations: one relocation.  A word nobody has a value for is left
\* as it is, and counted.
Apply ==
    /\ stage = "apply" /\ at <= Len(file.relocs)
    /\ LET r == file.relocs[at]
           target == Biased(r.offset)
       IN  /\ ~Refused(r)
           /\ AllReadable(file.tables) /\ Permits(target, 1, {"R", "W"})
           /\ IF Missing(r)
              THEN unresolved' = unresolved + 1 /\ UNCHANGED <<mem, behind>>
              ELSE /\ mem' = [mem EXCEPT ![target] = Relocated(r, @)]
                   /\ behind' = IF r.type \in Symbolic /\ r.symbol.defined = "no" /\ Wraps(r.symbol)
                                THEN Home["guest"] ELSE behind
                   /\ UNCHANGED unresolved
    /\ at' = at + 1
    /\ UNCHANGED <<file, stage, layoutVars, rights, status, reported>>

\* A table or a word to relocate where the image has no page.
ApplyCrashes ==
    /\ stage = "apply" /\ at <= Len(file.relocs)
    /\ \/ ~AllReadable(file.tables)
       \/ /\ InImage(Biased(file.relocs[at].offset), 1)
          /\ ~Permits(Biased(file.relocs[at].offset), 1, {"R", "W"})
    /\ Crash

\* goto protect: the relocations before a refused one stay written.
ApplyFails ==
    /\ stage = "apply" /\ at <= Len(file.relocs)
    /\ AllReadable(file.tables) /\ Refused(file.relocs[at])
    /\ status' = 1
    /\ Goto("restore")
    /\ UNCHANGED <<file, layoutVars, rights, mem, unresolved, behind, reported>>

\* Mutant of Applied: the segments stay writable.
AppliedUnsealed ==
    /\ stage = "apply" /\ at > Len(file.relocs)
    /\ Goto("linked")
    /\ UNCHANGED <<file, layoutVars, rights, mem, linkVars>>

Applied ==
    /\ stage = "apply" /\ at > Len(file.relocs)
    /\ Goto("restore")
    /\ UNCHANGED <<file, layoutVars, rights, mem, linkVars>>

Returns ==
    /\ stage = "restore" /\ at > Len(file.loads)
    /\ Goto(IF status = 0 THEN "linked" ELSE "failed")
    /\ UNCHANGED <<file, layoutVars, rights, mem, linkVars>>

\* Tables outside the image, or an mprotect that fails: elf32_relocate
\* returns at once, with the segments as they are.  The census can fail too.
LinkFails ==
    /\ \/ stage \in {"mapped", "counted"} /\ ~AllInImage(file.symtab)
       \/ stage = "counted" /\ ~AllInImage(file.tables)
       \/ stage \in {"unseal", "restore"} /\ at <= Len(file.loads)
    /\ Goto("failed")
    /\ UNCHANGED <<file, layoutVars, rights, mem, linkVars>>
-----------------------------------------------------------------------------
(* The patches, and the end.                                               *)

PatchPages == {Biased(v) \div Page : v \in file.patch}

\* The words to replace are in an image that is long enough, and are the known
\* ones; their pages become writable.
OpenPatch ==
    /\ stage = "linked" /\ file.patch # {}
    /\ \A v \in file.patch : v + 1 <= size
    /\ IF \A v \in file.patch : Permits(Biased(v), 1, {"R"})
       THEN /\ file.known
            /\ rights' = [p \in PageNumber |-> IF p \in PatchPages THEN Right ELSE rights[p]]
            /\ Goto("patch")
            /\ UNCHANGED <<file, layoutVars, mem, linkVars>>
       ELSE Crash

\* The word is written and its page is readable and executable again.
WritePatch ==
    /\ stage = "patch"
    /\ mem' = [a \in Address |-> IF \E v \in file.patch : Biased(v) = a
                                 THEN Home["patch"] ELSE mem[a]]
    /\ rights' = [p \in PageNumber |-> IF p \in PatchPages THEN {"R", "X"} ELSE rights[p]]
    /\ Goto("patched")
    /\ UNCHANGED <<file, layoutVars, linkVars>>

\* Unknown words, or mprotect before or after the write.
PatchFails ==
    /\ \/ stage = "linked" /\ file.patch # {}
       \/ stage = "patch"
    /\ Goto("failed")
    /\ UNCHANGED <<file, layoutVars, rights, mem, linkVars>>

\* Constructors are refused while a relocation is unresolved.
Run ==
    /\ \/ stage = "patched"
       \/ stage = "linked" /\ file.patch = {}
    /\ unresolved = 0
    /\ Goto("running")
    /\ UNCHANGED <<file, layoutVars, rights, mem, linkVars>>

\* main() unmaps every image when no guest code has run.
Release ==
    /\ stage \in {"mapped", "counted", "linked", "patched", "failed"}
    /\ Unmapped
    /\ UNCHANGED <<file, linkVars>>

Next ==
    \/ Reserve \/ Fill \/ Accept \/ Seal \/ Mapped \/ MapFails \/ TakeCensus
    \/ Parse \/ Unseal \/ Unsealed \/ Apply \/ ApplyCrashes \/ ApplyFails
    \/ Applied \/ Returns \/ LinkFails
    \/ OpenPatch \/ WritePatch \/ PatchFails \/ Run \/ Release

Spec == Init /\ [][Next]_vars
-----------------------------------------------------------------------------
(* What the file declares, in its own addresses.                           *)

\* The last segment on a page of the image decides about it.
LoadsOn(p) == {l \in Loads : p \in PagesOf(file.loads[l])}
Declared(p) == IF LoadsOn(p) = {} THEN {} ELSE file.loads[Max(LoadsOn(p))].flags

\* The range is in the reservation, but some word of it is on a page whose
\* segments do not allow `need`, or on a page no segment has.
Within(v, n) == v >= low /\ v + n <= low + size
Unreadable(v, n) == Within(v, n) /\ \E x \in v..v + n - 1 : "R" \notin Declared(Biased(x) \div Page)
InHole(v, n) == Within(v, n) /\ \E x \in v..v + n - 1 : LoadsOn(Biased(x) \div Page) = {}

Gap ==
    \/ \E r \in Range(file.meta) \cup Range(file.tables) : InHole(r.vaddr, r.length)
    \/ \E r \in Range(file.symtab) : Unreadable(r.vaddr, r.length)
    \/ \E r \in Range(file.relocs) : InHole(r.offset, 1)
    \/ \E v \in file.patch : v < low \/ Unreadable(v, 1)

\* The word at v as the file has it, and as it is once linked.
Loaded(v) ==
    LET from == {l \in Loads : v - file.loads[l].vaddr \in 0..file.loads[l].filesz - 1}
    IN  IF from = {} THEN 0
        ELSE LET load == file.loads[Max(from)] IN load.words[v - load.vaddr + 1]

Linked(v) ==
    IF \E r \in Range(file.relocs) : r.offset = v /\ ~Missing(r)
    THEN Relocated(CHOOSE r \in Range(file.relocs) : r.offset = v, Loaded(v))
    ELSE Loaded(v)

\* The linker leaves a word to one relocation; the loader does not look.
OnePerWord ==
    \A i, j \in DOMAIN file.relocs : file.relocs[i].offset = file.relocs[j].offset => i = j

Returned == stage \in {"linked", "patch", "patched", "running"}
-----------------------------------------------------------------------------
\* The range check covers the whole reservation, the holes between segments
\* too: an accepted module crashes the loader only if it has a table, a
\* relocation or a patched word in a hole, or in a segment it may not read; or
\* if it does not begin at 0, as the patches take for granted.
CrashOnlyInGap == stage = "crashed" => Gap

\* After elf32_map and after elf32_relocate, and when guest code runs, every
\* page has the rights of the last segment on it, whatever happened while the
\* image was writable; a patched page does if it was text.  A released image
\* has no page left.
PagesAsDeclared ==
    /\ stage \in {"mapped", "counted", "linked", "patched", "running"} =>
          \A p \in PageNumber :
              p \notin PatchPages \/ Declared(p) = {"R", "X"} => rights[p] = Declared(p)
    /\ stage = "released" => \A p \in PageNumber : rights[p] = {}

\* When elf32_relocate returns 0 each word is what one pass over a fresh copy
\* makes of it, wherever the image is and however its addresses wrap: words
\* of unresolved symbols are the file's, every relocation is applied once,
\* and guest code runs only if none was left out.
LinkedAsSpecified ==
    /\ Returned =>
          unresolved = Quantify(DOMAIN file.relocs, LAMBDA i : Missing(file.relocs[i]))
    /\ Returned /\ OnePerWord =>
          \A l \in Loads :
              \A v \in file.loads[l].vaddr..file.loads[l].vaddr + file.loads[l].memsz - 1 :
                  \/ v \in file.patch /\ stage \in {"patched", "running"}
                  \/ mem[Biased(v)] = Linked(v)
    /\ stage = "running" => \A r \in Range(file.relocs) : ~Missing(r)

\* A name that needs a bridge (a Bionic structure, soft-float arguments) is
\* never bound to the host's function of that name, not even when the bridge
\* has no entry for a Bionic name and the host has one; and an import bound to
\* an FMOD wrapper has the guest's own function behind it: never nothing,
\* never the wrapper itself.
BridgedNeverRaw ==
    Returned /\ OnePerWord =>
        \A r \in Range(file.relocs) :
            r.type \in {"glob_dat", "jump_slot"} /\ r.symbol.defined = "no" /\ ~Missing(r) =>
                /\ r.symbol.bionic \/ (r.symbol.softfp /\ "softfp" \in r.symbol.offers)
                   => mem[Biased(r.offset)] \notin {Home["host"], Home["display"], Home["eglproc"]}
                /\ mem[Biased(r.offset)] = Home["wrapper"] => behind = Home["guest"]

\* Where census and relocation look in different places: an exporter that is
\* only later in link order, a soft-float name without a thunk, a name only
\* relocation knows a provider for, a weak reference.
Differ(s) ==
    \/ s.exporters # {} /\ \A j \in s.exporters : j >= file.index
    \/ s.softfp /\ "softfp" \notin s.offers
    \/ Provider(s, file.index) \in {"aeabi", "alias", "display", "eglproc"}
    \/ s.weak

\* But for these, the names the census reported are the ones that keep the
\* guest from running.
CensusForetells ==
    Returned /\ (\A s \in Imports : ~Differ(s)) => (reported = {} <=> unresolved = 0)
=============================================================================
