---------------------------- MODULE ElfImageProofs ----------------------------
(***************************************************************************)
(* Proofs about ElfImage for any files, page size and address space.       *)
(***************************************************************************)
EXTENDS ElfImage, FiniteSetTheorems, WellFoundedInduction, TLAPS

-----------------------------------------------------------------------------
(* Arithmetic of addresses and pages.                                      *)

\* A remainder, up to two turns of the modulus.
LEMMA Remainder ==
    ASSUME NEW m \in Nat \ {0}, NEW a \in Nat
    PROVE  /\ a % m \in 0..m - 1
           /\ a < m => a % m = a
           /\ a \in m..2 * m - 1 => a % m = a - m
           /\ a \in 2 * m..3 * m - 1 => a % m = a - 2 * m
  BY Z3

\* Every address is on a page.
LEMMA PageOfAddress ==
    ASSUME NEW a \in Address
    PROVE  a \div Page \in PageNumber
<1> DEFINE q == WordSize \div Page
<1>1. q \in Nat /\ WordSize = Page * q /\ Page \in Nat \ {0} /\ WordSize \in Nat \ {0}
  BY ElfImageAssumption, Z3
<1>2. a \in Nat /\ a < Page * q
  BY <1>1 DEF Address
<1>3. \A x, m, y \in Nat : m > 0 /\ x < m * y => x \div m \in Nat /\ x \div m < y
  BY Z3
<1>4. a \div Page \in Nat /\ a \div Page < q
  BY <1>1, <1>2, <1>3
<1> QED BY <1>1, <1>4 DEF PageNumber

\* Rounding to a page.
LEMMA Rounding ==
    ASSUME NEW v \in Nat
    PROVE  /\ AlignDown(v) \in Nat /\ AlignDown(v) <= v
           /\ AlignUp(v) \in Nat /\ v <= AlignUp(v) /\ AlignUp(v) <= v + Page - 1
<1>1. Page \in Nat \ {0}
  BY ElfImageAssumption
<1>2. \A n \in Nat : n % Page \in 0..Page - 1 /\ n % Page <= n
  BY <1>1, Z3
<1>3. v % Page \in Nat /\ v % Page <= v /\ v + Page - 1 \in Nat
      /\ (v + Page - 1) % Page \in 0..Page - 1 /\ (v + Page - 1) % Page <= v + Page - 1
  BY <1>1, <1>2
<1> QED BY <1>1, <1>3 DEF AlignDown, AlignUp

-----------------------------------------------------------------------------
(* Where the image is.                                                     *)

\* The reservation lies inside the address space, and so do the addresses the
\* file gives it.
Laid ==
    /\ start \in Nat /\ low \in Nat /\ size \in Nat
    /\ start + size < WordSize /\ low + size <= WordSize

\* The sum of the three wraps at most twice.
LEMMA BiasedValue ==
    ASSUME Laid, NEW v \in Address
    PROVE  /\ Biased(v) \in Address
           /\ \/ Biased(v) = start + v - low
              \/ Biased(v) = start + v - low + WordSize
              \/ Biased(v) = start + v - low - WordSize
<1> DEFINE k == start + (WordSize - low) + v
<1>1. WordSize \in Nat \ {0} /\ v \in Nat /\ v < WordSize /\ k \in Nat /\ k < 3 * WordSize
  BY ElfImageAssumption DEF Laid, Address
<1>2. /\ k % WordSize \in 0..WordSize - 1
      /\ k < WordSize => k % WordSize = k
      /\ k \in WordSize..2 * WordSize - 1 => k % WordSize = k - WordSize
      /\ k \in 2 * WordSize..3 * WordSize - 1 => k % WordSize = k - 2 * WordSize
  BY <1>1, Remainder
<1>3. k % WordSize \in {k, k - WordSize, k - 2 * WordSize}
  BY <1>1, <1>2
<1>4. Biased(v) = k % WordSize
  BY DEF Biased
<1> QED BY <1>1, <1>2, <1>3, <1>4 DEF Address, Laid

\* Inside the image, and at its end, addresses only move.
LEMMA BiasedInside ==
    ASSUME Laid, NEW v \in low..low + size
    PROVE  Biased(v) = start + v - low /\ Biased(v) \in Address
<1> DEFINE k == start + (WordSize - low) + v
<1>1. WordSize \in Nat \ {0} /\ v \in Nat /\ k \in WordSize..2 * WordSize - 1 /\ k \in Nat
  BY ElfImageAssumption DEF Laid
<1>2. k % WordSize = k - WordSize
  BY <1>1, Remainder
<1>3. Biased(v) = k % WordSize
  BY DEF Biased
<1> QED BY <1>1, <1>2, <1>3 DEF Laid, Address

\* No two words of the file share an address.
LEMMA BiasedApart ==
    ASSUME Laid, NEW v \in Address, NEW w \in Address, Biased(v) = Biased(w)
    PROVE  v = w
<1>1. v \in 0..WordSize - 1 /\ w \in 0..WordSize - 1 /\ WordSize \in Nat
  BY ElfImageAssumption DEF Address
<1> QED BY <1>1, BiasedValue DEF Laid

\* A range that passes the check is one of the reservation.
LEMMA CheckedWithin ==
    ASSUME Laid, NEW v \in Address, NEW n \in Nat, InImage(Biased(v), n), n # 0
    PROVE  Within(v, n) /\ v \in low..low + size /\ \A x \in v..v + n - 1 : x \in low..low + size
<1>1. start + size \in Nat /\ start + size < WordSize /\ WordSize \in Nat \ {0}
  BY ElfImageAssumption DEF Laid
<1> DEFINE end == (start + size) % WordSize
<1>5. end = start + size
  BY <1>1, Remainder
<1>6. InImage(Biased(v), n) =>
          end >= start /\ Biased(v) >= start /\ Biased(v) <= end /\ n <= end - Biased(v)
  BY DEF InImage
<1> HIDE DEF end
<1>3. v \in Nat /\ v < WordSize /\ WordSize \in Nat /\ Biased(v) \in Nat
  BY ElfImageAssumption, BiasedValue DEF Address
<1>7. end >= start /\ Biased(v) >= start /\ Biased(v) <= end /\ n <= end - Biased(v)
  BY <1>6
<1>2. Biased(v) >= start /\ Biased(v) <= start + size /\ n <= start + size - Biased(v)
  BY <1>1, <1>3, <1>5, <1>7 DEF Laid
<1>4. Biased(v) = start + v - low
  BY <1>2, <1>3, BiasedValue DEF Laid
<1> QED BY <1>2, <1>3, <1>4 DEF Laid, Within

\* One that may not be accessed has a word on a page without the right.
LEMMA Denied ==
    ASSUME Laid, NEW v \in Address, NEW n \in Nat, InImage(Biased(v), n), NEW need,
           ~Permits(Biased(v), n, need)
    PROVE  /\ Within(v, n)
           /\ \E x \in v..v + n - 1 :
                  Biased(x) \in Address /\ ~(need \subseteq rights[Biased(x) \div Page])
<1>1. Biased(v) \in Nat
  BY ElfImageAssumption, BiasedValue DEF Address
<1>2. PICK b \in Biased(v)..Biased(v) + n - 1 : ~(need \subseteq rights[b \div Page])
  BY DEF Permits
<1>3. n # 0
  BY <1>1, <1>2
<1>4. Within(v, n) /\ v \in low..low + size /\ \A x \in v..v + n - 1 : x \in low..low + size
  BY <1>3, CheckedWithin
<1>5. Biased(v) = start + v - low
  BY <1>4, BiasedInside
<1> DEFINE x == v + (b - Biased(v))
<1>6. x \in v..v + n - 1
  BY <1>1, <1>2 DEF Address
<1>7. Biased(x) = start + x - low /\ Biased(x) \in Address
  BY <1>4, <1>6, BiasedInside
<1>8. Biased(x) = b
  BY <1>1, <1>2, <1>5, <1>7 DEF Laid, Address
<1> QED BY <1>2, <1>4, <1>6, <1>7, <1>8

-----------------------------------------------------------------------------
(* Extremes of sets of numbers.                                            *)

LEMMA MinIs ==
    ASSUME NEW S \in SUBSET Nat, S # {}
    PROVE  Min(S) \in S /\ \A y \in S : Min(S) <= y
<1>1. IsWellFoundedOn(OpToRel(<, Nat), Nat)
  BY NatLessThanWellFounded
<1>2. PICK x \in S : \A y \in S : ~(<<y, x>> \in OpToRel(<, Nat))
  BY <1>1, WFMin, Zenon
<1>3. ASSUME NEW y \in S PROVE x <= y
  <2>1. ~(y < x)
    BY <1>2 DEF OpToRel
  <2> QED BY <2>1
<1> QED BY <1>3 DEF Min

LEMMA MaxIs ==
    ASSUME NEW n \in Nat, NEW S \in SUBSET (0..n), S # {}
    PROVE  Max(S) \in S /\ \A y \in S : y <= Max(S)
<1> DEFINE T == {n - y : y \in S}
<1>1. T \in SUBSET Nat /\ T # {}
  <2>1. \A y \in S : y \in 0..n /\ n - y \in Nat
    OBVIOUS
  <2> QED BY <2>1
<1>2. PICK z \in T : \A y \in T : z <= y
  BY <1>1, MinIs
<1>3. PICK x \in S : z = n - x
  OBVIOUS
<1>4. \A y \in S : x >= y
  <2> SUFFICES ASSUME NEW y \in S PROVE x >= y
    OBVIOUS
  <2>1. n - y \in T
    OBVIOUS
  <2>2. z <= n - y /\ x \in 0..n /\ y \in 0..n
    BY <1>2, <2>1
  <2> QED BY <1>3, <2>2
<1>5. Max(S) \in S /\ \A y \in S : Max(S) >= y
  BY <1>4 DEF Max
<1>6. Max(S) \in 0..n
  BY <1>5
<1> QED BY <1>5, <1>6

-----------------------------------------------------------------------------
(* Types and layout.                                                       *)

Stages == {"open", "fill", "seal", "mapped", "counted", "unseal", "apply", "restore", "linked",
           "patch", "patched", "running", "failed", "crashed", "released"}

Here(load) ==
    /\ load.memsz # 0 => low <= load.vaddr /\ load.vaddr + load.memsz <= low + size
    /\ load.filesz <= load.memsz /\ load.filesz <= Len(load.words)

\* Where the stage is, and that every segment is inside the reservation.
PlaceInv ==
    /\ file \in Files /\ stage \in Stages
    /\ at \in Nat \ {0}
    /\ stage \in {"fill", "seal", "unseal", "restore"} => at <= Len(file.loads) + 1
    /\ stage = "apply" => at <= Len(file.relocs) + 1
    /\ stage \notin {"open", "released"} =>
          Laid /\ \A l \in DOMAIN file.loads : Here(file.loads[l])

\* Pages, words and what the link keeps.
TypeOK ==
    /\ rights \in [PageNumber -> SUBSET Right] /\ mem \in [Address -> Address]
    /\ status \in {0, 1} /\ unresolved \in Nat
    /\ behind \in {0, Home["guest"]} /\ reported \subseteq Imports

LEMMA FileTypes ==
    ASSUME PlaceInv
    PROVE  /\ file \in File
           /\ file.loads \in Seq(Load) /\ file.relocs \in Seq(Relocation)
           /\ DOMAIN file.loads = 1..Len(file.loads) /\ Len(file.loads) \in Nat
           /\ DOMAIN file.relocs = 1..Len(file.relocs) /\ Len(file.relocs) \in Nat
           /\ \A l \in DOMAIN file.loads : file.loads[l] \in Load
           /\ \A i \in DOMAIN file.relocs : file.relocs[i] \in Relocation
<1>1. file \in File
  BY ElfImageAssumption DEF PlaceInv
<1>2. /\ file.loads \in Seq(Load) /\ file.relocs \in Seq(Relocation)
  BY <1>1 DEF File
<1> QED BY <1>1, <1>2

\* The reservation spans every segment and stays clear of the last address.
LEMMA Reserved ==
    ASSUME PlaceInv, Reserve
    PROVE  Laid' /\ \A l \in DOMAIN file.loads : Here(file.loads[l])'
<1> DEFINE D == DOMAIN file.loads
           lows == {AlignDown(file.loads[l].vaddr) : l \in D}
           highs == {AlignUp(file.loads[l].vaddr + file.loads[l].memsz) : l \in D}
<1>1. /\ WordSize \in Nat \ {0} /\ Page \in Nat \ {0} /\ Page <= WordSize
      /\ \A a \in Address : a \in Nat
  BY ElfImageAssumption DEF Address
<1>2. \A l \in D : /\ file.loads[l].vaddr \in Nat /\ file.loads[l].memsz \in Nat
                   /\ file.loads[l].filesz \in Nat /\ Len(file.loads[l].words) \in Nat
  <2> SUFFICES ASSUME NEW l \in D
               PROVE  /\ file.loads[l].vaddr \in Nat /\ file.loads[l].memsz \in Nat
                      /\ file.loads[l].filesz \in Nat /\ Len(file.loads[l].words) \in Nat
    OBVIOUS
  <2>1. file.loads[l] \in Load
    BY FileTypes
  <2>2. /\ file.loads[l].vaddr \in Address /\ file.loads[l].memsz \in Address
        /\ file.loads[l].filesz \in Address /\ file.loads[l].words \in Seq(Address)
    BY <2>1 DEF Load
  <2> QED BY <1>1, <2>2
<1>3. \A l \in D :
        LET v == file.loads[l].vaddr
            e == file.loads[l].vaddr + file.loads[l].memsz
        IN  /\ e \in Nat /\ e <= WordSize - Page
            /\ AlignDown(v) \in Nat /\ AlignDown(v) <= v
            /\ AlignUp(e) \in Nat /\ e <= AlignUp(e) /\ AlignUp(e) < WordSize
            /\ file.loads[l].filesz <= file.loads[l].memsz
            /\ file.loads[l].filesz <= Len(file.loads[l].words)
  <2> SUFFICES ASSUME NEW l \in D
               PROVE  LET v == file.loads[l].vaddr
                          e == file.loads[l].vaddr + file.loads[l].memsz
                      IN  /\ e \in Nat /\ e <= WordSize - Page
                          /\ AlignDown(v) \in Nat /\ AlignDown(v) <= v
                          /\ AlignUp(e) \in Nat /\ e <= AlignUp(e) /\ AlignUp(e) < WordSize
                          /\ file.loads[l].filesz <= file.loads[l].memsz
                          /\ file.loads[l].filesz <= Len(file.loads[l].words)
    OBVIOUS
  <2>1. ValidLoad(file.loads[l])
    BY DEF Reserve
  <2>2. file.loads[l].vaddr + file.loads[l].memsz \in Nat /\ file.loads[l].vaddr \in Nat
    BY <1>2
  <2>3. file.loads[l].vaddr + file.loads[l].memsz <= WordSize - Page
    BY <2>1 DEF ValidLoad, CanAlignUp
  <2>4. file.loads[l].filesz <= file.loads[l].memsz /\ file.loads[l].filesz <= Len(file.loads[l].words)
    BY <2>1 DEF ValidLoad
  <2>5. /\ AlignDown(file.loads[l].vaddr) \in Nat /\ AlignDown(file.loads[l].vaddr) <= file.loads[l].vaddr
    BY <2>2, Rounding
  <2> DEFINE e == file.loads[l].vaddr + file.loads[l].memsz
  <2>6. AlignUp(e) \in Nat /\ e <= AlignUp(e) /\ AlignUp(e) <= e + Page - 1
    BY <2>2, Rounding
  <2> QED BY <1>1, <2>2, <2>3, <2>4, <2>5, <2>6
<1>4. lows \in SUBSET Nat /\ highs \in SUBSET (0..WordSize - 1)
  BY <1>1, <1>3
<1>5. D # {}
  BY FileTypes DEF Reserve
<1>6. lows # {} /\ highs # {}
  BY <1>5
<1> DEFINE first == Min(lows)
           last == Max(highs)
<1>7. first \in lows /\ \A y \in lows : first <= y
  BY <1>4, <1>6, MinIs
<1>8. last \in highs /\ \A y \in highs : y <= last
  <2>1. WordSize - 1 \in Nat
    BY <1>1
  <2> QED BY <1>4, <1>6, <2>1, MaxIs
<1>9. first \in Nat /\ last \in Nat /\ last < WordSize
  BY <1>1, <1>4, <1>7, <1>8
<1> HIDE DEF first, last
<1>10. /\ first < last /\ low' = first /\ size' = last - first /\ file' = file
       /\ \E p \in PageNumber \ {0} : p * Page + (last - first) < WordSize /\ start' = p * Page
  BY DEF Reserve, first, last
<1>11. start' \in Nat /\ start' + (last - first) < WordSize
  <2>1. PICK p \in PageNumber \ {0} : p * Page + (last - first) < WordSize /\ start' = p * Page
    BY <1>10
  <2>2. p \in Nat
    BY DEF PageNumber
  <2> QED BY <1>1, <2>1, <2>2
<1>12. Laid'
  BY <1>1, <1>9, <1>10, <1>11 DEF Laid
<1>13. ASSUME NEW l \in D PROVE Here(file.loads[l])'
  <2>1. AlignDown(file.loads[l].vaddr) \in lows
        /\ AlignUp(file.loads[l].vaddr + file.loads[l].memsz) \in highs
    OBVIOUS
  <2>2. first <= AlignDown(file.loads[l].vaddr)
        /\ AlignUp(file.loads[l].vaddr + file.loads[l].memsz) <= last
    BY <1>7, <1>8, <2>1
  <2> QED BY <1>2, <1>3, <1>9, <1>10, <2>2 DEF Here
<1> QED BY <1>12, <1>13

\* The steps between the reservation and the end leave the layout alone.
Steady ==
    \/ Fill \/ Accept \/ Seal \/ Mapped \/ TakeCensus
    \/ Parse \/ Unseal \/ Unsealed \/ Apply \/ ApplyCrashes \/ ApplyFails
    \/ Applied \/ Returns \/ LinkFails
    \/ OpenPatch \/ WritePatch \/ PatchFails \/ Run

LEMMA SteadyKeeps ==
    ASSUME Steady
    PROVE  /\ UNCHANGED <<file, layoutVars>>
           /\ stage \notin {"open", "released"} /\ stage' \notin {"open", "released"}
<1> USE DEF Crash, Goto
<1>1. CASE Fill \/ Accept \/ Seal \/ Mapped \/ TakeCensus \/ Parse
  BY <1>1 DEF Fill, Accept, Seal, Mapped, TakeCensus, Parse
<1>2. CASE Unseal \/ Unsealed \/ Apply \/ ApplyCrashes \/ ApplyFails \/ Applied
  BY <1>2 DEF Unseal, Unsealed, Apply, ApplyCrashes, ApplyFails, Applied
<1>3. CASE Returns \/ LinkFails \/ OpenPatch \/ WritePatch \/ PatchFails \/ Run
  BY <1>3 DEF Returns, LinkFails, OpenPatch, WritePatch, PatchFails, Run
<1> QED BY <1>1, <1>2, <1>3 DEF Steady

LEMMA NextSteps == Next => Steady \/ Reserve \/ MapFails \/ Release
BY DEF Next, Steady

LEMMA PlaceSteps ==
    ASSUME PlaceInv, Next
    PROVE  PlaceInv'
<1> USE DEF Crash, Goto, Stages
<1>1. CASE Reserve
  <2>1. Laid' /\ \A l \in DOMAIN file.loads : Here(file.loads[l])'
    BY <1>1, Reserved
  <2>2. file' = file /\ stage' = "fill" /\ at' = 1 /\ Len(file.loads) \in Nat
    BY <1>1, FileTypes DEF Reserve
  <2> QED BY <2>1, <2>2 DEF PlaceInv
<1>2. CASE MapFails \/ Release
  BY <1>2 DEF PlaceInv, MapFails, Release, Unmapped
<1>3. CASE Steady
  <2>1. /\ UNCHANGED <<file, layoutVars>>
        /\ stage \notin {"open", "released"} /\ stage' \notin {"open", "released"}
    BY <1>3, SteadyKeeps
  <2>2. Laid' /\ \A l \in DOMAIN file.loads : Here(file.loads[l])'
    BY <2>1 DEF PlaceInv, Laid, Here, layoutVars
  <2>3. Len(file.loads) \in Nat /\ Len(file.relocs) \in Nat
    BY FileTypes
  <2>4. /\ stage' \in Stages /\ at' \in Nat \ {0}
        /\ stage' \in {"fill", "seal", "unseal", "restore"} => at' <= Len(file.loads) + 1
        /\ stage' = "apply" => at' <= Len(file.relocs) + 1
    <3>1. CASE Fill \/ Accept \/ Seal \/ Mapped
      BY <2>3, <3>1 DEF PlaceInv, Fill, Accept, Seal, Mapped
    <3>2. CASE TakeCensus \/ Parse \/ Unsealed \/ ApplyCrashes \/ ApplyFails
      BY <2>3, <3>2 DEF PlaceInv, TakeCensus, Parse, Unsealed, ApplyCrashes, ApplyFails
    <3>3. CASE Unseal \/ Apply
      BY <2>3, <3>3 DEF PlaceInv, Unseal, Apply
    <3>4. CASE Applied \/ Returns \/ LinkFails
      BY <2>3, <3>4 DEF PlaceInv, Applied, Returns, LinkFails
    <3>5. CASE OpenPatch \/ WritePatch \/ PatchFails \/ Run
      BY <2>3, <3>5 DEF PlaceInv, OpenPatch, WritePatch, PatchFails, Run
    <3> QED BY <1>3, <3>1, <3>2, <3>3, <3>4, <3>5 DEF Steady
  <2> QED BY <2>1, <2>2, <2>4 DEF PlaceInv
<1> QED BY <1>1, <1>2, <1>3, NextSteps

\* What a relocation writes is an address.
LEMMA RelocatedType ==
    ASSUME PlaceInv, Laid, NEW r \in Relocation, NEW addend \in Address
    PROVE  Relocated(r, addend) \in Address
<1>1. WordSize \in Nat \ {0} /\ Address = 0..WordSize - 1
  BY ElfImageAssumption DEF Address
<1>2. r.symbol \in Symbol /\ r.symbol.value \in Address
  BY DEF Relocation, Symbol
<1>3. Home["wrapper"] \in Address /\ \A p \in DOMAIN Home : Home[p] \in Address
  BY ElfImageAssumption
<1>4. Value(r.symbol) \in Address
  <2>1. Biased(r.symbol.value) \in Address
    BY <1>2, BiasedValue
  <2>2. 0 \in Address
    BY <1>1
  <2> QED BY <1>2, <1>3, <2>1, <2>2 DEF Value
<1>5. Biased(addend) \in Address
  BY BiasedValue
<1>6. (Value(r.symbol) + addend) % WordSize \in Address
  <2>1. Value(r.symbol) + addend \in Nat
    BY <1>1, <1>4
  <2> QED BY <1>1, <2>1, Remainder
<1> QED BY <1>4, <1>5, <1>6 DEF Relocated

LEMMA TypeSteps ==
    ASSUME PlaceInv, TypeOK, Next
    PROVE  TypeOK'
<1> USE DEF TypeOK, Crash, linkVars, layoutVars
<1>0. 0 \in Address /\ Address = 0..WordSize - 1 /\ "patch" \in DOMAIN Home /\ Home["patch"] \in Address
  BY ElfImageAssumption DEF Address
<1>1. \A load \in Load : \A n \in {{"R", "W"}, load.flags} :
          Protect(load, n) => rights' \in [PageNumber -> SUBSET Right]
  <2> SUFFICES ASSUME NEW load \in Load, NEW n \in {{"R", "W"}, load.flags}, Protect(load, n)
               PROVE  rights' \in [PageNumber -> SUBSET Right]
    OBVIOUS
  <2>1. n \in SUBSET Right
    BY DEF Right, Load
  <2> QED BY <2>1 DEF Protect
<1>2. CASE Reserve \/ Accept \/ Mapped \/ ApplyCrashes \/ ApplyFails \/ Applied
  BY <1>2, SteadyKeeps DEF Reserve, Accept, Mapped, ApplyCrashes, ApplyFails, Applied, Imports
<1>3. CASE Unsealed \/ Returns \/ LinkFails \/ PatchFails \/ Run
  BY <1>3 DEF Unsealed, Returns, LinkFails, PatchFails, Run, Imports
<1>4. CASE MapFails \/ Release
  <2>1. rights' = [p \in PageNumber |-> {}] /\ mem' = [a \in Address |-> 0]
    BY <1>4 DEF MapFails, Release, Unmapped
  <2> QED BY <1>0, <1>4, <2>1 DEF MapFails, Release, Imports
<1>5. CASE Fill
  <2>1. UNCHANGED <<file, linkVars>> /\ file.loads[at] \in Load
    BY <1>5, FileTypes DEF Fill, PlaceInv
  <2>2. CASE file.loads[at].memsz = 0
    BY <1>5, <2>1, <2>2 DEF Fill, Imports
  <2>3. CASE file.loads[at].memsz # 0
    <3> DEFINE load == file.loads[at]
    <3>1. /\ rights' \in [PageNumber -> SUBSET Right]
          /\ mem' = [a \in Address |->
                        LET v == a - Biased(load.vaddr)
                        IN  IF v \in 0..load.filesz - 1 THEN load.words[v + 1] ELSE mem[a]]
      BY <1>1, <1>5, <2>1, <2>3 DEF Fill
    <3>2. load.words \in Seq(Address) /\ load.filesz \in Nat /\ load.filesz <= Len(load.words)
      <4>1. load.filesz \in Address /\ load.words \in Seq(Address)
        BY <2>1 DEF Load
      <4>2. at \in DOMAIN file.loads
        BY <1>5, FileTypes DEF Fill, PlaceInv
      <4> QED BY <1>0, <1>5, <4>1, <4>2, ElfImageAssumption DEF Fill, PlaceInv, Here
    <3>3. \A v \in 0..load.filesz - 1 : load.words[v + 1] \in Address
      <4> SUFFICES ASSUME NEW v \in 0..load.filesz - 1 PROVE load.words[v + 1] \in Address
        OBVIOUS
      <4>1. v + 1 \in 1..Len(load.words)
        BY <3>2
      <4> QED BY <3>2, <4>1
    <3>4. mem' \in [Address -> Address]
      BY <3>1, <3>3
    <3> QED BY <2>1, <3>1, <3>4 DEF Imports
  <2> QED BY <2>2, <2>3
<1>6. CASE Seal \/ Unseal
  <2>1. UNCHANGED <<file, mem, linkVars>> /\ file.loads[at] \in Load
    BY <1>6, FileTypes DEF Seal, Unseal, PlaceInv
  <2>2. rights' \in [PageNumber -> SUBSET Right]
    BY <1>1, <1>6, <2>1 DEF Seal, Unseal
  <2> QED BY <2>1, <2>2 DEF Imports
<1>7. CASE TakeCensus
  BY <1>7 DEF TakeCensus, Imports
<1>8. CASE Parse
  BY <1>8 DEF Parse, Imports
<1>9. CASE Apply
  <2> DEFINE r == file.relocs[at]
  <2>1. r \in Relocation /\ Laid /\ Biased(r.offset) \in Address
    <3>1. r \in Relocation /\ Laid
      BY <1>9, FileTypes DEF Apply, PlaceInv
    <3> QED BY <3>1, BiasedValue DEF Relocation
  <2>2. CASE Missing(r)
    BY <1>9, <2>2 DEF Apply, Imports
  <2>3. CASE ~Missing(r)
    <3>1. mem' = [mem EXCEPT ![Biased(r.offset)] = Relocated(r, mem[Biased(r.offset)])]
      BY <1>9, <2>3 DEF Apply
    <3>2. mem' \in [Address -> Address]
      BY <2>1, <3>1, RelocatedType
    <3>3. behind' \in {0, Home["guest"]} /\ UNCHANGED <<file, rights, status, reported, unresolved>>
      BY <1>9, <2>3 DEF Apply
    <3> QED BY <3>2, <3>3 DEF Imports
  <2> QED BY <2>2, <2>3
<1>10. CASE OpenPatch
  BY <1>10 DEF OpenPatch, Imports, Right
<1>11. CASE WritePatch
  BY <1>0, <1>11 DEF WritePatch, Imports, Right
<1> QED BY <1>2, <1>3, <1>4, <1>5, <1>6, <1>7, <1>8, <1>9, <1>10, <1>11 DEF Next

-----------------------------------------------------------------------------
(* Page rights.                                                            *)

\* Segments among the first n on page p; the rights of p when these n are
\* writable, when they are sealed and the others writable, and when they are
\* writable and the others sealed.
On(p, n) == {l \in LoadsOn(p) : l <= n}
Writable(p, n) == IF On(p, n) = {} THEN {} ELSE {"R", "W"}
Sealed(p, n) == IF On(p, n) = {} THEN Writable(p, Len(file.loads))
                ELSE file.loads[Max(On(p, n))].flags
Opened(p, n) == IF On(p, n) = {} THEN Declared(p) ELSE {"R", "W"}

RightsOf(p) ==
    /\ stage \in {"open", "released"} => rights[p] = {}
    /\ stage = "fill" => rights[p] = Writable(p, at - 1)
    /\ stage \in {"seal", "restore"} => rights[p] = Sealed(p, at - 1)
    /\ stage \in {"mapped", "counted", "linked"} => rights[p] = Declared(p)
    /\ stage = "unseal" => rights[p] = Opened(p, at - 1)
    /\ stage = "apply" => rights[p] = Writable(p, Len(file.loads))
    /\ stage \in {"patch", "patched", "running"} /\ p \notin PatchPages => rights[p] = Declared(p)
    /\ stage \in {"patched", "running"} /\ p \in PatchPages => rights[p] = {"R", "X"}

\* One page at a time: what a page shows depends on no other page.
RightsInv == \A p \in PageNumber : RightsOf(p)

LEMMA OnSame ==
    ASSUME UNCHANGED <<file, layoutVars>>, NEW p, NEW n
    PROVE  /\ On(p, n)' = On(p, n) /\ Writable(p, n)' = Writable(p, n)
           /\ Sealed(p, n)' = Sealed(p, n) /\ Opened(p, n)' = Opened(p, n)
           /\ Declared(p)' = Declared(p) /\ PatchPages' = PatchPages
<1>1. LoadsOn(p)' = LoadsOn(p) /\ PatchPages' = PatchPages
  BY DEF LoadsOn, Loads, PagesOf, Biased, layoutVars, PatchPages
<1> QED BY <1>1 DEF On, Writable, Sealed, Opened, Declared

\* Before the first segment, at the next one, and after the last.
LEMMA OnFirst ==
    ASSUME PlaceInv, NEW p
    PROVE  On(p, 0) = {}
<1> SUFFICES ASSUME NEW l \in On(p, 0) PROVE FALSE
  OBVIOUS
<1>1. l \in DOMAIN file.loads /\ l <= 0
  BY DEF On, LoadsOn, Loads
<1>2. l \in 1..Len(file.loads) /\ Len(file.loads) \in Nat
  BY <1>1, FileTypes
<1> QED BY <1>1, <1>2

LEMMA OnNext ==
    ASSUME PlaceInv, at <= Len(file.loads), NEW p
    PROVE  IF file.loads[at].memsz # 0 /\ p \in PagesOf(file.loads[at])
           THEN On(p, at) # {} /\ Max(On(p, at)) = at
           ELSE On(p, at) = On(p, at - 1)
<1>1. at \in DOMAIN file.loads /\ at \in Nat \ {0} /\ \A l \in DOMAIN file.loads : l \in Nat
  BY FileTypes DEF PlaceInv
<1>2. CASE file.loads[at].memsz # 0 /\ p \in PagesOf(file.loads[at])
  <2>1. at \in On(p, at)
    BY <1>1, <1>2 DEF On, LoadsOn, Loads
  <2>2. On(p, at) \in SUBSET (0..at)
    BY <1>1 DEF On, LoadsOn, Loads
  <2>3. Max(On(p, at)) \in On(p, at) /\ at <= Max(On(p, at))
    BY <1>1, <2>1, <2>2, MaxIs
  <2> QED BY <1>1, <1>2, <2>1, <2>2, <2>3
<1>3. CASE ~(file.loads[at].memsz # 0 /\ p \in PagesOf(file.loads[at]))
  <2>1. at \notin LoadsOn(p) /\ \A l \in LoadsOn(p) : l \in Nat
    BY <1>1, <1>3 DEF LoadsOn, Loads
  <2>2. \A l \in LoadsOn(p) : l <= at <=> l <= at - 1
    BY <1>1, <2>1
  <2> QED BY <1>3, <2>2 DEF On
<1> QED BY <1>2, <1>3

LEMMA OnAll ==
    ASSUME PlaceInv, NEW p
    PROVE  /\ On(p, Len(file.loads)) = LoadsOn(p)
           /\ Sealed(p, Len(file.loads)) = Declared(p)
           /\ Opened(p, Len(file.loads)) = Writable(p, Len(file.loads))
<1>1. On(p, Len(file.loads)) = LoadsOn(p)
  BY FileTypes DEF On, LoadsOn, Loads
<1> QED BY <1>1 DEF Sealed, Opened, Writable, Declared

\* One segment is protected: the pages on it change.
LEMMA ProtectStep ==
    ASSUME PlaceInv, TypeOK, at <= Len(file.loads), UNCHANGED <<file, layoutVars>>, NEW how,
           IF file.loads[at].memsz = 0 THEN UNCHANGED rights ELSE Protect(file.loads[at], how),
           NEW p \in PageNumber
    PROVE  \/ On(p, at) # {} /\ Max(On(p, at)) = at /\ rights'[p] = how
           \/ On(p, at) = On(p, at - 1) /\ rights'[p] = rights[p]
<1>1. CASE file.loads[at].memsz # 0 /\ p \in PagesOf(file.loads[at])
  <2>1. On(p, at) # {} /\ Max(On(p, at)) = at
    BY <1>1, OnNext
  <2>2. rights'[p] = how
    BY <1>1 DEF Protect
  <2> QED BY <2>1, <2>2
<1>2. CASE ~(file.loads[at].memsz # 0 /\ p \in PagesOf(file.loads[at]))
  <2>1. On(p, at) = On(p, at - 1)
    BY <1>2, OnNext
  <2>2. rights'[p] = rights[p]
    BY <1>2 DEF Protect
  <2> QED BY <2>1, <2>2
<1> QED BY <1>1, <1>2

LEMMA RightsSteps ==
    ASSUME PlaceInv, TypeOK, RightsInv, Next
    PROVE  RightsInv'
<1> SUFFICES ASSUME NEW p \in PageNumber PROVE RightsOf(p)'
  BY DEF RightsInv
<1>0. RightsOf(p)
  BY DEF RightsInv
<1> USE DEF Crash, Goto
<1>1. CASE Reserve
  <2>1. rights' = rights /\ stage' = "fill" /\ at' = 1 /\ stage = "open" /\ file' = file
    BY <1>1 DEF Reserve
  <2>2. On(p, 0)' = {}
    <3> SUFFICES ASSUME NEW l \in On(p, 0)' PROVE FALSE
      OBVIOUS
    <3>1. l \in DOMAIN file.loads /\ l <= 0
      BY <2>1 DEF On, LoadsOn, Loads
    <3>2. l \in 1..Len(file.loads) /\ Len(file.loads) \in Nat
      BY <3>1, FileTypes
    <3> QED BY <3>1, <3>2
  <2>3. Writable(p, 0)' = {}
    BY <2>2 DEF Writable
  <2> QED BY <1>0, <2>1, <2>3 DEF RightsOf
<1>2. CASE MapFails \/ Release
  BY <1>2 DEF MapFails, Release, Unmapped, RightsOf
<1>3. CASE Steady
  <2> DEFINE last == Len(file.loads)
  <2>1. UNCHANGED <<file, layoutVars>>
    BY <1>3, SteadyKeeps
  <2>2. \A n : /\ On(p, n)' = On(p, n) /\ Writable(p, n)' = Writable(p, n)
               /\ Sealed(p, n)' = Sealed(p, n) /\ Opened(p, n)' = Opened(p, n)
    BY <2>1, OnSame
  <2>3. Declared(p)' = Declared(p) /\ PatchPages' = PatchPages /\ Len(file.loads)' = last
    BY <2>1, OnSame
  <2>4. /\ at \in Nat \ {0} /\ last \in Nat /\ On(p, 0) = {}
        /\ at + 1 - 1 = at /\ 1 - 1 = 0
    BY FileTypes, OnFirst DEF PlaceInv
  <2>5. /\ Sealed(p, 0) = Writable(p, last) /\ Opened(p, 0) = Declared(p)
        /\ Sealed(p, last) = Declared(p) /\ Opened(p, last) = Writable(p, last)
    BY <2>4, OnAll DEF Sealed, Opened
  <2>6. stage \in {"fill", "seal", "unseal", "restore"} /\ at > last => at - 1 = last
    BY <2>4 DEF PlaceInv
  <2>7. CASE Fill
    <3>1. \/ On(p, at) # {} /\ Max(On(p, at)) = at /\ rights'[p] = {"R", "W"}
          \/ On(p, at) = On(p, at - 1) /\ rights'[p] = rights[p]
      BY <2>1, <2>7, ProtectStep DEF Fill
    <3>2. rights[p] = Writable(p, at - 1) /\ stage' = "fill" /\ at' = at + 1 /\ at' - 1 = at
      BY <1>0, <2>4, <2>7 DEF Fill, RightsOf
    <3>3. rights'[p] = Writable(p, at)
      BY <3>1, <3>2 DEF Writable
    <3> QED BY <2>2, <3>2, <3>3 DEF RightsOf
  <2>8. CASE Seal
    <3>1. \/ On(p, at) # {} /\ Max(On(p, at)) = at /\ rights'[p] = file.loads[at].flags
          \/ On(p, at) = On(p, at - 1) /\ rights'[p] = rights[p]
      BY <2>1, <2>8, ProtectStep DEF Seal
    <3>2. /\ rights[p] = Sealed(p, at - 1) /\ stage' \in {"seal", "restore"}
          /\ at' = at + 1 /\ at' - 1 = at
      BY <1>0, <2>4, <2>8 DEF Seal, RightsOf
    <3>3. rights'[p] = Sealed(p, at)
      BY <3>1, <3>2 DEF Sealed
    <3> QED BY <2>2, <3>2, <3>3 DEF RightsOf
  <2>9. CASE Unseal
    <3>1. \/ On(p, at) # {} /\ Max(On(p, at)) = at /\ rights'[p] = {"R", "W"}
          \/ On(p, at) = On(p, at - 1) /\ rights'[p] = rights[p]
      BY <2>1, <2>9, ProtectStep DEF Unseal
    <3>2. /\ rights[p] = Opened(p, at - 1) /\ stage' = "unseal"
          /\ at' = at + 1 /\ at' - 1 = at
      BY <1>0, <2>4, <2>9 DEF Unseal, RightsOf
    <3>3. rights'[p] = Opened(p, at)
      BY <3>1, <3>2 DEF Opened
    <3> QED BY <2>2, <3>2, <3>3 DEF RightsOf
  <2>10. CASE Accept
    <3>1. rights[p] = Sealed(p, 0) /\ rights' = rights
      BY <1>0, <2>5, <2>6, <2>10 DEF Accept, RightsOf
    <3>2. \/ stage' = "crashed"
          \/ stage' = "seal" /\ at' = 1
      BY <2>10 DEF Accept
    <3> QED BY <2>2, <2>4, <3>1, <3>2 DEF RightsOf
  <2>11. CASE Mapped
    <3>1. rights[p] = Declared(p) /\ rights' = rights /\ stage' = "mapped"
      BY <1>0, <2>5, <2>6, <2>11 DEF Mapped, RightsOf
    <3> QED BY <2>3, <3>1 DEF RightsOf
  <2>12. CASE TakeCensus \/ Parse
    <3>1. rights[p] = Declared(p) /\ rights' = rights
      BY <1>0, <2>12 DEF TakeCensus, Parse, RightsOf
    <3>2. \/ stage' \in {"crashed", "counted"}
          \/ stage' = "unseal" /\ at' = 1
      BY <2>12 DEF TakeCensus, Parse
    <3> QED BY <2>2, <2>3, <2>4, <2>5, <3>1, <3>2 DEF RightsOf
  <2>13. CASE Unsealed
    <3>1. rights[p] = Writable(p, last) /\ rights' = rights /\ stage' = "apply"
      BY <1>0, <2>5, <2>6, <2>13 DEF Unsealed, RightsOf
    <3> QED BY <2>1, <2>2, <3>1 DEF RightsOf
  <2>14. CASE Apply
    <3>1. rights[p] = Writable(p, last) /\ rights' = rights /\ stage' = "apply"
      BY <1>0, <2>14 DEF Apply, RightsOf
    <3> QED BY <2>1, <2>2, <3>1 DEF RightsOf
  <2>15. CASE Applied \/ ApplyFails
    <3>1. /\ rights[p] = Sealed(p, 0) /\ rights' = rights
          /\ stage' = "restore" /\ at' - 1 = 0
      BY <1>0, <2>4, <2>5, <2>15 DEF Applied, ApplyFails, RightsOf
    <3> QED BY <2>2, <3>1 DEF RightsOf
  <2>16. CASE Returns
    <3>1. /\ rights[p] = Declared(p) /\ rights' = rights
          /\ stage' \in {"linked", "failed"}
      BY <1>0, <2>5, <2>6, <2>16 DEF Returns, RightsOf
    <3> QED BY <2>3, <3>1 DEF RightsOf
  <2>17. CASE ApplyCrashes \/ LinkFails \/ PatchFails
    <3>1. stage' \in {"crashed", "failed"}
      BY <2>17 DEF ApplyCrashes, LinkFails, PatchFails
    <3> QED BY <3>1 DEF RightsOf
  <2>18. CASE Run
    <3>1. stage' = "running" /\ rights' = rights
      BY <2>18 DEF Run
    <3>2. CASE stage = "patched"
      BY <1>0, <2>3, <3>1, <3>2 DEF RightsOf
    <3>3. CASE stage = "linked" /\ file.patch = {}
      <4>1. p \notin PatchPages
        BY <3>3 DEF PatchPages
      <4> QED BY <1>0, <2>3, <3>1, <3>3, <4>1 DEF RightsOf
    <3> QED BY <2>18, <3>2, <3>3 DEF Run
  <2>19. CASE OpenPatch
    BY <1>0, <2>3, <2>19 DEF OpenPatch, RightsOf
  <2>20. CASE WritePatch
    BY <1>0, <2>3, <2>20 DEF WritePatch, RightsOf
  <2> QED BY <1>3, <2>7, <2>8, <2>9, <2>10, <2>11, <2>12, <2>13, <2>14, <2>15, <2>16,
             <2>17, <2>18, <2>19, <2>20 DEF Steady
<1> QED BY <1>1, <1>2, <1>3, NextSteps

-----------------------------------------------------------------------------
(* Accesses without a right.                                               *)

CrashInv ==
    /\ stage \in {"unseal", "apply"} => AllInImage(file.tables)
    /\ stage = "crashed" => Gap

LEMMA PlaceTypes ==
    ASSUME PlaceInv
    PROVE  /\ \A r \in Range(file.meta) \cup Range(file.symtab) \cup Range(file.tables) :
                  r.vaddr \in Address /\ r.length \in Nat
           /\ \A r \in Range(file.relocs) : r \in Relocation /\ r.offset \in Address
           /\ file.patch \subseteq Address
<1>1. /\ file.meta \in Seq(Place) /\ file.symtab \in Seq(Place) /\ file.tables \in Seq(Place)
      /\ file.relocs \in Seq(Relocation) /\ file.patch \subseteq Address
  BY FileTypes DEF File
<1>2. \A s \in Seq(Place) : \A r \in Range(s) : r \in Place
  BY DEF Range
<1>3. \A r \in Range(file.relocs) : r \in Relocation
  BY <1>1 DEF Range
<1>4. \A r \in Place : r.vaddr \in Address /\ r.length \in Nat
  BY DEF Place
<1>5. \A r \in Relocation : r.offset \in Address
  BY DEF Relocation
<1> QED BY <1>1, <1>2, <1>3, <1>4, <1>5

\* Where the segments are writable only a hole denies an access; where they
\* have the rights they declare, one that may not be read does.
LEMMA DeniedWritable ==
    ASSUME PlaceInv, Laid, NEW v \in Address, NEW n \in Nat, InImage(Biased(v), n),
           \A p \in PageNumber : rights[p] = Writable(p, Len(file.loads)),
           NEW need \in SUBSET {"R", "W"}, ~Permits(Biased(v), n, need)
    PROVE  InHole(v, n)
<1>1. /\ Within(v, n)
      /\ \E x \in v..v + n - 1 :
             Biased(x) \in Address /\ ~(need \subseteq rights[Biased(x) \div Page])
  BY Denied
<1>2. PICK x \in v..v + n - 1 :
          Biased(x) \in Address /\ ~(need \subseteq rights[Biased(x) \div Page])
  BY <1>1
<1> DEFINE p == Biased(x) \div Page
<1>3. p \in PageNumber
  BY <1>2, PageOfAddress
<1>4. rights[p] = Writable(p, Len(file.loads))
  BY <1>3
<1> HIDE DEF p
<1>5. On(p, Len(file.loads)) = {}
  BY <1>2, <1>4 DEF Writable, p
<1>6. LoadsOn(p) = {}
  BY <1>5, OnAll
<1> QED BY <1>1, <1>6 DEF InHole, p

LEMMA DeniedDeclared ==
    ASSUME PlaceInv, Laid, NEW v \in Address, NEW n \in Nat, InImage(Biased(v), n),
           \A p \in PageNumber : rights[p] = Declared(p), ~Permits(Biased(v), n, {"R"})
    PROVE  Unreadable(v, n)
<1>1. /\ Within(v, n)
      /\ \E x \in v..v + n - 1 :
             Biased(x) \in Address /\ ~({"R"} \subseteq rights[Biased(x) \div Page])
  BY Denied
<1>2. PICK x \in v..v + n - 1 :
          Biased(x) \in Address /\ ~({"R"} \subseteq rights[Biased(x) \div Page])
  BY <1>1
<1>3. Biased(x) \div Page \in PageNumber
  BY <1>2, PageOfAddress
<1>4. "R" \notin Declared(Biased(x) \div Page)
  BY <1>2, <1>3
<1> QED BY <1>1, <1>4 DEF Unreadable

LEMMA GapSame ==
    ASSUME UNCHANGED <<file, layoutVars>>
    PROVE  Gap' = Gap
BY DEF Gap, InHole, Unreadable, Within, Declared, LoadsOn, Loads, PagesOf, Biased, layoutVars

LEMMA CrashSteps ==
    ASSUME PlaceInv, RightsInv, CrashInv, Next
    PROVE  CrashInv'
<1> USE DEF Crash, Goto
<1>1. CASE Reserve \/ MapFails \/ Release
  BY <1>1 DEF Reserve, MapFails, Release, Unmapped, CrashInv
<1>2. CASE Steady
  <2>1. UNCHANGED <<file, layoutVars>> /\ stage \notin {"open", "released"}
    BY <1>2, SteadyKeeps
  <2>2. AllInImage(file.tables)' = AllInImage(file.tables)
    BY <2>1 DEF AllInImage, InImage, Biased, layoutVars
  <2>3. Gap' = Gap
    BY <2>1, GapSame
  <2>4. Laid
    BY <2>1 DEF PlaceInv
  <2>5. stage' \in {"unseal", "apply"} => AllInImage(file.tables)'
    <3>1. CASE Fill \/ Accept \/ Seal \/ Mapped \/ TakeCensus \/ Parse
      BY <2>2, <3>1 DEF Fill, Accept, Seal, Mapped, TakeCensus, Parse, CrashInv
    <3>2. CASE Unseal \/ Unsealed \/ Apply \/ ApplyCrashes \/ ApplyFails \/ Applied
      BY <2>2, <3>2 DEF Unseal, Unsealed, Apply, ApplyCrashes, ApplyFails, Applied, CrashInv
    <3>3. CASE Returns \/ LinkFails \/ OpenPatch \/ WritePatch \/ PatchFails \/ Run
      BY <2>2, <3>3 DEF Returns, LinkFails, OpenPatch, WritePatch, PatchFails, Run, CrashInv
    <3> QED BY <1>2, <3>1, <3>2, <3>3 DEF Steady
  <2>6. ASSUME stage' = "crashed" PROVE Gap
    <3>1. CASE Accept
      <4>1. /\ AllInImage(file.meta) /\ ~AllReadable(file.meta)
            /\ \A p \in PageNumber : rights[p] = Writable(p, Len(file.loads))
        <5>1. at - 1 = Len(file.loads)
          BY <3>1, FileTypes DEF Accept, PlaceInv
        <5> QED BY <2>6, <3>1, <5>1 DEF Accept, RightsInv, RightsOf
      <4>2. PICK r \in Range(file.meta) :
                ~Permits(Biased(r.vaddr), r.length, {"R"}) /\ InImage(Biased(r.vaddr), r.length)
        BY <4>1 DEF AllInImage, AllReadable
      <4>3. r.vaddr \in Address /\ r.length \in Nat
        BY PlaceTypes
      <4>4. InHole(r.vaddr, r.length)
        BY <2>4, <4>1, <4>2, <4>3, DeniedWritable
      <4> QED BY <4>4 DEF Gap
    <3>2. CASE TakeCensus \/ Parse
      <4>1. /\ AllInImage(file.symtab) /\ ~AllReadable(file.symtab)
            /\ \A p \in PageNumber : rights[p] = Declared(p)
        BY <2>6, <3>2 DEF TakeCensus, Parse, RightsInv, RightsOf
      <4>2. PICK r \in Range(file.symtab) :
                ~Permits(Biased(r.vaddr), r.length, {"R"}) /\ InImage(Biased(r.vaddr), r.length)
        BY <4>1 DEF AllInImage, AllReadable
      <4>3. r.vaddr \in Address /\ r.length \in Nat
        BY PlaceTypes
      <4>4. Unreadable(r.vaddr, r.length)
        BY <2>4, <4>1, <4>2, <4>3, DeniedDeclared
      <4> QED BY <4>4 DEF Gap
    <3>3. CASE ApplyCrashes
      <4>1. /\ \A p \in PageNumber : rights[p] = Writable(p, Len(file.loads))
            /\ AllInImage(file.tables)
        BY <3>3 DEF ApplyCrashes, RightsInv, RightsOf, CrashInv
      <4>2. CASE ~AllReadable(file.tables)
        <5>1. PICK r \in Range(file.tables) :
                ~Permits(Biased(r.vaddr), r.length, {"R"}) /\ InImage(Biased(r.vaddr), r.length)
          BY <4>1, <4>2 DEF AllInImage, AllReadable
        <5>2. r.vaddr \in Address /\ r.length \in Nat
          BY PlaceTypes
        <5>3. InHole(r.vaddr, r.length)
          BY <2>4, <4>1, <5>1, <5>2, DeniedWritable
        <5> QED BY <5>3 DEF Gap
      <4>3. CASE AllReadable(file.tables)
        <5> DEFINE r == file.relocs[at]
        <5>1. /\ InImage(Biased(r.offset), 1) /\ ~Permits(Biased(r.offset), 1, {"R", "W"})
              /\ at <= Len(file.relocs)
          BY <3>3, <4>3 DEF ApplyCrashes
        <5>2. r \in Range(file.relocs)
          BY <5>1, FileTypes DEF Range, PlaceInv
        <5>3. r.offset \in Address
          BY <5>2, PlaceTypes
        <5> HIDE DEF r
        <5>4. InHole(r.offset, 1)
          BY <2>4, <4>1, <5>1, <5>3, DeniedWritable
        <5> QED BY <5>2, <5>4 DEF Gap
      <4> QED BY <4>2, <4>3
    <3>4. CASE OpenPatch
      <4>1. /\ \A p \in PageNumber : rights[p] = Declared(p)
            /\ \A v \in file.patch : v + 1 <= size
            /\ ~ \A v \in file.patch : Permits(Biased(v), 1, {"R"})
        BY <2>6, <3>4 DEF OpenPatch, RightsInv, RightsOf
      <4>2. PICK v \in file.patch : v + 1 <= size /\ ~Permits(Biased(v), 1, {"R"})
        BY <4>1
      <4>3. v \in Nat /\ v \in Address
        BY PlaceTypes, ElfImageAssumption DEF Address
      <4>4. CASE v < low
        BY <4>4 DEF Gap
      <4>5. CASE v >= low
        <5>1. v \in low..low + size /\ v + 1 <= low + size
          BY <2>4, <4>2, <4>3, <4>5 DEF Laid
        <5>2. Biased(v) \in Address /\ Biased(v) \in Nat
          BY <2>4, <5>1, BiasedInside, ElfImageAssumption DEF Address
        <5>3. PICK b \in Biased(v)..Biased(v) + 1 - 1 : ~({"R"} \subseteq rights[b \div Page])
          BY <4>2 DEF Permits
        <5>4. b = Biased(v)
          BY <5>2
        <5>5. Biased(v) \div Page \in PageNumber
          BY <5>2, PageOfAddress
        <5>6. "R" \notin Declared(Biased(v) \div Page)
          BY <4>1, <5>3, <5>4, <5>5
        <5>7. v \in v..v + 1 - 1
          BY <4>3
        <5>8. Unreadable(v, 1)
          BY <4>5, <5>1, <5>6, <5>7 DEF Unreadable, Within
        <5> QED BY <5>8 DEF Gap
      <4> QED BY <2>4, <4>3, <4>4, <4>5 DEF Laid
    <3>5. CASE Fill \/ Seal \/ Mapped \/ Unseal \/ Unsealed \/ Apply \/ ApplyFails \/ Applied
      BY <2>6, <3>5 DEF Fill, Seal, Mapped, Unseal, Unsealed, Apply, ApplyFails, Applied
    <3>6. CASE Returns \/ LinkFails \/ WritePatch \/ PatchFails \/ Run
      BY <2>6, <3>6 DEF Returns, LinkFails, WritePatch, PatchFails, Run
    <3> QED BY <1>2, <3>1, <3>2, <3>3, <3>4, <3>5, <3>6 DEF Steady
  <2> QED BY <2>3, <2>5, <2>6 DEF CrashInv
<1> QED BY <1>1, <1>2, NextSteps

-----------------------------------------------------------------------------
(* Words.                                                                  *)

\* Segments among the first n that have a word for address a, and that word as
\* it is when these are copied.
From(a, n) ==
    {l \in Loads : l <= n /\ a - Biased(file.loads[l].vaddr) \in 0..file.loads[l].filesz - 1}
Copied(a, n) ==
    IF From(a, n) = {} THEN 0
    ELSE file.loads[Max(From(a, n))].words[a - Biased(file.loads[Max(From(a, n))].vaddr) + 1]

\* Relocations among the first n that write to address a; the word is what they
\* make of the copied one.
Hits(a, n) ==
    {i \in DOMAIN file.relocs :
        i <= n /\ Biased(file.relocs[i].offset) = a /\ ~Missing(file.relocs[i])}
WordIs(a, n) ==
    /\ \A i \in Hits(a, n) :
           mem[a] = Relocated(file.relocs[i], Copied(a, Len(file.loads)))
    /\ Hits(a, n) = {} => mem[a] = Copied(a, Len(file.loads))

Patched(a) == stage \in {"patched", "running"} /\ \E v \in file.patch : Biased(v) = a
Done == Returned \/ (stage = "restore" /\ status = 0)

MemOf(a) ==
    /\ stage = "fill" => mem[a] = Copied(a, at - 1)
    /\ stage \in {"seal", "mapped", "counted", "unseal"} => mem[a] = Copied(a, Len(file.loads))
    /\ stage = "apply" /\ OnePerWord => WordIs(a, at - 1)
    /\ Done /\ OnePerWord => IF Patched(a) THEN mem[a] = Home["patch"]
                             ELSE WordIs(a, Len(file.relocs))

MemInv ==
    /\ stage = "open" => \A a \in Address : mem[a] = 0
    /\ stage \in {"unseal", "apply"} => status = 0
    /\ \A a \in Address : MemOf(a)

LEMMA WordSame ==
    ASSUME UNCHANGED <<file, layoutVars>>, NEW a, NEW n
    PROVE  /\ Copied(a, n)' = Copied(a, n) /\ Hits(a, n)' = Hits(a, n)
           /\ OnePerWord' = OnePerWord
           /\ \A r, x : Relocated(r, x)' = Relocated(r, x) /\ Missing(r)' = Missing(r)
<1>1. \A r, x : Relocated(r, x)' = Relocated(r, x) /\ Missing(r)' = Missing(r)
  BY DEF Relocated, Missing, Value, Wraps, Biased, layoutVars
<1>2. From(a, n)' = From(a, n)
  BY DEF From, Loads, Biased, layoutVars
<1>3. Copied(a, n)' = Copied(a, n)
  BY <1>2 DEF Copied, Biased, layoutVars
<1>4. Hits(a, n)' = Hits(a, n) /\ OnePerWord' = OnePerWord
  BY <1>1 DEF Hits, OnePerWord, Biased, layoutVars
<1> QED BY <1>1, <1>3, <1>4

LEMMA WordIsSame ==
    ASSUME UNCHANGED <<file, layoutVars>>, NEW a, NEW n, mem'[a] = mem[a]
    PROVE  WordIs(a, n)' = WordIs(a, n)
<1>1. Hits(a, n)' = Hits(a, n) /\ Copied(a, Len(file.loads))' = Copied(a, Len(file.loads))
  <2>1. \A m : Copied(a, m)' = Copied(a, m)
    BY WordSame
  <2> QED BY <2>1, WordSame
<1>2. \A i : Relocated(file.relocs[i], Copied(a, Len(file.loads)))'
             = Relocated(file.relocs[i], Copied(a, Len(file.loads)))
  BY <1>1, WordSame DEF Relocated, Value, Wraps, Biased, layoutVars
<1> QED BY <1>1, <1>2 DEF WordIs

LEMMA CopiedFirst ==
    ASSUME PlaceInv, NEW a
    PROVE  Copied(a, 0) = 0
<1>1. From(a, 0) = {}
  <2> SUFFICES ASSUME NEW l \in From(a, 0) PROVE FALSE
    OBVIOUS
  <2>1. l \in DOMAIN file.loads /\ l <= 0
    BY DEF From, Loads
  <2>2. l \in 1..Len(file.loads) /\ Len(file.loads) \in Nat
    BY <2>1, FileTypes
  <2> QED BY <2>1, <2>2
<1> QED BY <1>1 DEF Copied

LEMMA CopiedNext ==
    ASSUME PlaceInv, at <= Len(file.loads), NEW a
    PROVE  LET load == file.loads[at]
               v == a - Biased(load.vaddr)
           IN  Copied(a, at) = IF load.memsz # 0 /\ v \in 0..load.filesz - 1
                               THEN load.words[v + 1] ELSE Copied(a, at - 1)
<1> DEFINE load == file.loads[at]
           v == a - Biased(load.vaddr)
<1>1. at \in DOMAIN file.loads /\ at \in Nat \ {0} /\ \A l \in DOMAIN file.loads : l \in Nat
  BY FileTypes DEF PlaceInv
<1>2. CASE load.memsz # 0 /\ v \in 0..load.filesz - 1
  <2>1. at \in From(a, at)
    BY <1>1, <1>2 DEF From, Loads
  <2>2. From(a, at) \in SUBSET (0..at)
    BY <1>1 DEF From, Loads
  <2>3. Max(From(a, at)) \in From(a, at) /\ at <= Max(From(a, at))
    BY <1>1, <2>1, <2>2, MaxIs
  <2>4. Max(From(a, at)) = at
    BY <1>1, <2>2, <2>3
  <2> QED BY <1>2, <2>1, <2>4 DEF Copied
<1>3. CASE ~(load.memsz # 0 /\ v \in 0..load.filesz - 1)
  <2>1. \A l \in Loads : l \in Nat
    BY <1>1 DEF Loads
  <2>2. \A l \in Loads : l # at => (l <= at <=> l <= at - 1)
    BY <1>1, <2>1
  <2>3. at \notin From(a, at) /\ at \notin From(a, at - 1)
    BY <1>1, <1>3 DEF From, Loads
  <2>4. From(a, at) = From(a, at - 1)
    BY <2>2, <2>3 DEF From
  <2> QED BY <1>3, <2>4 DEF Copied
<1> QED BY <1>2, <1>3

\* One relocation: its word is still the copied one, since it is the only one
\* of its word.
LEMMA HitsNext ==
    ASSUME PlaceInv, Laid, stage = "apply", at <= Len(file.relocs), OnePerWord, NEW a
    PROVE  LET r == file.relocs[at]
           IN  IF Biased(r.offset) = a /\ ~Missing(r)
               THEN Hits(a, at - 1) = {} /\ Hits(a, at) = {at}
               ELSE Hits(a, at) = Hits(a, at - 1)
<1> DEFINE r == file.relocs[at]
<1>1. at \in DOMAIN file.relocs /\ at \in Nat \ {0} /\ \A i \in DOMAIN file.relocs : i \in Nat
  BY FileTypes DEF PlaceInv
<1>2. \A i \in DOMAIN file.relocs : file.relocs[i].offset \in Address
  BY PlaceTypes DEF Range
<1>3. \A i \in DOMAIN file.relocs : i # at => (i <= at <=> i <= at - 1)
  BY <1>1
<1>4. CASE Biased(r.offset) = a /\ ~Missing(r)
  <2>1. \A i \in DOMAIN file.relocs : Biased(file.relocs[i].offset) = a => i = at
    <3> SUFFICES ASSUME NEW i \in DOMAIN file.relocs, Biased(file.relocs[i].offset) = a
                 PROVE  i = at
      OBVIOUS
    <3>1. file.relocs[i].offset = r.offset
      BY <1>1, <1>2, <1>4, BiasedApart
    <3> QED BY <1>1, <3>1 DEF OnePerWord
  <2>2. ~(at <= at - 1) /\ at <= at
    BY <1>1
  <2> QED BY <1>1, <1>4, <2>1, <2>2 DEF Hits
<1>5. CASE ~(Biased(r.offset) = a /\ ~Missing(r))
  BY <1>3, <1>5 DEF Hits
<1> QED BY <1>4, <1>5

LEMMA MemSteps ==
    ASSUME PlaceInv, TypeOK, MemInv, Next
    PROVE  MemInv'
<1> USE DEF Crash, Goto
<1>1. CASE Reserve
  <2>1. /\ mem' = mem /\ stage = "open" /\ stage' = "fill" /\ at' = 1 /\ PlaceInv'
        /\ UNCHANGED status
    BY <1>1, PlaceSteps DEF Reserve, linkVars
  <2>2. \A a : Copied(a, 0)' = 0
    <3> SUFFICES ASSUME NEW a PROVE Copied(a, 0)' = 0
      OBVIOUS
    <3> HIDE DEF Crash, Goto
    <3>1. From(a, 0)' = {}
      <4> SUFFICES ASSUME NEW l \in From(a, 0)' PROVE FALSE
        OBVIOUS
      <4>1. file' = file
        BY <1>1 DEF Reserve
      <4>2. l \in DOMAIN file.loads /\ l <= 0
        BY <4>1 DEF From, Loads
      <4>3. l \in 1..Len(file.loads) /\ Len(file.loads) \in Nat
        BY <4>2, FileTypes
      <4> QED BY <4>2, <4>3
    <3> QED BY <3>1 DEF Copied
  <2>3. ~Done'
    BY <2>1 DEF Done, Returned
  <2> QED BY <2>1, <2>2, <2>3 DEF MemInv, MemOf
<1>2. CASE MapFails \/ Release
  <2>1. stage' = "released"
    BY <1>2 DEF MapFails, Release, Unmapped
  <2> QED BY <2>1 DEF MemInv, MemOf, Done, Returned
<1>3. CASE Steady
  <2>1. UNCHANGED <<file, layoutVars>> /\ Laid /\ stage' # "open"
    BY <1>3, SteadyKeeps DEF PlaceInv
  <2>2. stage' \in {"unseal", "apply"} => status' = 0
    <3>1. CASE Fill \/ Accept \/ Seal \/ Mapped \/ TakeCensus \/ Parse
      BY <3>1 DEF Fill, Accept, Seal, Mapped, TakeCensus, Parse, MemInv, linkVars
    <3>2. CASE Unseal \/ Unsealed \/ Apply \/ ApplyCrashes \/ ApplyFails \/ Applied
      BY <3>2 DEF Unseal, Unsealed, Apply, ApplyCrashes, ApplyFails, Applied, MemInv, linkVars
    <3>3. CASE Returns \/ LinkFails \/ OpenPatch \/ WritePatch \/ PatchFails \/ Run
      BY <3>3 DEF Returns, LinkFails, OpenPatch, WritePatch, PatchFails, Run, MemInv, linkVars
    <3> QED BY <1>3, <3>1, <3>2, <3>3 DEF Steady
  <2>3. ASSUME NEW a \in Address PROVE MemOf(a)'
    <3> DEFINE last == Len(file.loads)
               count == Len(file.relocs)
    <3>0. MemOf(a)
      BY DEF MemInv
    <3>1. \A n : Copied(a, n)' = Copied(a, n) /\ Hits(a, n)' = Hits(a, n)
      BY <2>1, WordSame
    <3>2. /\ OnePerWord' = OnePerWord /\ Len(file.loads)' = last /\ Len(file.relocs)' = count
          /\ \A n : mem' = mem => WordIs(a, n)' = WordIs(a, n)
      <4>1. \A n : mem' = mem => WordIs(a, n)' = WordIs(a, n)
        BY <2>1, WordIsSame
      <4> QED BY <2>1, <4>1, WordSame
    <3>3. at \in Nat \ {0} /\ last \in Nat /\ count \in Nat /\ at + 1 - 1 = at /\ 1 - 1 = 0
      BY FileTypes DEF PlaceInv
    <3>4. CASE Fill
      <4> PICK k : k = at
        OBVIOUS
      <4>1. stage' = "fill" /\ at' - 1 = k /\ mem[a] = Copied(a, at - 1)
        BY <3>0, <3>3, <3>4 DEF Fill, MemOf
      <4> DEFINE load == file.loads[at]
                 v == a - Biased(load.vaddr)
      <4>2. Copied(a, at) = IF load.memsz # 0 /\ v \in 0..load.filesz - 1
                            THEN load.words[v + 1] ELSE Copied(a, at - 1)
        BY <3>4, CopiedNext DEF Fill
      <4>3. mem'[a] = IF load.memsz # 0 /\ v \in 0..load.filesz - 1
                      THEN load.words[v + 1] ELSE mem[a]
        BY <3>4 DEF Fill
      <4>4. mem'[a] = Copied(a, k)
        BY <4>1, <4>2, <4>3
      <4>5. mem'[a] = Copied(a, k)'
        BY <3>1, <4>4
      <4> QED BY <4>1, <4>5 DEF MemOf, Done, Returned
    <3>5. CASE Accept \/ Seal \/ Mapped \/ TakeCensus \/ Parse \/ Unseal
      <4>1. mem' = mem
        BY <3>5 DEF Accept, Seal, Mapped, TakeCensus, Parse, Unseal
      <4>2. CASE Accept
        <5>1. mem[a] = Copied(a, last)
          <6>1. at - 1 = last
            BY <3>3, <4>2 DEF Accept, PlaceInv
          <6> QED BY <3>0, <4>2, <6>1 DEF Accept, MemOf
        <5>2. stage' \in {"seal", "crashed"}
          BY <4>2 DEF Accept
        <5> QED BY <3>1, <3>2, <4>1, <5>1, <5>2 DEF MemOf, Done, Returned
      <4>3. CASE Seal /\ stage = "restore"
        <5>1. stage' = "restore" /\ status' = status
          BY <4>3 DEF Seal, linkVars
        <5> QED BY <3>0, <3>2, <4>1, <4>3, <5>1 DEF MemOf, Done, Returned, Patched
      <4>4. CASE Mapped \/ TakeCensus \/ Parse \/ Unseal \/ (Seal /\ stage # "restore")
        <5>1. /\ stage' \in {"seal", "mapped", "counted", "unseal", "crashed"}
              /\ stage \in {"seal", "mapped", "counted", "unseal"}
          BY <4>4 DEF Mapped, TakeCensus, Parse, Unseal, Seal
        <5> QED BY <3>0, <3>1, <3>2, <4>1, <5>1 DEF MemOf, Done, Returned
      <4> QED BY <3>5, <4>2, <4>3, <4>4
    <3>6. CASE Unsealed
      <4>1. mem' = mem /\ stage' = "apply" /\ at' - 1 = 0 /\ mem[a] = Copied(a, last)
        BY <3>0, <3>3, <3>6 DEF Unsealed, MemOf
      <4>2. Hits(a, 0) = {}
        <5> SUFFICES ASSUME NEW i \in Hits(a, 0) PROVE FALSE
          OBVIOUS
        <5>1. i \in DOMAIN file.relocs /\ i <= 0
          BY DEF Hits
        <5>2. i \in 1..count
          BY <5>1, FileTypes
        <5> QED BY <3>3, <5>1, <5>2
      <4>3. WordIs(a, 0)
        BY <4>1, <4>2 DEF WordIs
      <4>4. WordIs(a, 0)'
        BY <3>2, <4>1, <4>3
      <4> QED BY <4>1, <4>4 DEF MemOf, Done, Returned
    <3>7. CASE Apply
      <4> PICK k : k = at
        OBVIOUS
      <4> PICK r : r = file.relocs[at]
        OBVIOUS
      <4>1. stage = "apply" /\ stage' = "apply" /\ at' - 1 = k /\ at <= count
        BY <3>3, <3>7 DEF Apply
      <4>2. SUFFICES ASSUME OnePerWord PROVE WordIs(a, k)'
        BY <3>2, <4>1 DEF MemOf, Done, Returned
      <4>3. WordIs(a, at - 1)
        BY <3>0, <4>1, <4>2 DEF MemOf
      <4>4. IF Biased(r.offset) = a /\ ~Missing(r)
            THEN Hits(a, at - 1) = {} /\ Hits(a, k) = {k}
            ELSE Hits(a, k) = Hits(a, at - 1)
        BY <2>1, <4>1, <4>2, HitsNext
      <4>5. CASE Biased(r.offset) = a /\ ~Missing(r)
        <5>1. mem[a] = Copied(a, last)
          BY <4>3, <4>4, <4>5 DEF WordIs
        <5>2. mem' = [mem EXCEPT ![a] = Relocated(r, mem[a])]
          BY <3>7, <4>5 DEF Apply
        <5>3. mem'[a] = Relocated(r, Copied(a, last))
          BY <5>1, <5>2 DEF TypeOK
        <5>4. Hits(a, k)' = {k} /\ file'.relocs[k] = r
          BY <2>1, <3>1, <4>4, <4>5
        <5> PICK word : word = Copied(a, last)
          OBVIOUS
        <5>5. Relocated(r, word)' = Relocated(r, word) /\ word = Copied(a, Len(file.loads))'
          <6>1. Relocated(r, word)' = Relocated(r, word)
            BY <2>1, WordSame
          <6>2. \A n : Copied(a, n)' = Copied(a, n) /\ Len(file.loads)' = last
            BY <3>1, <3>2
          <6> QED BY <6>1, <6>2
        <5>6. mem'[a] = Relocated(file.relocs[k], Copied(a, Len(file.loads)))'
          BY <2>1, <5>3, <5>4, <5>5
        <5> QED BY <5>4, <5>6 DEF WordIs
      <4>6. CASE ~(Biased(r.offset) = a /\ ~Missing(r))
        <5>1. mem'[a] = mem[a]
          BY <3>7, <4>6 DEF Apply, TypeOK
        <5>2. WordIs(a, k)
          BY <4>3, <4>4, <4>6 DEF WordIs
        <5>3. WordIs(a, k)' = WordIs(a, k)
          BY <2>1, <5>1, WordIsSame
        <5> QED BY <5>2, <5>3
      <4> QED BY <4>5, <4>6
    <3>8. CASE Applied
      <4>1. at - 1 = count
        BY <3>3, <3>8 DEF Applied, PlaceInv
      <4>2. mem' = mem /\ stage = "apply" /\ stage' = "restore"
        BY <3>8 DEF Applied
      <4> QED BY <3>0, <3>2, <4>1, <4>2 DEF MemOf, Done, Returned, Patched
    <3>9. CASE Returns
      <4>1. mem' = mem /\ stage = "restore" /\ stage' \in {"linked", "failed"}
            /\ (stage' = "linked" => status = 0)
        BY <3>9 DEF Returns
      <4> QED BY <3>0, <3>2, <4>1 DEF MemOf, Done, Returned, Patched
    <3>10. CASE ApplyCrashes \/ ApplyFails \/ LinkFails \/ PatchFails
      <4>1. stage' \in {"crashed", "failed"} \/ (stage' = "restore" /\ status' = 1)
        BY <3>10 DEF ApplyCrashes, ApplyFails, LinkFails, PatchFails
      <4> QED BY <4>1 DEF MemOf, Done, Returned
    <3>11. CASE OpenPatch
      <4>1. mem' = mem /\ stage = "linked" /\ stage' \in {"patch", "crashed"}
        BY <3>11 DEF OpenPatch
      <4> QED BY <3>0, <3>2, <4>1 DEF MemOf, Done, Returned, Patched
    <3>12. CASE WritePatch
      <4>1. stage = "patch" /\ stage' = "patched"
            /\ mem'[a] = IF \E v \in file.patch : Biased(v) = a THEN Home["patch"] ELSE mem[a]
        BY <3>12 DEF WritePatch
      <4>2. (\E v \in file.patch : Biased(v) = a)' <=> (\E v \in file.patch : Biased(v) = a)
        BY <2>1 DEF Biased, layoutVars
      <4>3. CASE \E v \in file.patch : Biased(v) = a
        BY <4>1, <4>2, <4>3 DEF MemOf, Patched
      <4>4. CASE ~ \E v \in file.patch : Biased(v) = a
        <5>1. WordIs(a, count)' = WordIs(a, count)
          BY <2>1, <4>1, <4>4, WordIsSame
        <5>2. OnePerWord => WordIs(a, count)
          BY <3>0, <4>1 DEF MemOf, Done, Returned, Patched
        <5>3. OnePerWord' => WordIs(a, count)'
          BY <3>2, <5>1, <5>2
        <5>4. ~Patched(a)'
          BY <4>2, <4>4 DEF Patched
        <5> QED BY <2>1, <3>2, <4>1, <5>3, <5>4 DEF MemOf, Done
      <4> QED BY <4>3, <4>4
    <3>13. CASE Run
      <4>1. mem' = mem /\ stage' = "running" /\ stage \in {"patched", "linked"}
            /\ (stage = "linked" => file.patch = {})
        BY <3>13 DEF Run
      <4>2. (\E v \in file.patch : Biased(v) = a)' <=> (\E v \in file.patch : Biased(v) = a)
        BY <2>1 DEF Biased, layoutVars
      <4>3. Patched(a)' <=> Patched(a)
        BY <4>1, <4>2 DEF Patched
      <4> QED BY <3>0, <3>2, <4>1, <4>3 DEF MemOf, Done, Returned
    <3> QED BY <1>3, <3>4, <3>5, <3>6, <3>7, <3>8, <3>9, <3>10, <3>11, <3>12, <3>13 DEF Steady
  <2> QED BY <2>1, <2>2, <2>3 DEF MemInv
<1> QED BY <1>1, <1>2, <1>3, NextSteps

-----------------------------------------------------------------------------
(* What the link counts, what it keeps, and what the census said.          *)

\* Relocations among the first n that are left out, and those that put the
\* wrapper before an FMOD entry.
LeftOut(n) == {i \in 1..n : Missing(file.relocs[i])}
Wrapping(r) ==
    r.type \in Symbolic /\ r.symbol.defined = "no" /\ Wraps(r.symbol) /\ ~Missing(r)
NextReloc == IF stage = "apply" THEN at ELSE Len(file.relocs) + 1

CountInv ==
    /\ stage \in {"unseal", "apply"} => status = 0
    /\ stage = "unseal" => unresolved = 0
    /\ stage = "apply" \/ Done => unresolved = Cardinality(LeftOut(NextReloc - 1))
    /\ stage = "running" => unresolved = 0

BehindInv ==
    stage = "apply" \/ Done =>
        \A i \in DOMAIN file.relocs :
            i < NextReloc /\ Wrapping(file.relocs[i]) => behind = Home["guest"]

CensusInv ==
    stage \in {"counted", "unseal", "apply", "restore"} \/ Returned =>
        reported = {s \in Imports : Reported(s)}

LEMMA LinkSame ==
    ASSUME UNCHANGED <<file, layoutVars>>
    PROVE  /\ \A n : LeftOut(n)' = LeftOut(n)
           /\ \A r : Wrapping(r)' <=> Wrapping(r)
           /\ Imports' = Imports
<1>1. \A r : Missing(r)' = Missing(r)
  BY DEF Missing
<1>2. \A n : LeftOut(n)' = LeftOut(n)
  BY <1>1 DEF LeftOut
<1>3. \A r : Wrapping(r)' <=> Wrapping(r)
  BY <1>1 DEF Wrapping, Wraps
<1> QED BY <1>2, <1>3 DEF Imports

LEMMA LeftOutNext ==
    ASSUME PlaceInv, NEW n \in Nat \ {0}, n <= Len(file.relocs)
    PROVE  Cardinality(LeftOut(n)) = Cardinality(LeftOut(n - 1))
                                     + (IF Missing(file.relocs[n]) THEN 1 ELSE 0)
<1>1. IsFiniteSet(1..n - 1) /\ LeftOut(n - 1) \subseteq 1..n - 1
  BY FS_Interval DEF LeftOut
<1>2. IsFiniteSet(LeftOut(n - 1)) /\ Cardinality(LeftOut(n - 1)) \in Nat
  BY <1>1, FS_Subset, FS_CardinalityType
<1>3. 1..n = (1..n - 1) \cup {n} /\ n \notin 1..n - 1
  OBVIOUS
<1>4. CASE Missing(file.relocs[n])
  <2>1. LeftOut(n) = LeftOut(n - 1) \cup {n} /\ n \notin LeftOut(n - 1)
    BY <1>3, <1>4 DEF LeftOut
  <2>2. Cardinality(LeftOut(n)) = Cardinality(LeftOut(n - 1)) + 1
    BY <1>2, <2>1, FS_AddElement
  <2> QED BY <1>4, <2>2
<1>5. CASE ~Missing(file.relocs[n])
  <2>1. LeftOut(n) = LeftOut(n - 1)
    BY <1>3, <1>5 DEF LeftOut
  <2> QED BY <1>2, <1>5, <2>1
<1> QED BY <1>4, <1>5

LEMMA LinkSteps ==
    ASSUME PlaceInv, TypeOK, CountInv, BehindInv, CensusInv, Next
    PROVE  CountInv' /\ BehindInv' /\ CensusInv'
<1> USE DEF Crash, Goto
<1>1. CASE Reserve \/ MapFails \/ Release
  <2>1. stage' \in {"fill", "released"}
    BY <1>1 DEF Reserve, MapFails, Release, Unmapped
  <2> QED BY <2>1 DEF CountInv, BehindInv, CensusInv, Done, Returned
<1>2. CASE Steady
  <2> DEFINE count == Len(file.relocs)
  <2>1. UNCHANGED <<file, layoutVars>>
    BY <1>2, SteadyKeeps
  <2>2. /\ \A n : LeftOut(n)' = LeftOut(n)
        /\ \A r : Wrapping(r)' <=> Wrapping(r)
        /\ Imports' = Imports /\ Len(file.relocs)' = count
    BY <2>1, LinkSame
  <2>3. /\ at \in Nat \ {0} /\ count \in Nat /\ 1 - 1 = 0 /\ at + 1 - 1 = at
        /\ DOMAIN file.relocs = 1..count
    BY FileTypes DEF PlaceInv
  <2>4. CASE Fill \/ Accept \/ Mapped \/ ApplyCrashes \/ PatchFails \/ LinkFails
    <3>1. stage' \in {"fill", "seal", "crashed", "mapped", "failed"}
      BY <2>4 DEF Fill, Accept, Mapped, ApplyCrashes, PatchFails, LinkFails
    <3> QED BY <3>1 DEF CountInv, BehindInv, CensusInv, Done, Returned
  <2>5. CASE TakeCensus \/ Parse
    <3>1. \/ stage' = "crashed"
          \/ stage' = "counted" /\ reported' = {s \in Imports : Reported(s)}
          \/ /\ stage = "counted" /\ stage' = "unseal" /\ reported' = reported
             /\ unresolved' = 0 /\ status' = 0
      BY <2>5 DEF TakeCensus, Parse
    <3> QED BY <2>2, <3>1 DEF CountInv, BehindInv, CensusInv, Done, Returned
  <2>6. CASE Unseal \/ (Seal /\ stage = "seal")
    <3>1. stage' = stage /\ stage \in {"seal", "unseal"} /\ UNCHANGED linkVars
      BY <2>6 DEF Unseal, Seal
    <3> QED BY <2>2, <3>1 DEF CountInv, BehindInv, CensusInv, Done, Returned, linkVars
  <2>7. CASE Unsealed
    <3>1. /\ stage = "unseal" /\ stage' = "apply" /\ at' = 1 /\ UNCHANGED linkVars
      BY <2>7 DEF Unsealed
    <3>2. LeftOut(0) = {} /\ NextReloc' = 1
      BY <3>1 DEF LeftOut, NextReloc
    <3>3. Cardinality(LeftOut(NextReloc - 1))' = 0
      <4>1. LeftOut(0)' = {}
        BY <2>2, <3>2
      <4> QED BY <2>3, <3>2, <4>1, FS_EmptySet
    <3>4. CountInv'
      BY <3>1, <3>3 DEF CountInv, linkVars
    <3>5. BehindInv'
      BY <2>1, <2>3, <3>2 DEF BehindInv
    <3> QED BY <2>2, <3>1, <3>4, <3>5 DEF CensusInv, linkVars
  <2>8. CASE Apply
    <3> PICK k : k = at
      OBVIOUS
    <3> PICK r : r = file.relocs[at]
      OBVIOUS
    <3>1. /\ stage = "apply" /\ stage' = "apply" /\ at' = k + 1 /\ k \in 1..count
          /\ NextReloc = k /\ NextReloc' = k + 1 /\ NextReloc' - 1 = k
          /\ UNCHANGED <<status, reported>>
      BY <2>3, <2>8 DEF Apply, NextReloc
    <3>2. unresolved' = unresolved + (IF Missing(r) THEN 1 ELSE 0)
      BY <2>8 DEF Apply, TypeOK
    <3>3. unresolved' = Cardinality(LeftOut(k))
      BY <2>3, <3>1, <3>2, LeftOutNext DEF CountInv
    <3>4. LeftOut(NextReloc - 1)' = LeftOut(k)
      BY <2>2, <3>1
    <3>5. CountInv'
      BY <3>1, <3>3, <3>4 DEF CountInv, Done, Returned
    <3>6. behind' = IF Wrapping(r) THEN Home["guest"] ELSE behind
      BY <2>8 DEF Apply, Wrapping
    <3>7. behind = Home["guest"] => behind' = Home["guest"]
      BY <3>6
    <3>8. BehindInv'
      <4> SUFFICES ASSUME NEW i \in DOMAIN file'.relocs, i < NextReloc',
                          Wrapping(file.relocs[i])'
                   PROVE  behind' = Home["guest"]
        BY <2>1 DEF BehindInv
      <4>1. i \in DOMAIN file.relocs /\ i \in Nat /\ Wrapping(file.relocs[i]) /\ i < k + 1
        <5>1. file'.relocs[i] = file.relocs[i]
          BY <2>1
        <5> QED BY <2>1, <2>2, <2>3, <3>1, <5>1
      <4>2. CASE i = k
        BY <3>6, <4>1, <4>2
      <4>3. CASE i # k
        BY <3>1, <3>7, <4>1, <4>3 DEF BehindInv
      <4> QED BY <4>2, <4>3
    <3> QED BY <2>2, <3>1, <3>5, <3>8 DEF CensusInv
  <2>9. CASE Applied
    <3>1. /\ stage = "apply" /\ stage' = "restore" /\ UNCHANGED linkVars
          /\ NextReloc = count + 1 /\ NextReloc' = count + 1
      BY <2>2, <2>3, <2>9 DEF Applied, NextReloc, PlaceInv
    <3>2. unresolved = Cardinality(LeftOut(count))
      BY <2>3, <3>1 DEF CountInv
    <3>3. LeftOut(NextReloc - 1)' = LeftOut(count)
      BY <2>2, <2>3, <3>1
    <3>4. CountInv'
      BY <3>1, <3>2, <3>3 DEF CountInv, linkVars
    <3>5. BehindInv'
      BY <2>1, <2>2, <3>1 DEF BehindInv, linkVars
    <3> QED BY <2>2, <3>1, <3>4, <3>5 DEF CensusInv, linkVars
  <2>10. CASE ApplyFails
    <3>1. /\ stage = "apply" /\ stage' = "restore" /\ status' = 1 /\ reported' = reported
      BY <2>10 DEF ApplyFails
    <3> QED BY <2>2, <3>1 DEF CountInv, BehindInv, CensusInv, Done, Returned
  <2>11. CASE (Seal /\ stage = "restore") \/ Returns \/ OpenPatch \/ WritePatch \/ Run
    <3>1. UNCHANGED linkVars /\ (stage = "restore" \/ Returned)
      BY <2>11 DEF Seal, Returns, OpenPatch, WritePatch, Run, Returned
    <3>2. \/ stage' \in {"failed", "crashed"}
          \/ /\ Done' => Done
             /\ stage # "apply" /\ stage' # "apply" /\ stage' # "unseal"
             /\ stage' \in {"restore"} \/ Returned'
      BY <2>11 DEF Seal, Returns, OpenPatch, WritePatch, Run, Returned, Done, linkVars
    <3>3. stage # "apply" /\ stage' # "apply" => NextReloc' = NextReloc /\ NextReloc - 1 = count
      BY <2>2, <2>3 DEF NextReloc
    <3>4. stage' = "running" => unresolved' = 0
      BY <2>11, <3>1 DEF Seal, Returns, OpenPatch, WritePatch, Run, linkVars
    <3>5. CASE stage' \in {"failed", "crashed"}
      BY <3>5 DEF CountInv, BehindInv, CensusInv, Done, Returned
    <3>6. CASE stage' \notin {"failed", "crashed"}
      <4>1. LeftOut(NextReloc - 1)' = LeftOut(count) /\ NextReloc - 1 = count /\ NextReloc' = NextReloc
        BY <2>2, <3>2, <3>3, <3>6
      <4>2. CountInv'
        BY <3>1, <3>2, <3>4, <3>6, <4>1 DEF CountInv, linkVars
      <4>3. BehindInv'
        BY <2>1, <2>2, <3>1, <3>2, <3>6, <4>1 DEF BehindInv, linkVars
      <4>4. CensusInv'
        BY <2>2, <3>1 DEF CensusInv, linkVars
      <4> QED BY <4>2, <4>3, <4>4
    <3> QED BY <3>5, <3>6
  <2>12. Seal => stage \in {"seal", "restore"}
    BY DEF Seal
  <2> QED BY <1>2, <2>4, <2>5, <2>6, <2>7, <2>8, <2>9, <2>10, <2>11, <2>12 DEF Steady
<1> QED BY <1>1, <1>2, NextSteps

-----------------------------------------------------------------------------
(* Who provides a symbol.                                                  *)

LEMMA FirstIs ==
    ASSUME NEW n \in Nat, NEW order, DOMAIN order = 1..n, NEW providers,
           NEW k \in 1..n, order[k] \in providers,
           \A j \in 1..k - 1 : order[j] \notin providers
    PROVE  FirstOf(order, providers) = order[k]
<1> DEFINE those == {j \in DOMAIN order : order[j] \in providers}
<1>1. those \in SUBSET Nat /\ k \in those
  OBVIOUS
<1>2. Min(those) \in those /\ Min(those) <= k
  BY <1>1, MinIs
<1>3. Min(those) = k
  BY <1>1, <1>2
<1>4. those # {}
  BY <1>1
<1> QED BY <1>3, <1>4 DEF FirstOf

LEMMA NoneIs ==
    ASSUME NEW order, NEW providers, \A k \in DOMAIN order : order[k] \notin providers
    PROVE  FirstOf(order, providers) = "missing"
BY DEF FirstOf

\* Relocation and census, each with its providers in order.
LEMMA ProviderIs ==
    ASSUME NEW s, NEW i
    PROVE  LET v == Serving(s, i)
           IN  Provider(s, i) =
                 IF "guest" \in v THEN "guest" ELSE IF "aeabi" \in v THEN "aeabi"
                 ELSE IF "softfp" \in v THEN "softfp" ELSE IF "alias" \in v THEN "alias"
                 ELSE IF "compat" \in v THEN "compat" ELSE IF "blocked" \in v THEN "blocked"
                 ELSE IF "display" \in v THEN "display" ELSE IF "host" \in v THEN "host"
                 ELSE IF "eglproc" \in v THEN "eglproc" ELSE "missing"
<1> DEFINE v == Serving(s, i)
           order == <<"guest", "aeabi", "softfp", "alias", "compat", "blocked", "display",
                      "host", "eglproc">>
<1>1. Provider(s, i) = FirstOf(order, v)
  BY DEF Provider
<1>2. /\ DOMAIN order = 1..9
      /\ order[1] = "guest" /\ order[2] = "aeabi" /\ order[3] = "softfp" /\ order[4] = "alias"
      /\ order[5] = "compat" /\ order[6] = "blocked" /\ order[7] = "display"
      /\ order[8] = "host" /\ order[9] = "eglproc"
  OBVIOUS
<1> HIDE DEF order, v
<1>3. \A k \in 1..9 : order[k] \in v /\ (\A j \in 1..k - 1 : order[j] \notin v)
                      => Provider(s, i) = order[k]
  <2> SUFFICES ASSUME NEW k \in 1..9, order[k] \in v, \A j \in 1..k - 1 : order[j] \notin v
               PROVE  FirstOf(order, v) = order[k]
    BY <1>1
  <2>1. DOMAIN order = 1..9
    BY <1>2
  <2> QED BY <2>1, FirstIs
<1>4. (\A k \in 1..9 : order[k] \notin v) => Provider(s, i) = "missing"
  BY <1>1, <1>2, NoneIs
<1>5. CASE \E k \in 1..9 : order[k] \in v
  <2>1. CASE order[1] \in v
    BY <1>2, <1>3, <2>1 DEF v
  <2>2. CASE order[1] \notin v /\ order[2] \in v
    BY <1>2, <1>3, <2>2 DEF v
  <2>3. CASE order[1] \notin v /\ order[2] \notin v /\ order[3] \in v
    BY <1>2, <1>3, <2>3 DEF v
  <2>4. CASE (\A j \in 1..3 : order[j] \notin v) /\ order[4] \in v
    BY <1>2, <1>3, <2>4 DEF v
  <2>5. CASE (\A j \in 1..4 : order[j] \notin v) /\ order[5] \in v
    BY <1>2, <1>3, <2>5 DEF v
  <2>6. CASE (\A j \in 1..5 : order[j] \notin v) /\ order[6] \in v
    BY <1>2, <1>3, <2>6 DEF v
  <2>7. CASE (\A j \in 1..6 : order[j] \notin v) /\ order[7] \in v
    BY <1>2, <1>3, <2>7 DEF v
  <2>8. CASE (\A j \in 1..7 : order[j] \notin v) /\ order[8] \in v
    BY <1>2, <1>3, <2>8 DEF v
  <2>9. CASE (\A j \in 1..8 : order[j] \notin v) /\ order[9] \in v
    BY <1>2, <1>3, <2>9 DEF v
  <2> QED BY <1>5, <2>1, <2>2, <2>3, <2>4, <2>5, <2>6, <2>7, <2>8, <2>9
<1>6. CASE \A k \in 1..9 : order[k] \notin v
  BY <1>2, <1>4, <1>6 DEF v
<1> QED BY <1>5, <1>6

LEMMA CensusIs ==
    ASSUME NEW s
    PROVE  LET v == Found(s)
           IN  Census(s) =
                 IF "guest" \in v THEN "guest" ELSE IF "softfp" \in v THEN "softfp"
                 ELSE IF "compat" \in v THEN "compat" ELSE IF "blocked" \in v THEN "blocked"
                 ELSE IF "host" \in v THEN "host" ELSE IF "weak" \in v THEN "weak"
                 ELSE "missing"
<1> DEFINE v == Found(s)
           order == <<"guest", "softfp", "compat", "blocked", "host", "weak">>
<1>1. Census(s) = FirstOf(order, v)
  BY DEF Census
<1>2. /\ DOMAIN order = 1..6
      /\ order[1] = "guest" /\ order[2] = "softfp" /\ order[3] = "compat"
      /\ order[4] = "blocked" /\ order[5] = "host" /\ order[6] = "weak"
  OBVIOUS
<1> HIDE DEF order, v
<1>3. \A k \in 1..6 : order[k] \in v /\ (\A j \in 1..k - 1 : order[j] \notin v)
                      => Census(s) = order[k]
  <2> SUFFICES ASSUME NEW k \in 1..6, order[k] \in v, \A j \in 1..k - 1 : order[j] \notin v
               PROVE  FirstOf(order, v) = order[k]
    BY <1>1
  <2>1. DOMAIN order = 1..6
    BY <1>2
  <2> QED BY <2>1, FirstIs
<1>4. (\A k \in 1..6 : order[k] \notin v) => Census(s) = "missing"
  BY <1>1, <1>2, NoneIs
<1>5. CASE \E k \in 1..6 : order[k] \in v
  <2>1. CASE order[1] \in v
    BY <1>2, <1>3, <2>1 DEF v
  <2>2. CASE order[1] \notin v /\ order[2] \in v
    BY <1>2, <1>3, <2>2 DEF v
  <2>3. CASE order[1] \notin v /\ order[2] \notin v /\ order[3] \in v
    BY <1>2, <1>3, <2>3 DEF v
  <2>4. CASE (\A j \in 1..3 : order[j] \notin v) /\ order[4] \in v
    BY <1>2, <1>3, <2>4 DEF v
  <2>5. CASE (\A j \in 1..4 : order[j] \notin v) /\ order[5] \in v
    BY <1>2, <1>3, <2>5 DEF v
  <2>6. CASE (\A j \in 1..5 : order[j] \notin v) /\ order[6] \in v
    BY <1>2, <1>3, <2>6 DEF v
  <2> QED BY <1>5, <2>1, <2>2, <2>3, <2>4, <2>5, <2>6
<1>6. CASE \A k \in 1..6 : order[k] \notin v
  BY <1>2, <1>4, <1>6 DEF v
<1> QED BY <1>5, <1>6

\* A name that needs a bridge never gets what the host has of that name.
LEMMA BridgedProvider ==
    ASSUME NEW s \in Symbol, NEW i \in Nat,
           s.bionic \/ (s.softfp /\ "softfp" \in s.offers)
    PROVE  Provider(s, i) \notin {"display", "host", "eglproc"}
<1> DEFINE v == Serving(s, i)
<1>1. "blocked" \in v \/ "softfp" \in v
  BY DEF Serving
<1> QED BY <1>1, ProviderIs

\* Where they do not differ, the census reports what relocation leaves out.
LEMMA CensusAgrees ==
    ASSUME NEW s \in Symbol, file.index \in Nat, ~Differ(s)
    PROVE  Reported(s) <=> Unresolved(s, file.index)
<1> DEFINE i == file.index
           v == Serving(s, i)
           f == Found(s)
<1>0. /\ s.exporters \in SUBSET Nat
      /\ s.weak \in BOOLEAN /\ s.softfp \in BOOLEAN /\ s.bionic \in BOOLEAN
  BY DEF Symbol
<1>1. /\ ~s.weak /\ (s.softfp => "softfp" \in s.offers)
      /\ s.exporters # {} => \E j \in s.exporters : j < i
      /\ Provider(s, i) \notin {"aeabi", "alias", "display", "eglproc"}
  <2>1. \A j \in s.exporters : j < i <=> ~(j >= i)
    BY <1>0
  <2> QED BY <2>1 DEF Differ
<1>2. /\ "guest" \in v <=> "guest" \in f
      /\ "softfp" \in v <=> "softfp" \in f
      /\ "compat" \in v <=> "compat" \in f
      /\ "blocked" \in v <=> "blocked" \in f
      /\ "host" \in v <=> "host" \in f
      /\ "weak" \notin f
  BY <1>0, <1>1 DEF Serving, Found, Open
<1>3. Provider(s, i) =
        IF "guest" \in v THEN "guest" ELSE IF "aeabi" \in v THEN "aeabi"
        ELSE IF "softfp" \in v THEN "softfp" ELSE IF "alias" \in v THEN "alias"
        ELSE IF "compat" \in v THEN "compat" ELSE IF "blocked" \in v THEN "blocked"
        ELSE IF "display" \in v THEN "display" ELSE IF "host" \in v THEN "host"
        ELSE IF "eglproc" \in v THEN "eglproc" ELSE "missing"
  BY ProviderIs
<1>4. Census(s) =
        IF "guest" \in f THEN "guest" ELSE IF "softfp" \in f THEN "softfp"
        ELSE IF "compat" \in f THEN "compat" ELSE IF "blocked" \in f THEN "blocked"
        ELSE IF "host" \in f THEN "host" ELSE IF "weak" \in f THEN "weak"
        ELSE "missing"
  BY CensusIs
<1>5. Census(s) \in {"blocked", "missing"} <=> Provider(s, i) \in {"blocked", "missing"}
  <2> HIDE DEF v, f, i
  <2> QED BY <1>1, <1>2, <1>3, <1>4
<1> QED BY <1>1, <1>5 DEF Reported, Unresolved

-----------------------------------------------------------------------------
(* The invariant.                                                          *)

IInv ==
    /\ PlaceInv /\ TypeOK
    /\ RightsInv /\ CrashInv
    /\ MemInv /\ CountInv /\ BehindInv /\ CensusInv

LEMMA InitHolds == Init => IInv
<1> SUFFICES ASSUME Init PROVE IInv
  OBVIOUS
<1>1. WordSize \in Nat \ {0} /\ 0 \in Address
  BY ElfImageAssumption DEF Address
<1>2. /\ PlaceInv
  BY DEF Init, PlaceInv, Stages
<1>3. TypeOK
  BY <1>1 DEF Init, TypeOK
<1>4. RightsInv
  BY DEF Init, RightsInv, RightsOf
<1>5. CrashInv /\ MemInv /\ CountInv /\ BehindInv /\ CensusInv
  BY DEF Init, CrashInv, MemInv, MemOf, CountInv, BehindInv, CensusInv, Done, Returned
<1> QED BY <1>2, <1>3, <1>4, <1>5 DEF IInv

LEMMA Stutters ==
    ASSUME IInv, UNCHANGED vars
    PROVE  IInv'
<1> USE DEF IInv, vars, linkVars
<1>1. UNCHANGED <<file, layoutVars>>
  OBVIOUS
<1>2. PlaceInv' /\ TypeOK'
  BY DEF PlaceInv, TypeOK, Laid, Here, Imports, layoutVars
<1>3. RightsInv'
  <2> SUFFICES ASSUME NEW p \in PageNumber PROVE RightsOf(p)'
    BY DEF RightsInv
  <2>1. /\ \A n : /\ Writable(p, n)' = Writable(p, n)
                  /\ Sealed(p, n)' = Sealed(p, n) /\ Opened(p, n)' = Opened(p, n)
        /\ Declared(p)' = Declared(p) /\ PatchPages' = PatchPages
    BY <1>1, OnSame
  <2>2. RightsOf(p)
    BY DEF RightsInv
  <2> QED BY <2>1, <2>2 DEF RightsOf
<1>4. CrashInv'
  <2>1. Gap' = Gap /\ AllInImage(file.tables)' = AllInImage(file.tables)
    BY <1>1, GapSame DEF AllInImage, InImage, Biased, layoutVars
  <2> QED BY <2>1 DEF CrashInv
<1>5. MemInv'
  <2>1. ASSUME NEW a \in Address PROVE MemOf(a)'
    <3>1. /\ \A n : Copied(a, n)' = Copied(a, n)
          /\ \A n : WordIs(a, n)' = WordIs(a, n)
          /\ OnePerWord' = OnePerWord
      BY <1>1, WordSame, WordIsSame
    <3>2. Patched(a)' <=> Patched(a)
      BY DEF Patched, Biased, layoutVars
    <3>3. MemOf(a)
      BY DEF MemInv
    <3> QED BY <3>1, <3>2, <3>3 DEF MemOf, Done, Returned
  <2> QED BY <2>1 DEF MemInv
<1>6. CountInv' /\ BehindInv' /\ CensusInv'
  <2>1. /\ \A n : LeftOut(n)' = LeftOut(n)
        /\ \A r : Wrapping(r)' <=> Wrapping(r)
        /\ Imports' = Imports /\ NextReloc' = NextReloc
    BY <1>1, LinkSame DEF NextReloc
  <2>2. CountInv' /\ CensusInv'
    BY <2>1 DEF CountInv, CensusInv, Done, Returned
  <2>3. BehindInv'
    BY <2>1 DEF BehindInv, Done, Returned
  <2> QED BY <2>2, <2>3
<1> QED BY <1>2, <1>3, <1>4, <1>5, <1>6

\* The inductive invariant: where every segment is, what each page shows and
\* each word holds at every stage, and what the link has counted so far.
THEOREM Invariance == Spec => []IInv
<1>1. IInv /\ [Next]_vars => IInv'
  <2> SUFFICES ASSUME IInv, [Next]_vars PROVE IInv'
    OBVIOUS
  <2>1. CASE Next
    BY <2>1, PlaceSteps, TypeSteps, RightsSteps, CrashSteps, MemSteps, LinkSteps DEF IInv
  <2>2. CASE UNCHANGED vars
    BY <2>2, Stutters
  <2> QED BY <2>1, <2>2
<1> QED BY <1>1, InitHolds, PTL DEF Spec

-----------------------------------------------------------------------------
(* What follows.                                                           *)

\* The loader and the patches fault only at a table, a relocation or a word
\* that lies in a hole of the image or where it may not be read.
THEOREM CrashesOnlyInGap == Spec => []CrashOnlyInGap
<1>1. IInv => CrashOnlyInGap
  BY DEF IInv, CrashInv, CrashOnlyInGap
<1> QED BY <1>1, Invariance, PTL

\* Every time elf32_map, elf32_relocate and the patches are done, the pages have
\* the rights the file declares; a released image has none.
THEOREM PagesComeBack == Spec => []PagesAsDeclared
<1>1. IInv => PagesAsDeclared
  <2> SUFFICES ASSUME RightsInv PROVE PagesAsDeclared
    BY DEF IInv
  <2>1. ASSUME stage \in {"mapped", "counted", "linked", "patched", "running"},
               NEW p \in PageNumber, p \notin PatchPages \/ Declared(p) = {"R", "X"}
        PROVE  rights[p] = Declared(p)
    <3>1. RightsOf(p)
      BY DEF RightsInv
    <3> QED BY <2>1, <3>1 DEF RightsOf
  <2>2. ASSUME stage = "released", NEW p \in PageNumber PROVE rights[p] = {}
    BY <2>2 DEF RightsInv, RightsOf
  <2> QED BY <2>1, <2>2 DEF PagesAsDeclared
<1> QED BY <1>1, Invariance, PTL

\* Words of the file, wherever they are and however they wrap.
LEMMA CopiedIsLoaded ==
    ASSUME PlaceInv, Laid, \A l \in DOMAIN file.loads : Here(file.loads[l]),
           NEW v \in low..low + size
    PROVE  Copied(Biased(v), Len(file.loads)) = Loaded(v)
<1> DEFINE a == Biased(v)
           last == Len(file.loads)
           from == {l \in Loads : v - file.loads[l].vaddr \in 0..file.loads[l].filesz - 1}
<1>1. a = start + v - low /\ last \in Nat
  BY BiasedInside, FileTypes
<1>2. ASSUME NEW l \in Loads
      PROVE  l <= last /\ a - Biased(file.loads[l].vaddr) = v - file.loads[l].vaddr
  <2>1. l \in 1..last /\ file.loads[l] \in Load /\ file.loads[l].memsz # 0
    BY FileTypes DEF Loads
  <2>2. file.loads[l].vaddr \in Nat /\ file.loads[l].memsz \in Nat
    BY <2>1, ElfImageAssumption DEF Load, Address
  <2>3. low <= file.loads[l].vaddr /\ file.loads[l].vaddr + file.loads[l].memsz <= low + size
    BY <2>1, FileTypes DEF Here
  <2>4. file.loads[l].vaddr \in low..low + size
    BY <2>2, <2>3 DEF Laid
  <2>5. Biased(file.loads[l].vaddr) = start + file.loads[l].vaddr - low
    BY <2>4, BiasedInside
  <2> QED BY <1>1, <2>1, <2>2, <2>5 DEF Laid
<1> HIDE DEF a, last
<1>3. From(a, last) = from
  BY <1>2 DEF From
<1>4. CASE from = {}
  BY <1>3, <1>4 DEF Copied, Loaded, a, last
<1>5. CASE from # {}
  <2>1. from \in SUBSET (0..last)
    BY <1>1, FileTypes DEF Loads, last
  <2>2. Max(from) \in from
    BY <1>1, <1>5, <2>1, MaxIs
  <2> DEFINE m == Max(from)
  <2>3. a - Biased(file.loads[m].vaddr) = v - file.loads[m].vaddr
    BY <1>2, <2>2
  <2>4. Copied(a, last) = file.loads[m].words[a - Biased(file.loads[m].vaddr) + 1]
    BY <1>3, <1>5 DEF Copied
  <2>5. Loaded(v) = file.loads[m].words[v - file.loads[m].vaddr + 1]
    BY <1>5 DEF Loaded
  <2> QED BY <2>3, <2>4, <2>5 DEF a, last
<1> QED BY <1>4, <1>5

\* When elf32_relocate has returned 0 every word is what its one relocation
\* makes of the file's word, or the file's; those left out are counted, and
\* guest code runs only if there is none.
THEOREM LinksAsSpecified == Spec => []LinkedAsSpecified
<1>1. IInv => LinkedAsSpecified
  <2> SUFFICES ASSUME IInv PROVE LinkedAsSpecified
    OBVIOUS
  <2> USE DEF IInv
  <2>0. DOMAIN file.relocs = 1..Len(file.relocs) /\ Len(file.relocs) \in Nat
    BY FileTypes
  <2>1. Returned => unresolved = Cardinality(LeftOut(Len(file.relocs)))
    <3> SUFFICES ASSUME Returned PROVE unresolved = Cardinality(LeftOut(Len(file.relocs)))
      OBVIOUS
    <3>1. NextReloc - 1 = Len(file.relocs)
      BY <2>0 DEF NextReloc, Returned
    <3> QED BY <3>1 DEF CountInv, Done
  <2>2. Returned => unresolved = Quantify(DOMAIN file.relocs, LAMBDA i : Missing(file.relocs[i]))
    BY <2>0, <2>1 DEF Quantify, LeftOut
  <2>3. ASSUME Returned, OnePerWord, NEW l \in Loads,
               NEW v \in file.loads[l].vaddr..file.loads[l].vaddr + file.loads[l].memsz - 1,
               ~(v \in file.patch /\ stage \in {"patched", "running"})
        PROVE  mem[Biased(v)] = Linked(v)
    <3>1. Laid /\ \A k \in DOMAIN file.loads : Here(file.loads[k])
      BY <2>3 DEF PlaceInv, Returned
    <3>2. v \in low..low + size /\ v \in Address
      <4>1. l \in DOMAIN file.loads /\ file.loads[l] \in Load /\ file.loads[l].memsz # 0
        BY FileTypes DEF Loads
      <4>2. file.loads[l].vaddr \in Nat /\ file.loads[l].memsz \in Nat
        BY <4>1, ElfImageAssumption DEF Load, Address
      <4>3. low <= file.loads[l].vaddr /\ file.loads[l].vaddr + file.loads[l].memsz <= low + size
        BY <3>1, <4>1 DEF Here
      <4> QED BY <3>1, <4>2, <4>3, ElfImageAssumption DEF Laid, Address
    <3> DEFINE a == Biased(v)
    <3>3. a \in Address
      BY <3>1, <3>2, BiasedValue
    <3>4. ~Patched(a)
      <4> SUFFICES ASSUME stage \in {"patched", "running"}, NEW w \in file.patch, Biased(w) = a
                   PROVE  FALSE
        BY DEF Patched
      <4>1. w = v
        BY <3>1, <3>2, PlaceTypes, BiasedApart
      <4> QED BY <2>3, <4>1
    <3>5. WordIs(a, Len(file.relocs))
      BY <2>3, <3>3, <3>4 DEF MemInv, MemOf, Done
    <3>6. Copied(a, Len(file.loads)) = Loaded(v)
      BY <3>1, <3>2, CopiedIsLoaded
    <3>7. \A i \in DOMAIN file.relocs : Biased(file.relocs[i].offset) = a
                                        <=> file.relocs[i].offset = v
      <4> SUFFICES ASSUME NEW i \in DOMAIN file.relocs, Biased(file.relocs[i].offset) = a
                   PROVE  file.relocs[i].offset = v
        OBVIOUS
      <4>1. file.relocs[i].offset \in Address
        BY PlaceTypes DEF Range
      <4> QED BY <3>1, <3>2, <4>1, BiasedApart
    <3>8. CASE \E r \in Range(file.relocs) : r.offset = v /\ ~Missing(r)
      <4>1. PICK i \in DOMAIN file.relocs :
                file.relocs[i].offset = v /\ ~Missing(file.relocs[i])
        BY <3>8 DEF Range
      <4>2. i \in Hits(a, Len(file.relocs))
        BY <2>0, <3>7, <4>1 DEF Hits
      <4>3. mem[a] = Relocated(file.relocs[i], Loaded(v))
        BY <3>5, <3>6, <4>2 DEF WordIs
      <4>4. \A r \in Range(file.relocs) : r.offset = v => r = file.relocs[i]
        BY <2>3, <4>1 DEF OnePerWord, Range
      <4>5. file.relocs[i] \in Range(file.relocs)
        BY <4>1 DEF Range
      <4>6. (CHOOSE r \in Range(file.relocs) : r.offset = v) = file.relocs[i]
        BY <4>1, <4>4, <4>5
      <4> QED BY <3>8, <4>3, <4>6 DEF Linked
    <3>9. CASE ~ \E r \in Range(file.relocs) : r.offset = v /\ ~Missing(r)
      <4>1. Hits(a, Len(file.relocs)) = {}
        BY <3>7, <3>9 DEF Hits, Range
      <4>2. mem[a] = Loaded(v)
        BY <3>5, <3>6, <4>1 DEF WordIs
      <4> QED BY <3>9, <4>2 DEF Linked
    <3> QED BY <3>8, <3>9
  <2>4. ASSUME stage = "running", NEW r \in Range(file.relocs) PROVE ~Missing(r)
    <3>1. PICK i \in DOMAIN file.relocs : r = file.relocs[i]
      BY DEF Range
    <3>2. Cardinality(LeftOut(Len(file.relocs))) = 0
      BY <2>1, <2>4 DEF Returned, CountInv
    <3>3. LeftOut(Len(file.relocs)) = {}
      <4>1. IsFiniteSet(1..Len(file.relocs)) /\ LeftOut(Len(file.relocs)) \subseteq 1..Len(file.relocs)
        BY <2>0, FS_Interval DEF LeftOut
      <4>2. IsFiniteSet(LeftOut(Len(file.relocs)))
        BY <4>1, FS_Subset
      <4> QED BY <3>2, <4>2, FS_EmptySet
    <3> QED BY <2>0, <3>1, <3>3 DEF LeftOut
  <2> QED BY <2>2, <2>3, <2>4 DEF LinkedAsSpecified
<1> QED BY <1>1, Invariance, PTL

\* The word an import got names what Value says, unless a patch replaced it.
LEMMA ImportWord ==
    ASSUME IInv, Returned, OnePerWord, NEW i \in DOMAIN file.relocs,
           file.relocs[i].type \in {"glob_dat", "jump_slot"}, ~Missing(file.relocs[i])
    PROVE  mem[Biased(file.relocs[i].offset)] \in {Home["patch"], Value(file.relocs[i].symbol)}
<1> DEFINE r == file.relocs[i]
           a == Biased(r.offset)
<1>1. Laid /\ r.offset \in Address
  BY PlaceTypes DEF IInv, PlaceInv, Returned, Range
<1>2. a \in Address
  BY <1>1, BiasedValue
<1>3. MemOf(a)
  BY <1>2 DEF IInv, MemInv
<1>4. CASE Patched(a)
  BY <1>3, <1>4 DEF MemOf, Done
<1>5. CASE ~Patched(a)
  <2>1. WordIs(a, Len(file.relocs))
    BY <1>3, <1>5 DEF MemOf, Done
  <2>2. i \in Hits(a, Len(file.relocs))
    BY FileTypes DEF Hits, IInv
  <2>3. mem[a] = Relocated(r, Copied(a, Len(file.loads)))
    BY <2>1, <2>2 DEF WordIs
  <2>4. mem[a] = Value(r.symbol)
    BY <2>3 DEF Relocated
  <2> QED BY <2>4
<1> QED BY <1>4, <1>5

\* No Bionic or soft-float name is bound to the host's function of that name,
\* and a wrapped FMOD entry has the guest's own behind it.
THEOREM BridgesKeepTheHostAway == Spec => []BridgedNeverRaw
<1>1. IInv => BridgedNeverRaw
  <2> SUFFICES ASSUME IInv, Returned, OnePerWord, NEW r \in Range(file.relocs),
                      r.type \in {"glob_dat", "jump_slot"}, r.symbol.defined = "no", ~Missing(r)
               PROVE  /\ r.symbol.bionic \/ (r.symbol.softfp /\ "softfp" \in r.symbol.offers)
                         => mem[Biased(r.offset)]
                            \notin {Home["host"], Home["display"], Home["eglproc"]}
                      /\ mem[Biased(r.offset)] = Home["wrapper"] => behind = Home["guest"]
    BY DEF BridgedNeverRaw
  <2>1. PICK i \in DOMAIN file.relocs : r = file.relocs[i]
    BY DEF Range
  <2> DEFINE s == r.symbol
             who == Provider(s, file.index)
             word == mem[Biased(r.offset)]
  <2>2. word \in {Home["patch"], Value(s)}
    BY <2>1, ImportWord
  <2>3. /\ DOMAIN Home = Open \cup {"guest", "softfp", "eglproc", "wrapper", "patch"}
        /\ \A p \in DOMAIN Home : Home[p] # 0
        /\ \A p, q \in DOMAIN Home : Home[p] = Home[q] => p = q
    <3>1. \A p \in DOMAIN Home : Home[p] \in Address \ {0}
      BY ElfImageAssumption
    <3> QED BY <3>1, ElfImageAssumption
  <2>4. {"host", "display", "eglproc", "wrapper", "patch", "guest"} \subseteq DOMAIN Home
    BY <2>3 DEF Open
  <2>5. s \in Symbol /\ file.index \in Nat
    <3>1. r \in Relocation /\ file \in File
      BY PlaceTypes, FileTypes DEF IInv
    <3> QED BY <3>1 DEF Relocation, File
  <2>6. Value(s) = IF Wraps(s) THEN Home["wrapper"]
                   ELSE IF who \in DOMAIN Home THEN Home[who] ELSE 0
    BY DEF Value
  <2>7. ASSUME s.bionic \/ (s.softfp /\ "softfp" \in s.offers)
        PROVE  word \notin {Home["host"], Home["display"], Home["eglproc"]}
    <3>1. who \notin {"host", "display", "eglproc"}
      BY <2>5, <2>7, BridgedProvider
    <3> HIDE DEF who, word, s
    <3>2. CASE word = Home["patch"]
      BY <2>3, <2>4, <3>2
    <3>3. CASE word = Value(s)
      BY <2>3, <2>4, <2>6, <3>1, <3>3
    <3> QED BY <2>2, <3>2, <3>3
  <2>8. ASSUME word = Home["wrapper"] PROVE behind = Home["guest"]
    <3>1. who # "wrapper"
      BY ProviderIs
    <3>2. Wraps(s)
      <4> HIDE DEF who, word, s
      <4>1. word # Home["patch"]
        BY <2>3, <2>4, <2>8
      <4>2. word = Value(s)
        BY <2>2, <4>1
      <4> QED BY <2>3, <2>4, <2>6, <2>8, <3>1, <4>2
    <3>3. Wrapping(r)
      BY <3>2 DEF Wrapping, Symbolic
    <3>4. i < NextReloc
      BY FileTypes DEF IInv, NextReloc, Returned
    <3> QED BY <2>1, <3>3, <3>4 DEF IInv, BehindInv, Done
  <2> QED BY <2>7, <2>8
<1> QED BY <1>1, Invariance, PTL

\* Where census and relocation look in the same places, the census reports a
\* name exactly if the guest cannot run for want of it.
THEOREM CensusIsRight == Spec => []CensusForetells
<1>1. IInv => CensusForetells
  <2> SUFFICES ASSUME IInv, Returned, \A s \in Imports : ~Differ(s)
               PROVE  reported = {} <=> unresolved = 0
    BY DEF CensusForetells
  <2>0. DOMAIN file.relocs = 1..Len(file.relocs) /\ Len(file.relocs) \in Nat /\ file \in File
    BY FileTypes DEF IInv
  <2>1. reported = {s \in Imports : Reported(s)}
    BY DEF IInv, CensusInv
  <2>2. \A s \in Imports : s \in Symbol
    <3>1. \A r \in Range(file.relocs) : r.symbol \in Symbol
      BY PlaceTypes DEF IInv, Relocation
    <3> QED BY <3>1 DEF Imports
  <2>3. \A s \in Imports : Reported(s) <=> Unresolved(s, file.index)
    <3>1. file.index \in Nat
      BY <2>0 DEF File
    <3> QED BY <2>2, <3>1, CensusAgrees
  <2>4. unresolved = 0 <=> LeftOut(Len(file.relocs)) = {}
    <3>1. NextReloc - 1 = Len(file.relocs)
      BY <2>0 DEF NextReloc, Returned
    <3>2. unresolved = Cardinality(LeftOut(Len(file.relocs)))
      BY <3>1 DEF IInv, CountInv, Done
    <3>3. IsFiniteSet(1..Len(file.relocs)) /\ LeftOut(Len(file.relocs)) \subseteq 1..Len(file.relocs)
      BY <2>0, FS_Interval DEF LeftOut
    <3>4. IsFiniteSet(LeftOut(Len(file.relocs)))
      BY <3>3, FS_Subset
    <3> QED BY <3>2, <3>4, FS_EmptySet
  <2>5. LeftOut(Len(file.relocs)) = {} <=> \A s \in Imports : ~Unresolved(s, file.index)
    <3>1. ASSUME NEW i \in LeftOut(Len(file.relocs))
          PROVE  \E s \in Imports : Unresolved(s, file.index)
      <4>1. file.relocs[i] \in Range(file.relocs) /\ Missing(file.relocs[i])
        BY <2>0 DEF LeftOut, Range
      <4> QED BY <4>1 DEF Missing, Imports
    <3>2. ASSUME NEW s \in Imports, Unresolved(s, file.index)
          PROVE  LeftOut(Len(file.relocs)) # {}
      <4>1. PICK r \in Range(file.relocs) :
                r.type \in Symbolic /\ r.symbol.defined = "no" /\ s = r.symbol
        BY DEF Imports
      <4>2. PICK i \in DOMAIN file.relocs : r = file.relocs[i]
        BY DEF Range
      <4>3. Missing(file.relocs[i])
        BY <3>2, <4>1, <4>2 DEF Missing
      <4> QED BY <2>0, <4>2, <4>3 DEF LeftOut
    <3> QED BY <3>1, <3>2
  <2> QED BY <2>1, <2>3, <2>4, <2>5
<1> QED BY <1>1, Invariance, PTL
=============================================================================
