----------------------------- MODULE ModuleImage -----------------------------
(***************************************************************************)
(* The memory image of a module (loader/module_loader.c): the layout loop  *)
(* of load_sections, the operands apply_one_relocation writes, and the     *)
(* page protections of finalize_section_protections.  One action is one    *)
(* turn of a loop.  Words keep a width: Half stands for 32 bits, and       *)
(* addresses have twice as many.                                           *)
(***************************************************************************)
EXTENDS Integers, Sequences

CONSTANTS
    Page,         \* page_size
    Sizes,        \* section sizes
    Alignments,   \* section alignments
    MaxSections,  \* sections of a module
    StubPages,    \* pages of the shim region up to KB_LOCAL_SHIM_DATA_OFFSET
    DataPages,    \* pages of its data
    Half,         \* bits of a 32-bit word
    Kinds,        \* relocation types that occur
    Addends,      \* their addends
    Places,       \* addresses relocated
    None

VARIABLES
    phase,  \* "layout", "relocate", "protect", "done" or "failed"
    secs,   \* sections: offset, size, protection
    used,   \* image_size
    last,   \* previous_protection
    turn,   \* the section finalize_section_protections is at
    run,    \* its run of pages
    pages,  \* the protection of every page
    patch   \* the last operand written

imageVars == <<phase, secs, used, last, turn, run, pages, patch>>

(* section_protection: 0 is read-only, 1 writable, 2 executable. *)
Protections == 0 .. 2
NoRun == [from |-> 0, to |-> 0, prot |-> -1]
AlignUp(v, a) == ((v + a - 1) \div a) * a

Init ==
    /\ phase = "layout" /\ secs = <<>> /\ used = 0 /\ last = -1
    /\ turn = 1 /\ run = NoRun /\ pages = <<>> /\ patch = None

-----------------------------------------------------------------------------
(* A section with SHF_ALLOC. *)
Place(align, prot) ==
    LET start == IF last # -1 /\ prot # last THEN AlignUp(used, Page) ELSE used
    IN  AlignUp(start, align)
AddSection(size, align, prot) ==
    /\ phase = "layout" /\ Len(secs) < MaxSections
    /\ LET at == Place(align, prot) IN
       /\ secs' = Append(secs, [at |-> at, size |-> size, prot |-> prot])
       /\ used' = at + size
       /\ last' = IF size # 0 THEN prot ELSE last
    /\ UNCHANGED <<phase, turn, run, pages, patch>>

(* The image is mapped, readable and writable, the shim region behind it. *)
ImagePages == AlignUp(used, Page) \div Page
AllPages == ImagePages + StubPages + DataPages
MapImage ==
    /\ phase = "layout"
    /\ IF used = 0 THEN phase' = "failed" /\ UNCHANGED pages
       ELSE phase' = "relocate" /\ pages' = [p \in 1 .. AllPages |-> 1]
    /\ UNCHANGED <<secs, used, last, turn, run, patch>>

-----------------------------------------------------------------------------
(* Relocated operands. *)
Word == 2 ^ Half
Address == Word * Word
Signed(v, w) == LET u == v % w IN IF u < w \div 2 THEN u ELSE u - w
FitsU(v) == v >= 0 /\ v < Word
FitsI(v) == -(Word \div 2) <= v /\ v < Word \div 2

(* What is stored for a symbol's address and addend, or None. *)
Operand(kind, symbol, addend, place) ==
    LET value == Signed(symbol + addend, Address)
        away == Signed(value - place, Address)
    IN  CASE kind = "64" -> value % Address
          [] kind = "pc64" -> away % Address
          [] kind = "pc32" -> IF FitsI(away) THEN away % Word ELSE None
          [] kind = "32" -> IF FitsU(value) THEN value % Word ELSE None
          [] kind = "32s" -> IF FitsI(value) THEN value % Word ELSE None
          [] OTHER -> None

(* Where the processor then goes: external, the x86-64 addressing modes. *)
Reads(kind, bits, place) ==
    CASE kind = "64" -> bits
      [] kind = "pc64" -> (place + bits) % Address
      [] kind = "pc32" -> (place + Signed(bits, Word)) % Address
      [] kind = "32" -> bits
      [] kind = "32s" -> Signed(bits, Word) % Address
      [] OTHER -> None

(* One relocation; the first that fails ends the load.  The section has the *)
(* operand's bytes, or the load fails as well.                              *)
Relocate(kind, symbol, addend, place, fits) ==
    /\ LET bits == IF fits THEN Operand(kind, symbol, addend, place) ELSE None IN
       /\ patch' = [kind |-> kind, symbol |-> symbol, addend |-> addend,
                    place |-> place, fits |-> fits, bits |-> bits]
       /\ phase' = IF bits = None THEN "failed" ELSE "relocate"
    /\ UNCHANGED <<secs, used, last, turn, run, pages>>

(* apply_relocations goes on to the next one. *)
NextRelocation ==
    /\ phase = "relocate" /\ patch # None
    /\ patch' = None
    /\ UNCHANGED <<phase, secs, used, last, turn, run, pages>>

(* finalize_section_protections begins: all pages become read-only. *)
Relocated ==
    /\ phase = "relocate" /\ patch = None
    /\ \/ phase' = "protect" /\ pages' = [p \in DOMAIN pages |-> 0]
       \/ phase' = "failed" /\ UNCHANGED pages
    /\ UNCHANGED <<secs, used, last, turn, run, patch>>

-----------------------------------------------------------------------------
Protected(r) ==
    IF r.prot = -1 THEN pages
    ELSE [p \in DOMAIN pages |->
            IF r.from < p * Page /\ (p - 1) * Page < r.to THEN r.prot ELSE pages[p]]

Start(s) == (s.at \div Page) * Page
End(s) == AlignUp(s.at + s.size, Page)

(* A section extends the run, or the run is protected and the section begins *)
(* the next one.                                                             *)
Joins(s) == run.prot = s.prot /\ Start(s) <= run.to
ProtectSection ==
    /\ phase = "protect" /\ turn <= Len(secs)
    /\ LET s == secs[turn] IN
       \/ /\ s.size = 0
          /\ UNCHANGED <<phase, run, pages>>
       \/ /\ s.size # 0 /\ Joins(s)
          /\ run' = [run EXCEPT !.to = IF End(s) > @ THEN End(s) ELSE @]
          /\ UNCHANGED <<phase, pages>>
       \/ /\ s.size # 0 /\ ~Joins(s)
          /\ pages' = Protected(run)
          /\ run' = [from |-> Start(s), to |-> End(s), prot |-> s.prot]
          /\ UNCHANGED phase
       \/ /\ s.size # 0 /\ ~Joins(s) /\ run.prot # -1     \* mprotect fails
          /\ phase' = "failed"
          /\ UNCHANGED <<run, pages>>
    /\ turn' = turn + 1
    /\ UNCHANGED <<secs, used, last, patch>>

(* The last run, then the stubs and the data of the shim region. *)
ShimProtected(ps) ==
    [p \in DOMAIN ps |->
       IF p <= ImagePages THEN ps[p] ELSE IF p <= ImagePages + StubPages THEN 2 ELSE 1]
ProtectEnds ==
    /\ phase = "protect" /\ turn > Len(secs)
    /\ \/ phase' = "done" /\ pages' = ShimProtected(Protected(run))
       \/ phase' = "failed" /\ UNCHANGED pages
    /\ UNCHANGED <<secs, used, last, turn, run, patch>>

Next ==
    \/ \E s \in Sizes, a \in Alignments, p \in Protections : AddSection(s, a, p)
    \/ MapImage
    \/ /\ phase = "relocate" /\ patch = None
       /\ \E k \in Kinds, y \in 0 .. Address - 1, d \in Addends, p \in Places, f \in BOOLEAN :
            Relocate(k, y, d, p, f)
    \/ NextRelocation \/ Relocated \/ ProtectSection \/ ProtectEnds

Spec == Init /\ [][Next]_imageVars

-----------------------------------------------------------------------------
(* The types of all variables. *)
TypeOK ==
    /\ phase \in {"layout", "relocate", "protect", "done", "failed"}
    /\ \A k \in DOMAIN secs : secs[k].at \in Nat /\ secs[k].at + secs[k].size <= used
    /\ last \in -1 .. 2 /\ run.prot \in -1 .. 2 /\ turn \in 1 .. MaxSections + 1
    /\ \A p \in DOMAIN pages : pages[p] \in Protections

(* A module that may run has each section where it can be used: code can be  *)
(* executed, data written, nothing else either; sections do not meet; stubs  *)
(* can be called and the shim's data written.                                *)
ImageUsable ==
    phase = "done" =>
        /\ \A k \in DOMAIN secs : \A p \in DOMAIN pages :
             LET s == secs[k] IN
             s.at < p * Page /\ (p - 1) * Page < s.at + s.size => pages[p] = s.prot
        /\ \A j, k \in DOMAIN secs : j < k => secs[j].at + secs[j].size <= secs[k].at
        /\ \A p \in DOMAIN pages : p > ImagePages =>
             pages[p] = IF p <= ImagePages + StubPages THEN 2 ELSE 1

(* An operand that was written leads where the symbol is, whatever its width *)
(* and sign; and one is refused only when no such operand exists.            *)
OperandsReach ==
    patch # None =>
        LET goal == (patch.symbol + patch.addend) % Address
            reach == {b \in 0 .. (IF patch.kind \in {"64", "pc64"} THEN Address ELSE Word) - 1 :
                        Reads(patch.kind, b, patch.place) = goal}
        IN  IF patch.bits = None THEN patch.fits => reach = {} ELSE patch.bits \in reach
=============================================================================
