---------------------------- MODULE ModuleLoader ----------------------------
(***************************************************************************)
(* Opening, calling and closing modules (loader/module_loader.c and        *)
(* symbol_registry.c).  kb_module_open_image is split where it can fail:   *)
(* load_sections, one apply_one_relocation or one add_export at a time,    *)
(* and the rest of prepare_module; every failure ends in destroy_module.   *)
(* A symbol is a name, an address the module that holds it.  Modules are   *)
(* opened once and closed as tools/kobox_run_init does: latest first, or,  *)
(* when a module could not be entered, oldest first with nothing run in    *)
(* between.                                                                *)
(***************************************************************************)
EXTENDS Naturals, Sequences, FiniteSets, SequencesExt

CONSTANTS
    Images,      \* the module files
    Needs,       \* image -> undefined symbols of its relocations, in order
    Defines,     \* image -> its global defined symbols, in order
    PerCpu,      \* image -> [size, align] of .data..percpu, size 0 when none
    HasInit,     \* the images with an init_module or cleanup_module
    Code,        \* the symbols that are functions
    Providers,   \* names of each shim provider, in the order they are appended
    Special,     \* names the loader answers before the shim table
    Local,       \* names it answers from the module's own data, after it
    Jiffies,     \* the local name whose storage is registered
    Interposed,  \* should_interpose_exported_symbol
    MaxExports,  \* KB_LOADER_EXPORTED_SYMBOL_MAX
    StubCount,   \* KB_LOCAL_SHIM_STUB_COUNT
    MaxJiffies,  \* KB_JIFFIES_STORAGE_MAX
    AreaStart,   \* first value of kb_shared_kernel_percpu_next
    AreaSize,    \* KB_LOCAL_GS_SIZE
    MinAlign,    \* least alignment of a per-CPU area
    None

VARIABLES
    gone,     \* the images closed, or that failed to open
    mod,      \* image -> its kb_module_t: links, stubs used, per-CPU area
    loaded,   \* kb_loaded_modules, latest first
    exports,  \* exported_symbols
    prep,     \* the module being prepared: image, stage and position
    percpu,   \* kb_shared_kernel_percpu_next
    jiffies,  \* the modules whose storage is in jiffies_storages
    task,     \* whose memory the shared task's mm, signal and cred are in
    ctx,      \* the active module, the device backend and the gs base
    over      \* kobox_run_init has given up

loaderVars == <<gone, mod, loaded, exports, prep, percpu, jiffies, task, ctx, over>>

ShimSymbols == FlattenSeq(Providers)
Idle == [active |-> None, backend |-> FALSE, gs |-> "host"]
NoArea == [at |-> 0, size |-> 0]
Loaded == ToSet(loaded)
Slots == 1 .. MaxExports

Init ==
    /\ gone = {}
    /\ mod = [i \in Images |-> None]
    /\ loaded = <<>>
    /\ exports = [k \in Slots |-> None]
    /\ prep = None
    /\ percpu = AreaStart
    /\ jiffies = {}
    /\ task = None
    /\ ctx = Idle
    /\ over = FALSE

-----------------------------------------------------------------------------
(* Exported symbols. *)

Exported(n) == {k \in Slots : exports[k] # None /\ exports[k].name = n}
FreeSlots == {k \in Slots : exports[k] = None}
LookupExport(n) == LET k == CHOOSE k \in Exported(n) : TRUE IN exports[k].owner

AddExport(n, i) ==
    IF Exported(n) # {} THEN exports
    ELSE LET k == CHOOSE k \in FreeSlots : \A f \in FreeSlots : k <= f
         IN  [exports EXCEPT ![k] = [name |-> n, owner |-> i]]
RemoveOwner(i) ==
    [k \in Slots |-> IF exports[k] # None /\ exports[k].owner = i
                     THEN None ELSE exports[k]]

(* The list entry, the exports and the memory of a module go. *)
DestroyKeepingExports(i) ==
    /\ loaded' = SelectSeq(loaded, LAMBDA m : m # i)
    /\ mod' = [mod EXCEPT ![i] = None]
    /\ gone' = gone \cup {i}
    /\ UNCHANGED exports
Destroy(i) ==
    /\ loaded' = SelectSeq(loaded, LAMBDA m : m # i)
    /\ exports' = RemoveOwner(i)
    /\ mod' = [mod EXCEPT ![i] = None]
    /\ gone' = gone \cup {i}

-----------------------------------------------------------------------------
(* Opening a module. *)

AlignUp(v, a) == ((v + a - 1) \div a) * a
Larger(a, b) == IF a < b THEN b ELSE a
AreaOf(i) ==
    [at |-> AlignUp(percpu, Larger(PerCpu[i].align, MinAlign)), size |-> PerCpu[i].size]
AreaFits(a) == a.at <= AreaSize /\ a.size <= AreaSize - a.at
AfterArea(a) == a.at + a.size

(* The shared task's mm, signal, cred and nsproxy move to the new module. *)
TaskAfter(i) == i

(* load_sections: the per-CPU area is taken before the image's memory.       *)
LoadSections(i) ==
    /\ prep = None /\ ctx.active = None /\ ~over /\ mod[i] = None /\ i \notin gone
    /\ LET a == IF PerCpu[i].size = 0 THEN NoArea ELSE AreaOf(i) IN
       \/ /\ AreaFits(a)
          /\ percpu' = IF PerCpu[i].size = 0 THEN percpu ELSE AfterArea(a)
          /\ mod' = [mod EXCEPT ![i] = [links |-> <<>>, stubs |-> 0, area |-> a]]
          /\ prep' = [image |-> i, stage |-> "relocate", pos |-> 1]
          /\ task' = TaskAfter(i)
          /\ UNCHANGED <<gone, loaded, exports, jiffies, ctx, over>>
       \/ /\ AreaFits(a)                       \* no memory for the image
          /\ percpu' = IF PerCpu[i].size = 0 THEN percpu ELSE AfterArea(a)
          /\ Destroy(i)
          /\ UNCHANGED <<prep, jiffies, task, ctx, over>>
       \/ /\ ~AreaFits(a)
          /\ Destroy(i)
          /\ UNCHANGED <<prep, percpu, jiffies, task, ctx, over>>

Fail ==
    /\ Destroy(prep.image)
    /\ prep' = None

(* lookup_module_shim_symbol: where the loader itself finds a name. *)
ShimLookup(n) ==
    IF n \in Special THEN "special"
    ELSE IF n \in ToSet(ShimSymbols) THEN "shim"
    ELSE IF n \in Local THEN "local"
    ELSE None

(* Where apply_one_relocation finds an undefined symbol.  A function of a    *)
(* loaded module is reached through a stub of the caller.                    *)
ShimLink(n) == [name |-> n, via |-> ShimLookup(n), owner |-> None]
Resolve(n) ==
    IF n \in Interposed /\ ShimLookup(n) # None THEN ShimLink(n)
    ELSE IF Exported(n) # {}
    THEN LET o == LookupExport(n)
         IN  [name |-> n, owner |-> o,
              via |-> IF n \in Code /\ o \in Loaded THEN "stub" ELSE "direct"]
    ELSE ShimLink(n)

StubFree(i) == Len(ShimSymbols) + mod[i].stubs < StubCount

Linked(i, link) ==
    [mod EXCEPT ![i].links = Append(@, link),
                ![i].stubs = IF link.via = "stub" THEN @ + 1 ELSE @]

RegisterJiffies(i, link) ==
    IF link.via = "local" /\ link.name = Jiffies /\ Cardinality(jiffies) < MaxJiffies
    THEN jiffies \cup {i} ELSE jiffies

At(stage) == prep # None /\ prep.stage = stage

ApplyRelocation ==
    /\ At("relocate") /\ prep.pos <= Len(Needs[prep.image])
    /\ LET i == prep.image
           link == Resolve(Needs[i][prep.pos])
       IN  IF link.via = None \/ (link.via = "stub" /\ ~StubFree(i))
           THEN Fail /\ UNCHANGED jiffies
           ELSE /\ mod' = Linked(i, link)
                /\ jiffies' = RegisterJiffies(i, link)
                /\ prep' = [prep EXCEPT !.pos = @ + 1]
                /\ UNCHANGED <<gone, loaded, exports>>
    /\ UNCHANGED <<percpu, task, ctx, over>>

RelocationsDone ==
    /\ At("relocate") /\ prep.pos > Len(Needs[prep.image])
    /\ prep' = [prep EXCEPT !.stage = "export", !.pos = 1]
    /\ UNCHANGED <<gone, mod, loaded, exports, percpu, jiffies, task, ctx, over>>

RegisterExport ==
    /\ At("export") /\ prep.pos <= Len(Defines[prep.image])
    /\ LET n == Defines[prep.image][prep.pos]
       IN  IF Exported(n) = {} /\ FreeSlots = {}
           THEN Fail
           ELSE /\ exports' = AddExport(n, prep.image)
                /\ prep' = [prep EXCEPT !.pos = @ + 1]
                /\ UNCHANGED <<gone, mod, loaded>>
    /\ UNCHANGED <<percpu, jiffies, task, ctx, over>>

(* init_module and cleanup_module are found, pages protected, and the module *)
(* joins the list.                                                           *)
Opened ==
    /\ At("export") /\ prep.pos > Len(Defines[prep.image])
    /\ loaded' = <<prep.image>> \o loaded
    /\ prep' = None
    /\ UNCHANGED <<gone, mod, exports, percpu, jiffies, task, ctx, over>>

(* An ELF that does not hold together, a value out of range, or a page that  *)
(* cannot be protected.                                                      *)
PrepareFails ==
    /\ prep # None
    /\ Fail
    /\ UNCHANGED <<percpu, jiffies, task, ctx, over>>

-----------------------------------------------------------------------------
(* Calling and closing a module. *)

EnterContext(i) == [active |-> i, backend |-> TRUE, gs |-> "kernel"]
LeaveContext == [active |-> None, backend |-> FALSE, gs |-> "host"]

(* kb_module_call_init and kb_module_call_cleanup. *)
Call(i) ==
    /\ prep = None /\ ctx.active = None /\ ~over
    /\ i \in Loaded /\ i \in HasInit
    /\ ctx' = EnterContext(i)
    /\ UNCHANGED <<gone, mod, loaded, exports, prep, percpu, jiffies, task, over>>

CallReturns ==
    /\ ctx.active # None
    /\ ctx' = LeaveContext
    /\ UNCHANGED <<gone, mod, loaded, exports, prep, percpu, jiffies, task, over>>

(* The gs base cannot be set: the backend is withdrawn and the tool gives up. *)
EnterFails(i) ==
    /\ prep = None /\ ctx.active = None /\ ~over
    /\ i \in Loaded /\ i \in HasInit
    /\ ctx' = [ctx EXCEPT !.backend = FALSE]
    /\ over' = TRUE
    /\ UNCHANGED <<gone, mod, loaded, exports, prep, percpu, jiffies, task>>

(* kb_module_close. *)
Close ==
    /\ prep = None /\ ctx.active = None /\ loaded # <<>>
    /\ Destroy(IF over THEN Last(loaded) ELSE Head(loaded))
    /\ UNCHANGED <<prep, percpu, jiffies, task, ctx, over>>

Next ==
    \/ \E i \in Images : LoadSections(i) \/ Call(i) \/ EnterFails(i)
    \/ ApplyRelocation \/ RelocationsDone \/ RegisterExport \/ Opened \/ PrepareFails
    \/ CallReturns \/ Close

Spec == Init /\ [][Next]_loaderVars

-----------------------------------------------------------------------------
Live == {i \in Images : mod[i] # None}
Links(i) == ToSet(mod[i].links)

(* The types of all variables. *)
TypeOK ==
    /\ \A i \in Live :
         /\ \A l \in Links(i) :
              /\ l.via \in {"special", "shim", "local", "stub", "direct"}
              /\ l.owner \in Images \cup {None}
         /\ mod[i].stubs \in 0 .. StubCount - Len(ShimSymbols)
    /\ IsInjective(loaded) /\ Loaded \subseteq Live
    /\ \A k \in Slots : exports[k] # None => exports[k].owner \in Images
    /\ prep # None => prep.image \in Live \ Loaded
    /\ percpu \in AreaStart .. AreaSize
    /\ jiffies \subseteq Images /\ task \in Images \cup {None}
    /\ ctx.active \in Images \cup {None} /\ over \in BOOLEAN

(* What the registry offers exists: each export's owner is loaded or being   *)
(* prepared, and a failed or closed module leaves none behind.               *)
ExportsOwned ==
    /\ Live = Loaded \cup (IF prep = None THEN {} ELSE {prep.image})
    /\ \A k \in Slots : exports[k] # None => exports[k].owner \in Live
    /\ \A j, k \in Slots :
         exports[j] # None /\ exports[k] # None /\ j # k => exports[j].name # exports[k].name

(* No module runs, or is prepared to run, against code or data that is gone, *)
(* and each function of another module has its stub.                         *)
LinksLive ==
    ~over => \A i \in Live :
        /\ \A l \in Links(i) : l.owner # None => l.owner \in Loaded \ {i}
        /\ mod[i].stubs = Len(SelectSeq(mod[i].links, LAMBDA l : l.via = "stub"))
        /\ \A l \in Links(i) : l.owner # None /\ l.name \in Code => l.via = "stub"

(* A name never means two modules at once: whoever is linked against it is   *)
(* linked against the same one, and interposed names always reach kobox.     *)
OneProvider ==
    \A i, j \in Live : \A l \in Links(i), m \in Links(j) :
        /\ l.name = m.name /\ l.owner # None /\ m.owner # None => l.owner = m.owner
        /\ l.name \in Interposed \cap ToSet(ShimSymbols) => l.owner = None

(* Per-CPU areas of modules do not meet, and lie in the shared area. *)
AreasApart ==
    \A i, j \in Live : LET a == mod[i].area  b == mod[j].area IN
        /\ a.size > 0 => a.at >= AreaStart /\ a.at + a.size <= AreaSize
        /\ i # j /\ a.size > 0 /\ b.size > 0 =>
             a.at + a.size <= b.at \/ b.at + b.size <= a.at

(* Time passes for every module that reads jiffies, and between calls no     *)
(* module's context is left behind.                                          *)
ContextsLeft ==
    /\ \A i \in Live : \A l \in Links(i) :
         l.name = Jiffies /\ l.via = "local" => i \in jiffies
    /\ IF ctx.active = None THEN ctx = Idle ELSE ctx.active \in Loaded /\ ctx.backend
=============================================================================
