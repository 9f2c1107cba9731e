----------------------------- MODULE MCElfImage -----------------------------
(* Instances of ElfImage for TLC: five images of which libapp is the last; *)
(* text and data segments of a few words, with a hole between them.        *)
EXTENDS ElfImage

MCHome == [p \in {"guest", "aeabi", "softfp", "alias", "compat", "display", "host",
                  "eglproc", "wrapper", "patch"} |->
             CASE p = "guest" -> 1 [] p = "aeabi" -> 2 [] p = "softfp" -> 3
               [] p = "alias" -> 4 [] p = "compat" -> 5 [] p = "display" -> 6
               [] p = "host" -> 7 [] p = "eglproc" -> 8 [] p = "wrapper" -> 9
               [] OTHER -> 10]

Import == [defined |-> "no", value |-> 0, exporters |-> {}, offers |-> {}, softfp |-> FALSE,
           bionic |-> FALSE, gl |-> FALSE, weak |-> FALSE, wrapped |-> FALSE]
Memcpy == [Import EXCEPT !.offers = {"host"}]
ThreadCreate == [Import EXCEPT !.offers = {"compat", "host"}, !.bionic = TRUE]
Unbridged == [Import EXCEPT !.offers = {"host"}, !.bionic = TRUE]
Sine == [Import EXCEPT !.offers = {"softfp", "host"}, !.softfp = TRUE]
DrawArrays == [Import EXCEPT !.offers = {"eglproc"}, !.gl = TRUE]
Division == [Import EXCEPT !.offers = {"aeabi", "host"}]
SetOutput == [Import EXCEPT !.exporters = {2}, !.wrapped = TRUE]
Throw == [Import EXCEPT !.exporters = {1}]
Forward == [Import EXCEPT !.exporters = {5}]
WeakHook == [Import EXCEPT !.weak = TRUE]
Nobody == Import
Own == [Import EXCEPT !.defined = "image", !.value = 2]
Thread == [Import EXCEPT !.defined = "tls"]

R(type, offset, symbol) == [type |-> type, offset |-> offset, symbol |-> symbol]

\* Text on pages 0 and 1, a hole, data and bss on pages 3 and 4.
Plain ==
    [index |-> 3, app |-> FALSE,
     loads |-> <<[vaddr |-> 0, memsz |-> 6, filesz |-> 6, flags |-> {"R", "X"},
                  words |-> <<11, 12, 13, 14, 15, 16>>],
                 [vaddr |-> 12, memsz |-> 6, filesz |-> 4, flags |-> {"R", "W"},
                  words |-> <<3, 1, 20, 21>>]>>,
     meta |-> <<[vaddr |-> 0, length |-> 2], [vaddr |-> 14, length |-> 2]>>,
     symtab |-> <<[vaddr |-> 1, length |-> 3]>>, tables |-> <<[vaddr |-> 4, length |-> 2]>>,
     relocs |-> <<R("relative", 12, Own), R("abs32", 13, Own), R("jump_slot", 14, Memcpy)>>,
     patch |-> {}, known |-> TRUE]

\* Linked high in the address space, so that load_bias wraps.
Shifted(f, by) ==
    [f EXCEPT !.loads = [l \in DOMAIN @ |-> [@[l] EXCEPT !.vaddr = @ + by]],
              !.meta = [r \in DOMAIN @ |-> [@[r] EXCEPT !.vaddr = @ + by]],
              !.symtab = [r \in DOMAIN @ |-> [@[r] EXCEPT !.vaddr = @ + by]],
              !.tables = [r \in DOMAIN @ |-> [@[r] EXCEPT !.vaddr = @ + by]],
              !.relocs = [r \in DOMAIN @ |-> [@[r] EXCEPT !.offset = @ + by]],
              !.patch = {v + by : v \in @}]

App(f) == [f EXCEPT !.index = 5, !.app = TRUE, !.patch = {2, 5}]

Linking(relocs) == [Plain EXCEPT !.relocs = relocs]

MCFiles ==
    {Plain, App(Plain), Shifted(Plain, 20), Shifted(App(Plain), 20)}
    \cup
    \* what libraries import
    {Linking(<<R("jump_slot", 13, ThreadCreate), R("jump_slot", 14, Sine)>>),
     Linking(<<R("jump_slot", 13, Unbridged), R("glob_dat", 14, Memcpy)>>),
     Linking(<<R("jump_slot", 13, DrawArrays), R("abs32", 14, Throw)>>),
     Linking(<<R("abs32", 13, WeakHook), R("jump_slot", 14, Division)>>),
     Linking(<<R("jump_slot", 13, Forward), R("glob_dat", 14, Nobody)>>),
     Linking(<<R("glob_dat", 13, SetOutput), R("jump_slot", 14, SetOutput)>>),
     App(Linking(<<R("glob_dat", 13, SetOutput), R("jump_slot", 14, SetOutput)>>)),
     App(Linking(<<R("glob_dat", 13, Unbridged)>>))}
    \cup
    \* what the loader has to refuse, or runs into
    {Linking(<<R("relative", 12, Own), R("relative", 40, Own)>>),
     Linking(<<R("relative", 12, Own), R("relative", 9, Own)>>),
     Linking(<<R("relative", 12, Own), R("abs32", 13, Thread)>>),
     Linking(<<R("relative", 12, Own), R("copy", 13, Memcpy)>>),
     [Plain EXCEPT !.symtab = <<[vaddr |-> 18, length |-> 4]>>],
     [Plain EXCEPT !.symtab = <<[vaddr |-> 7, length |-> 3]>>],
     [Plain EXCEPT !.tables = <<[vaddr |-> 18, length |-> 4]>>],
     [Plain EXCEPT !.tables = <<[vaddr |-> 7, length |-> 3]>>],
     [Plain EXCEPT !.meta = <<[vaddr |-> 7, length |-> 3]>>],
     [Plain EXCEPT !.meta = <<[vaddr |-> 30, length |-> 2]>>],
     [Plain EXCEPT !.loads[2].filesz = 7],
     [Shifted(App(Plain), 4) EXCEPT !.patch = {2}],
     [App(Plain) EXCEPT !.known = FALSE]}
    \cup
    \* one word relocated twice: the second addend is the first result
    {Linking(<<R("relative", 12, Own), R("relative", 12, Own)>>)}
    \cup
    \* a page that is large for the file: text and data share page 1
    {[Plain EXCEPT !.loads[2].vaddr = 6, !.meta[2].vaddr = 6,
                   !.relocs = <<R("relative", 6, Own), R("jump_slot", 7, Memcpy)>>]}
=============================================================================
