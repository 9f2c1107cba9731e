----------------------------- MODULE SymbolLookup -----------------------------
(***************************************************************************)
(* Who provides a symbol the guest imports.  Relocation asks the providers *)
(* one after the other (runtime/src/relocation_probe.c); the census, which *)
(* runs before it and reports what has no provider                         *)
(* (runtime/src/symbol_probe.c), asks some of them in an order of its own. *)
(*                                                                         *)
(* A symbol is a record: `exporters`, the images that define it; `offers`, *)
(* the tables and host libraries that know its name; `softfp` and          *)
(* `bionic`, whether it is on the lists of nfsmw_symbol_requires_softfp    *)
(* and _bionic_bridge; `gl`, whether its name begins with "gl"; `weak`,    *)
(* its binding; `wrapped`, whether it is one of the three FMOD entries     *)
(* that libapp gets a wrapper for.                                         *)
(***************************************************************************)
EXTENDS Naturals, Sequences, FiniteSetsExt

\* Tables and libraries asked for a name whatever list it is on.
Open == {"aeabi", "alias", "compat", "display", "host"}

\* Who answers image i for symbol s.  Only images before i are asked: they
\* are the ones relocated already.  "blocked" answers with 0.
Serving(s, i) ==
    {p \in {"guest"} : \E j \in s.exporters : j < i}
    \cup (s.offers \cap Open)
    \cup {p \in {"softfp"} : s.softfp /\ p \in s.offers}
    \cup {p \in {"blocked"} : s.bionic}
    \cup {p \in {"eglproc"} : s.gl /\ p \in s.offers}

\* The first of `order` that is among `providers`.
FirstOf(order, providers) ==
    LET those == {k \in DOMAIN order : order[k] \in providers}
    IN  IF those = {} THEN "missing" ELSE order[Min(those)]

\* Mutant of Provider: host libraries are asked before the names that need a
\* bridge are kept from them.
ProviderHostFirst(s, i) ==
    FirstOf(<<"guest", "aeabi", "softfp", "alias", "compat", "display", "host",
              "eglproc", "blocked">>,
            Serving(s, i))

\* relocation_lookup
Provider(s, i) ==
    FirstOf(<<"guest", "aeabi", "softfp", "alias", "compat", "blocked", "display",
              "host", "eglproc">>,
            Serving(s, i))

\* A name without a provider is an error only for a strong reference.
Unresolved(s, i) == ~s.weak /\ Provider(s, i) \in {"blocked", "missing"}

\* What the census finds: an exporter anywhere, the softfp list without its
\* table, no procedures of EGL, no aliases.
Found(s) ==
    {p \in {"guest"} : s.exporters # {}}
    \cup {p \in {"softfp"} : s.softfp}
    \cup (s.offers \cap {"compat", "host"})
    \cup {p \in {"blocked"} : s.bionic}
    \cup {p \in {"weak"} : s.weak}

\* Mutant of Census: the bridges that are missing are looked for last.
CensusBridgeLast(s) ==
    FirstOf(<<"guest", "softfp", "compat", "host", "blocked", "weak">>,
            Found(s))

\* nfsmw_probe_symbols
Census(s) ==
    FirstOf(<<"guest", "softfp", "compat", "blocked", "host", "weak">>,
            Found(s))

\* The two reports of names: bridges that are not there, names nobody has.
Reported(s) == Census(s) \in {"blocked", "missing"}
=============================================================================
