-------------------------------- MODULE ObbIndex --------------------------------
(***************************************************************************)
(* The index of the OBB archive (runtime/src/obb_index.c) and the Java     *)
(* calls that read it (jni_bridge.c:826-843, 936-954 and 1006-1009):       *)
(* opening reads the ZIP directory entry by entry, forEach and list give   *)
(* the children of a directory, getAssetSize the size of a file.  Every    *)
(* listing is made in one static buffer, which the JNI bridge copies       *)
(* afterwards; guest threads list without a lock, and shutdown closes the  *)
(* index while they still run.                                             *)
(*                                                                         *)
(* A path is the sequence of its components; a request may have empty ones *)
(* at its ends, for the slashes there.  Paths are shorter than NAME_LIMIT. *)
(***************************************************************************)
EXTENDS Integers, Sequences, FiniteSets

CONSTANTS Threads,   (* guest threads                                      *)
          Archives,  (* OBBs: their entries, and which of them is invalid  *)
          Requests,  (* directories guest code lists                       *)
          Most,      (* bound on the entries of an OBB                     *)
          IntLimit,  (* 2^31: sizes are below its double                   *)
          None

VARIABLES archive,   (* the OBB that is opened, None without one           *)
          index,     (* entries: path, directory, size                     *)
          state,     (* "unopened", "reading", "failed", "open", "closed"  *)
          buffer,    (* list_result                                        *)
          room,      (* list_capacity: how many names the buffer has room  *)
                     (* for                                                *)
          list       (* list[t]: the listing thread t makes, and whether   *)
                     (* no other went on meanwhile                         *)

vars == <<archive, index, state, buffer, room, list>>

NoList == [at |-> "guest", path |-> <<>>, i |-> 0, names |-> <<>>, alone |-> TRUE]

Init ==
    /\ archive = None
    /\ index = <<>> /\ state = "unopened"
    /\ buffer = [i \in 1..Most |-> None] /\ room = 0
    /\ list = [t \in Threads |-> NoList]
-----------------------------------------------------------------------------
(* nfsmw_obb_open and nfsmw_obb_close                                      *)

Closed == index' = <<>> /\ buffer' = [i \in 1..Most |-> None] /\ room' = 0

\* The file, the end record and the entry table are there, and it is not a
\* ZIP64; or opening fails.
Open ==
    /\ state = "unopened"
    /\ Closed
    /\ \/ state' = "reading" /\ archive' \in Archives
       \/ state' = "failed" /\ UNCHANGED archive
    /\ UNCHANGED list

\* Mutant of OpenEntry: what was read of an invalid archive is kept.
OpenEntryKeeping ==
    /\ state = "reading"
    /\ LET n == Len(index) + 1 IN
       IF n > Len(archive.entries) THEN state' = "open" /\ UNCHANGED <<index, buffer, room, archive>>
       ELSE IF n = archive.invalid THEN state' = "open" /\ UNCHANGED <<index, buffer, room, archive>>
       ELSE index' = Append(index, archive.entries[n]) /\ UNCHANGED <<state, buffer, room, archive>>
    /\ UNCHANGED list

\* The next entry; one that is invalid or cannot be read closes it all.
OpenEntry ==
    /\ state = "reading"
    /\ LET n == Len(index) + 1 IN
       IF n > Len(archive.entries) THEN state' = "open" /\ UNCHANGED <<index, buffer, room, archive>>
       ELSE IF n = archive.invalid THEN Closed /\ state' = "failed" /\ archive' = None
       ELSE index' = Append(index, archive.entries[n]) /\ UNCHANGED <<state, buffer, room, archive>>
    /\ UNCHANGED list

\* nfsmw_jni_shutdown, under threads that are listing.
Close ==
    /\ state = "open"
    /\ Closed /\ state' = "closed" /\ archive' = None
    /\ list' = [t \in Threads |-> [list[t] EXCEPT !.alone = FALSE]]
-----------------------------------------------------------------------------
(* nfsmw_obb_asset_size and getAssetSize                                   *)

StartsWith(p, s) == Len(p) <= Len(s) /\ SubSeq(s, 1, Len(p)) = p

\* normalize and the loops over slashes at the end.
Named(path) == {k \in DOMAIN path : path[k] # ""}
Stripped(path) ==
    IF Named(path) = {} THEN <<>>
    ELSE SubSeq(path, CHOOSE k \in Named(path) : \A j \in Named(path) : k <= j,
                      CHOOSE k \in Named(path) : \A j \in Named(path) : k >= j)

\* Mutant of Prefixes: the published files come first.
PrefixesPublishedFirst == << <<"published">>, <<>>, <<"published.1x">> >>

Prefixes == << <<>>, <<"published">>, <<"published.1x">> >>

\* Where the request is looked for, in this order: not under a prefix that
\* it has already.
Candidates(path) ==
    LET wanted == Stripped(path)
    IN  [n \in DOMAIN Prefixes |->
            IF Prefixes[n] # <<>> /\ StartsWith(Prefixes[n], wanted) THEN None ELSE Prefixes[n] \o wanted]

Hits(path) ==
    {h \in (DOMAIN Prefixes) \X (DOMAIN index) : Candidates(path)[h[1]] = index[h[2]].path}

\* The first prefix, and under it the first entry.
AssetSize(path) ==
    IF Hits(path) = {} THEN -2
    ELSE LET hit == CHOOSE h \in Hits(path) :
                        \A g \in Hits(path) : h[1] < g[1] \/ (h[1] = g[1] /\ h[2] <= g[2])
             entry == index[hit[2]]
         IN  IF entry.directory THEN -1 ELSE entry.size

\* What getAssetSize returns: an int.
GetAssetSize(path) ==
    LET size == AssetSize(path) IN IF size < IntLimit THEN size ELSE size - 2 * IntLimit
-----------------------------------------------------------------------------
(* nfsmw_obb_list, forEach and list                                        *)

Listing(t) == list[t].at \in {"scan", "copy"}

\* The buffer gets room for the whole index, unless it has it.  After the
\* close there is no entry to list, and no room is needed.
BeginList(t, path) ==
    /\ list[t].at = "guest" /\ state \in {"open", "closed"}
    /\ LET alone == \A u \in Threads : ~Listing(u)
       IN  list' = [u \in Threads |->
                       IF u = t THEN [at |-> "scan", path |-> Stripped(path), i |-> 1,
                                      names |-> <<>>, alone |-> alone]
                       ELSE [list[u] EXCEPT !.alone = FALSE]]
    /\ room' = IF room < Len(index) THEN Len(index) ELSE room
    /\ UNCHANGED <<archive, index, state, buffer>>

\* realloc fails: the list is empty, and the buffer as it was.
ListNothing(t) ==
    /\ list[t].at = "guest" /\ state \in {"open", "closed"} /\ room < Len(index)
    /\ list' = [list EXCEPT ![t].at = "empty"]
    /\ UNCHANGED <<archive, index, state, buffer, room>>

Below(path, entry) == StartsWith(path, entry.path) /\ Len(entry.path) > Len(path)

\* How many names thread t has put into the buffer.
Count(t) == Len(list[t].names)

\* Mutant of Scan: a name is entered as often as it is met.
ScanRepeating(t) ==
    LET l == list[t]
        child == index[l.i].path[Len(l.path) + 1]
    IN  /\ l.at = "scan" /\ l.i <= Len(index)
        /\ IF Below(l.path, index[l.i])
           THEN /\ buffer' = [buffer EXCEPT ![Count(t) + 1] = child]
                /\ list' = [list EXCEPT ![t].i = @ + 1, ![t].names = Append(@, None)]
           ELSE list' = [list EXCEPT ![t].i = @ + 1] /\ UNCHANGED buffer
        /\ UNCHANGED <<archive, index, state, room>>

\* The next entry: its first component below the directory is put into the
\* buffer, unless it is among those the thread takes for its own there.
Scan(t) ==
    LET l == list[t]
        child == index[l.i].path[Len(l.path) + 1]
    IN  /\ l.at = "scan" /\ l.i <= Len(index)
        /\ IF Below(l.path, index[l.i]) /\ child \notin {buffer[j] : j \in 1..Count(t)}
           THEN /\ buffer' = [buffer EXCEPT ![Count(t) + 1] = child]
                /\ list' = [list EXCEPT ![t].i = @ + 1, ![t].names = Append(@, None)]
           ELSE list' = [list EXCEPT ![t].i = @ + 1] /\ UNCHANGED buffer
        /\ UNCHANGED <<archive, index, state, room>>

ScanDone(t) ==
    /\ list[t].at = "scan" /\ list[t].i > Len(index)
    /\ list' = [list EXCEPT ![t].at = "copy", ![t].i = 1]
    /\ UNCHANGED <<archive, index, state, buffer, room>>

\* The bridge copies name after name out of the buffer into its array.  A
\* buffer that was closed meanwhile is NULL: the process ends here.
Copy(t) ==
    LET l == list[t] IN
    /\ l.at = "copy" /\ l.i <= Count(t) /\ buffer[l.i] # None
    /\ list' = [list EXCEPT ![t].i = @ + 1, ![t].names[l.i] = buffer[l.i]]
    /\ UNCHANGED <<archive, index, state, buffer, room>>

Return(t) ==
    /\ list[t].at = "empty" \/ (list[t].at = "copy" /\ list[t].i > Count(t))
    /\ list' = [list EXCEPT ![t] = NoList]
    /\ UNCHANGED <<archive, index, state, buffer, room>>

Next ==
    \/ Open \/ OpenEntry \/ Close
    \/ \E t \in Threads :
          \/ \E path \in Requests : BeginList(t, path)
          \/ ListNothing(t) \/ Scan(t) \/ ScanDone(t) \/ Copy(t) \/ Return(t)

Spec == Init /\ [][Next]_vars
-----------------------------------------------------------------------------
\* What a directory of the opened archive has in it.
Children(path) ==
    {entry.path[Len(path) + 1] :
        entry \in {e \in {archive.entries[i] : i \in DOMAIN archive.entries} : Below(path, e)}}

\* A listing that no other overlapped has every child of the directory once
\* and nothing else, unless there was no memory for it, and every file it
\* lists is found again with its size, past any file of that name under a
\* prefix, as long as an int holds it; while the index is open no listing,
\* overlapped or not, writes past the room of the buffer; and the index is
\* of the whole archive, or of nothing when opening failed
\* (obb_index.c:59-163, 177-295, jni_bridge.c:826-843, 1006-1009).
ListingsSound ==
    /\ state = "open" => index = archive.entries
    /\ state \in {"unopened", "failed", "closed"} => index = <<>>
    /\ state = "open" => \A t \in Threads : Count(t) <= room
    /\ \A t \in Threads :
          LET l == list[t]
              given == {l.names[i] : i \in DOMAIN l.names}
          IN
          state = "open" /\ l.at = "copy" /\ l.i > Count(t) /\ l.alone =>
              /\ given = Children(l.path) /\ Cardinality(given) = Len(l.names)
              /\ \A i \in DOMAIN index :
                    LET e == index[i] IN
                    (~e.directory /\ e.size < IntLimit /\ \E c \in given : e.path = Append(l.path, c))
                        => GetAssetSize(e.path) = e.size
=============================================================================
