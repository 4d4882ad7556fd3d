---------------------------- MODULE EtlCollector ----------------------------
(***************************************************************************)
(* etl::Collector with its buffer and its files (db/silkworm/etl).         *)
(* Entries go to a buffer, which is sorted and written to a file of its    *)
(* own when it overflows; a load merges the files, smallest entry first.   *)
(* A file is the sequence of entries that are left to be read from it.     *)
(* Tables!Load states what a load amounts to.                              *)
(***************************************************************************)
EXTENDS Tables

CONSTANTS kOptimalBufferSize

NewCollector == [buffer |-> <<>>, files |-> <<>>, size |-> 0, err |-> FALSE]

Sorted(entries) == SortSeq(entries, EntryLess)

\* FileProvider::flush, which throws when the disk has no room or the directory is gone.
WriteFile(c, entries, room) ==
    IF room THEN [c EXCEPT !.files = Append(@, entries), !.buffer = <<>>] ELSE [c EXCEPT !.err = TRUE]
FlushBuffer(c, room) == IF c.buffer = <<>> THEN c ELSE WriteFile(c, Sorted(c.buffer), room)

Overflows(c) == FoldLeft(LAMBDA n, e : n + e.size, 0, c.buffer) >= kOptimalBufferSize

FlushIfFull(c, room) == IF Overflows(c) THEN FlushBuffer(c, room) ELSE c
Collect(c, entry, room) == FlushIfFull([c EXCEPT !.buffer = Append(@, entry), !.size = @ + 1], room)

\* The provider whose entry is on top of the queue.
Smallest(files) == CHOOSE i \in DOMAIN files : \A j \in DOMAIN files : ~EntryLess(files[j][1], files[i][1])

\* read_entry of the file that was served; an exhausted file is dropped.
ReadEntry(files, i) ==
    IF Len(files[i]) = 1 THEN RemoveAt(files, i) ELSE [files EXCEPT ![i] = Tail(@)]

\* The queue is emptied, the smallest entry first.
Serve(m, i) ==
    [out |-> Append(m.out, m.files[Smallest(m.files)][1]), files |-> ReadEntry(m.files, Smallest(m.files))]
Merge(files) ==
    FoldLeft(Serve, [out |-> <<>>, files |-> files], [i \in 1 .. Len(FlattenSeq(files)) |-> i]).out

\* The entries in the order in which a load puts them.
Loaded(c) ==
    IF c.size = 0 THEN <<>> ELSE IF c.files = <<>> THEN Sorted(c.buffer) ELSE Merge(c.files)

\* What is left in the buffer goes to a file first, if there are files.
PrepareLoad(c, room) == IF c.files = <<>> THEN c ELSE FlushBuffer(c, room)

PutAll(table, entries) == FoldLeft(LAMBDA t, e : Put(t, e.key, e.value), table, entries)
=============================================================================
