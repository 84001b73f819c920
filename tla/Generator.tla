----------------------------- MODULE Generator -----------------------------
(***************************************************************************)
(* The torrent generator (core/torrent-generator/): from the files of a    *)
(* directory to an info dictionary, as pure operators.                     *)
(*                                                                         *)
(* A file is a record of its depth and name (names of a depth are numbered *)
(* in their order), whether the name is hidden, and its bytes.  A digest is*)
(* the chunk it was computed from, an info hash the info dictionary.       *)
(***************************************************************************)
EXTENDS Integers, Sequences, FiniteSets, SequencesExt, FiniteSetsExt

CONSTANTS
  Presets,    \* PieceSizeEnum, without SIZE_AUTO
  LargestAuto \* the largest that is chosen: SIZE_512KB in the code

ASSUME GeneratorAssumption ==
  /\ IsFiniteSet(Presets) /\ Presets \subseteq Nat \ {0} /\ LargestAuto \in Presets

Less(m, n) == IF m < n THEN m ELSE n
Bytes(files) == FoldLeft(LAMBDA s, f : s \o f.bytes, <<>>, files)

\* walkOPFSDir: shallowest first, then by name.
Before(f, g) == f.depth < g.depth \/ (f.depth = g.depth /\ f.name < g.name)
Insert(q, f) == InsertAt(q, 1 + Cardinality({i \in DOMAIN q : Before(q[i], f)}), f)
WalkDir(dir, ignoreHidden) ==
  FoldLeft(Insert, <<>>, SetToSeq({f \in dir : ~(ignoreHidden /\ f.hidden)}))

\* calcPieceSize with SIZE_AUTO.
CalcPieceSize(total) ==
  LET larger == {p \in Presets : total < p}
  IN  Less(IF larger = {} THEN Max(Presets) ELSE Min(larger), LargestAuto)

\* readChunk of OPFSMultiFileReader over the files, until it returns null.
Chunks(bytes, size) ==
  [i \in 1..((Len(bytes) + size - 1) \div size) |->
     SubSeq(bytes, (i - 1) * size + 1, Less(i * size, Len(bytes)))]

\* buildPieceFiles: zeros before each file that would not start a piece.
Padding(n) == [depth |-> 2, name |-> n, hidden |-> TRUE, bytes |-> [i \in 1..n |-> 0]]
BuildPieceFiles(files, size) ==
  FoldLeft(LAMBDA s, f :
      LET offset == Len(Bytes(s)) % size
      IN  IF f.bytes # <<>> /\ offset > 0 THEN s \o <<Padding(size - offset), f>> ELSE Append(s, f),
    <<>>, files)

\* sha1sum, and sha1sumAligned when there are padding files among them.
Digests(files, size) == Chunks(Bytes(files), size)

\* generateTorrent: the info dictionary.  Of the files the lengths and paths go into it.
Generate(rootName, files, align) ==
  LET size == CalcPieceSize(Len(Bytes(files)))
      single == Len(files) = 1 /\ files[1].depth = 1
      all == IF align /\ ~single THEN BuildPieceFiles(files, size) ELSE files
  IN  [name |-> rootName,
       files |-> [i \in 1..Len(all) |-> [depth |-> all[i].depth, name |-> all[i].name,
                                         length |-> Len(all[i].bytes)]],
       pieceLength |-> size,
       pieces |-> Digests(all, size)]

Length(info) == FoldLeft(LAMBDA n, f : n + f.length, 0, info.files)
=============================================================================
