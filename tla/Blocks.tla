------------------------------- MODULE Blocks -------------------------------
(***************************************************************************)
(* On-disk blocks: internal/store/block.go.  A block directory holds       *)
(* meta.json and data.json, written one after the other by writeBlock and  *)
(* read back by openBlock.  Two goroutines write blocks: FlushHead and the *)
(* compaction loop.  The steps of writeBlock are separate actions, because *)
(* the process may die between any two of them.                            *)
(*                                                                         *)
(* A file that exists but does not decode (created, or partly written) is  *)
(* {}; a file that decodes to x is {x}; a missing file is {} as well, for  *)
(* openBlock fails on either.  So a directory that is gone and one whose   *)
(* two files are gone are the same.                                        *)
(***************************************************************************)
EXTENDS Integers, Sequences, FiniteSets

CONSTANT HashOf  \* series -> labels.Hash(); a sample is [series, t, v]

VARIABLES
    disk,        \* directory name -> [meta, data]
    job          \* per writer: its program counter and the block it writes

blockVars == <<disk, job>>

Writer == {"flush", "compact"}

\* b%020d and c%020d of a time.
Dir == {"b", "c"} \X Int

Times(data) == {s.t : s \in data}

\* Between the steps below, "written" is the end of writeBlock, and a writer
\* in "failed" has returned its error.
WritePC == {"createMeta", "encodeMeta", "createData", "encodeData",
            "written", "failed"}

NoBlock == [dir |-> <<"b", 0>>, mint |-> 0, maxt |-> 0, data |-> {}]

NoFiles == [meta |-> {}, data |-> {}]

FilesOf(dir) == IF dir \in DOMAIN disk THEN disk[dir] ELSE NoFiles

SetFiles(dir, fs) ==
    disk' = [d \in DOMAIN disk \cup {dir} |-> IF d = dir THEN fs ELSE disk[d]]

-----------------------------------------------------------------------------
(* writeBlock *)

WriteStep(w, from, to, fs) ==
    /\ job[w].pc = from
    /\ job' = [job EXCEPT ![w].pc = to]
    /\ SetFiles(job[w].blk.dir, fs)

\* MkdirAll accepts an existing directory and os.Create truncates: a block
\* that was there before loses its meta.json here.
CreateMeta(w) ==
    WriteStep(w, "createMeta", "encodeMeta",
              [FilesOf(job[w].blk.dir) EXCEPT !.meta = {}])

\* Slip: MaxTime is left at the first time seen.
EncodeMeta_MinOnly(w) ==
    LET b == job[w].blk
    IN  WriteStep(w, "encodeMeta", "createData",
                  [FilesOf(b.dir) EXCEPT
                      !.meta = {[mint |-> b.mint, maxt |-> b.mint]}])

EncodeMeta(w) ==
    LET b == job[w].blk
    IN  WriteStep(w, "encodeMeta", "createData",
                  [FilesOf(b.dir) EXCEPT
                      !.meta = {[mint |-> b.mint, maxt |-> b.maxt]}])

CreateData(w) ==
    WriteStep(w, "createData", "encodeData",
              [FilesOf(job[w].blk.dir) EXCEPT !.data = {}])

EncodeData(w) ==
    LET b == job[w].blk
    IN  WriteStep(w, "encodeData", "written",
                  [FilesOf(b.dir) EXCEPT !.data = {b.data}])

\* Slip: the error is not returned.
WriteFails_Ignored(w) ==
    /\ job[w].pc \in WritePC \ {"written", "failed"}
    /\ job' = [job EXCEPT ![w].pc = "written"]
    /\ UNCHANGED disk

\* Any of the steps returns an error; what is on disk stays as it is.
WriteFails(w) ==
    /\ job[w].pc \in WritePC \ {"written", "failed"}
    /\ job' = [job EXCEPT ![w].pc = "failed"]
    /\ UNCHANGED disk

writeBlock(w) ==
    CreateMeta(w) \/ EncodeMeta(w) \/ CreateData(w) \/ EncodeData(w) \/ WriteFails(w)

-----------------------------------------------------------------------------
(* openBlock *)

Readable(dir) == disk[dir].meta # {} /\ disk[dir].data # {}

\* The blocks that open; a directory that does not is skipped.
openBlock(dir) ==
    {[dir |-> dir, mint |-> m.mint, maxt |-> m.maxt, data |-> d] :
        m \in disk[dir].meta, d \in disk[dir].data}

OpenableBlocks == UNION {openBlock(dir) : dir \in DOMAIN disk}

\* os.RemoveAll of some directories.  It unlinks file by file and its error is
\* ignored by every caller, so of each directory either file, or both, or none
\* may be gone.
RemoveAll(dirs) ==
    \E noMeta \in SUBSET (dirs \cap DOMAIN disk) :
    \E noData \in SUBSET (dirs \cap DOMAIN disk) :
       disk' = [d \in DOMAIN disk |->
                  [meta |-> IF d \in noMeta THEN {} ELSE disk[d].meta,
                   data |-> IF d \in noData THEN {} ELSE disk[d].data]]

-----------------------------------------------------------------------------
(* compactBlocks *)

HashesIn(b) == {HashOf[s.series] : s \in b.data}

\* Slip: a series that is in the map already is not appended to.
MergeResults_FirstOnly(bs) ==
    {{s \in UNION {bs[i].data : i \in DOMAIN bs} :
        \E i \in DOMAIN bs :
           /\ s \in bs[i].data
           /\ \A j \in 1 .. i - 1 : HashOf[s.series] \notin HashesIn(bs[j])}}

(***************************************************************************)
(* The sample sets compactBlocks may merge a sequence of blocks into.  The *)
(* map is keyed by the hash of the labels: the first series met under a    *)
(* hash is kept and another series with the same hash is dropped.  Samples *)
(* of one series are sorted by time, not stably, and of those with equal   *)
(* time one is kept.                                                       *)
(***************************************************************************)
MergeResults(bs) ==
    LET all == UNION {bs[i].data : i \in DOMAIN bs}
    IN  {m \in SUBSET all :
           /\ \A s \in all : \E r \in m : HashOf[r.series] = HashOf[s.series]
           /\ \A r, q \in m : HashOf[r.series] = HashOf[q.series] => r.series = q.series
           /\ \A r \in m : \E i \in DOMAIN bs :
                 /\ r.series \in {s.series : s \in bs[i].data}
                 /\ \A j \in 1 .. i - 1 : HashOf[r.series] \notin HashesIn(bs[j])
           /\ \A s \in all, r \in m :
                 r.series = s.series => \E q \in m : q.series = s.series /\ q.t = s.t
           /\ \A r, q \in m : (r.series = q.series /\ r.t = q.t) => r = q}

=============================================================================
