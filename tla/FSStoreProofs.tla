--------------------------- MODULE FSStoreProofs ---------------------------
(***************************************************************************)
(* Theorems about the filesystem store.  The first part is about the store *)
(* as the server runs it, ServerSpec of module FSStore, for any number of  *)
(* handlers, samples, batches and segments; the second about its blocks;   *)
(* the third about the limit on their size.                                *)
(***************************************************************************)
EXTENDS FSStore, WALProofs, FiniteSetTheorems, FunctionTheorems, WellFoundedInduction

-----------------------------------------------------------------------------
(* Finite sets *)

\* A set of naturals has a least member.
LEMMA LeastNat ==
    ASSUME NEW T, T \subseteq Nat, T # {}
    PROVE  \E x \in T : \A y \in T : x =< y
<1>1. PICK x \in T : \A y \in T : ~ (<<y, x>> \in OpToRel(<, Nat))
    BY WFMin, NatLessThanWellFounded
<1>2. \A y \in T : ~ (y < x)
    BY <1>1 DEF OpToRel
<1> QED BY <1>2

\* The times of a set before, and after, one of them.
Earlier(S, x) == {z \in S : z < x}

LEMMA FewerEarlier ==
    ASSUME NEW S, IsFiniteSet(S), S \subseteq Int, NEW x \in S, NEW y \in S, y < x
    PROVE  /\ Cardinality(Earlier(S, x)) \in Nat /\ Cardinality(Earlier(S, y)) \in Nat
           /\ Cardinality(Earlier(S, y)) < Cardinality(Earlier(S, x))
<1>1. y \in Earlier(S, x) /\ y \notin Earlier(S, y)
    BY DEF Earlier
<1>2. ASSUME NEW z \in S, z < y PROVE z < x
    BY <1>2
<1>3. Earlier(S, y) \in SUBSET Earlier(S, x) /\ Earlier(S, x) \in SUBSET S
    BY <1>2 DEF Earlier
<1>4. IsFiniteSet(Earlier(S, x))
    BY <1>3, FS_Subset
<1>5. /\ Cardinality(Earlier(S, y)) =< Cardinality(Earlier(S, x))
      /\ Cardinality(Earlier(S, y)) # Cardinality(Earlier(S, x))
      /\ IsFiniteSet(Earlier(S, y))
    BY <1>1, <1>3, <1>4, FS_Subset
<1> QED BY <1>4, <1>5, FS_CardinalityType

\* A finite set of times has an earliest one.
LEMMA MinFinite ==
    ASSUME NEW S, IsFiniteSet(S), S \subseteq Int, S # {}
    PROVE  Min(S) \in S /\ \A y \in S : Min(S) =< y
<1> DEFINE N == {Cardinality(Earlier(S, x)) : x \in S}
<1>1. ASSUME NEW x \in S PROVE Cardinality(Earlier(S, x)) \in Nat
  <2>1. Earlier(S, x) \in SUBSET S
      BY DEF Earlier
  <2> QED BY <2>1, FS_Subset, FS_CardinalityType
<1>2. N \subseteq Nat /\ N # {}
    BY <1>1
<1>3. PICK n \in N : \A m \in N : n =< m
  <2> HIDE DEF N
  <2> QED BY <1>2, LeastNat
<1>4. PICK x \in S : n = Cardinality(Earlier(S, x))
    OBVIOUS
<1>5. ASSUME NEW y \in S PROVE x =< y
  <2>1. Cardinality(Earlier(S, y)) \in N
      OBVIOUS
  <2>2. Cardinality(Earlier(S, x)) =< Cardinality(Earlier(S, y))
      BY <1>3, <1>4, <2>1
  <2>3. x \in Int /\ y \in Int
      OBVIOUS
  <2>4. ~ (y < x)
    <3> HIDE DEF N
    <3> SUFFICES ASSUME y < x PROVE FALSE
        OBVIOUS
    <3>1. /\ Cardinality(Earlier(S, x)) \in Nat /\ Cardinality(Earlier(S, y)) \in Nat
          /\ Cardinality(Earlier(S, y)) < Cardinality(Earlier(S, x))
        BY FewerEarlier
    <3> QED BY <2>2, <3>1
  <2> QED BY <2>3, <2>4
<1>6. \E z \in S : \A y \in S : z =< y
    BY <1>5
<1> QED BY <1>6 DEF Min

Later(S, x) == {z \in S : x < z}

LEMMA FewerLater ==
    ASSUME NEW S, IsFiniteSet(S), S \subseteq Int, NEW x \in S, NEW y \in S, x < y
    PROVE  /\ Cardinality(Later(S, x)) \in Nat /\ Cardinality(Later(S, y)) \in Nat
           /\ Cardinality(Later(S, y)) < Cardinality(Later(S, x))
<1>1. y \in Later(S, x) /\ y \notin Later(S, y)
    BY DEF Later
<1>2. ASSUME NEW z \in S, y < z PROVE x < z
    BY <1>2
<1>3. Later(S, y) \in SUBSET Later(S, x) /\ Later(S, x) \in SUBSET S
    BY <1>2 DEF Later
<1>4. IsFiniteSet(Later(S, x))
    BY <1>3, FS_Subset
<1>5. /\ Cardinality(Later(S, y)) =< Cardinality(Later(S, x))
      /\ Cardinality(Later(S, y)) # Cardinality(Later(S, x))
      /\ IsFiniteSet(Later(S, y))
    BY <1>1, <1>3, <1>4, FS_Subset
<1> QED BY <1>4, <1>5, FS_CardinalityType

\* A finite set of times has a latest one.
LEMMA MaxFinite ==
    ASSUME NEW S, IsFiniteSet(S), S \subseteq Int, S # {}
    PROVE  Max(S) \in S /\ \A y \in S : Max(S) >= y
<1> DEFINE N == {Cardinality(Later(S, x)) : x \in S}
<1>1. ASSUME NEW x \in S PROVE Cardinality(Later(S, x)) \in Nat
  <2>1. Later(S, x) \in SUBSET S
      BY DEF Later
  <2> QED BY <2>1, FS_Subset, FS_CardinalityType
<1>2. N \subseteq Nat /\ N # {}
    BY <1>1
<1>3. PICK n \in N : \A m \in N : n =< m
  <2> HIDE DEF N
  <2> QED BY <1>2, LeastNat
<1>4. PICK x \in S : n = Cardinality(Later(S, x))
    OBVIOUS
<1>5. ASSUME NEW y \in S PROVE y =< x
  <2>1. Cardinality(Later(S, y)) \in N
      OBVIOUS
  <2>2. Cardinality(Later(S, x)) =< Cardinality(Later(S, y))
      BY <1>3, <1>4, <2>1
  <2>3. x \in Int /\ y \in Int
      OBVIOUS
  <2>4. ~ (x < y)
    <3> HIDE DEF N
    <3> SUFFICES ASSUME x < y PROVE FALSE
        OBVIOUS
    <3>1. /\ Cardinality(Later(S, x)) \in Nat /\ Cardinality(Later(S, y)) \in Nat
          /\ Cardinality(Later(S, y)) < Cardinality(Later(S, x))
        BY FewerLater
    <3> QED BY <2>2, <3>1
  <2> QED BY <2>3, <2>4
<1>6. \E z \in S : \A y \in S : z >= y
    BY <1>5
<1> QED BY <1>6 DEF Max

LEMMA FiniteElems ==
    ASSUME NEW S, NEW s \in Seq(S)
    PROVE  IsFiniteSet(Elems(s)) /\ Elems(s) \subseteq S
<1>1. [i \in 1 .. Len(s) |-> s[i]] \in Surjection(1 .. Len(s), Elems(s))
    BY DEF Surjection, Elems
<1>2. IsFiniteSet(1 .. Len(s))
    BY FS_Interval
<1> QED BY <1>1, <1>2, FS_Surjection DEF Elems

-----------------------------------------------------------------------------
(* Types *)

\* What a block directory holds; each of its files has one content.
FileRec == [meta : SUBSET [mint : Int, maxt : Int], data : SUBSET (SUBSET Sample)]

OneFile(fs) ==
    /\ \A x, y \in fs.meta : x = y
    /\ \A x, y \in fs.data : x = y

JobRec == [pc : JobPC, blk : Block, dirs : Seq(Dir), seq : Nat]

DiskOK ==
    /\ IsFiniteSet(DOMAIN disk)
    /\ \A d \in DOMAIN disk : d \in Dir /\ disk[d] \in FileRec /\ OneFile(disk[d])

LogOK == WALTypeOK /\ IsFiniteSet(DOMAIN files)

HeadOK ==
    /\ mem \subseteq Sample \cup {Garbage}
    /\ IsFiniteSet(mem)
    /\ acked \subseteq Sample

PlainOK ==
    /\ phase \in {"down", "up", "closing", "closed"}
    /\ rd.pc \in {"idle", "mem"} /\ rd.op \in {"none", "select", "labels"}
    /\ now \in Nat
    /\ commits \in Nat

(***************************************************************************)
(* The type invariant is not inductive by itself: the first and the last   *)
(* time of a block are those of a head which must be finite to have any,   *)
(* openBlocks lists blocks of which there must be finitely many, and that  *)
(* needs files with one content each.                                      *)
(***************************************************************************)
TypeInv ==
    /\ LogOK
    /\ DiskOK
    /\ job \in [Writer -> JobRec]
    /\ HeadOK
    /\ blocks \in Seq(Block)
    /\ PlainOK

LEMMA TypeInvImplies == TypeInv => TypeOK
BY DEF TypeInv, TypeOK, LogOK, DiskOK, HeadOK, PlainOK, FileRec, JobRec

LEMMA IdleJobsType == IdleJobs \in [Writer -> JobRec]
<1>1. NoBlock \in Block
    BY DEF NoBlock, Block, Dir
<1> QED BY <1>1 DEF IdleJobs, JobRec, JobPC

LEMMA InitTypeInv == Init => TypeInv
<1> SUFFICES ASSUME Init PROVE TypeInv
    OBVIOUS
<1>1. DOMAIN files = {} /\ DOMAIN synced = {} /\ DOMAIN disk = {}
    BY DEF Init, WALInit
<1>2. WALTypeOK
    BY <1>1 DEF Init, WALInit, WALTypeOK, LogCall, NoCall
<1>3. IsFiniteSet(DOMAIN files) /\ IsFiniteSet(DOMAIN disk) /\ IsFiniteSet(mem)
    BY <1>1, FS_EmptySet DEF Init
<1>4. blocks \in Seq(Block)
    BY DEF Init
<1> QED BY <1>1, <1>2, <1>3, <1>4, IdleJobsType
        DEF Init, TypeInv, LogOK, DiskOK, HeadOK, PlainOK, NoRead

\* Opening a segment adds one file at most.
LEMMA OpenFileFinite ==
    ASSUME IsFiniteSet(DOMAIN files), NEW seq, OpenFile(seq) \/ OpenAndSync(seq)
    PROVE  IsFiniteSet(DOMAIN files')
BY FS_AddElement DEF OpenFile, OpenAndSync, CreateFile

LEMMA NewWALFinite ==
    ASSUME IsFiniteSet(DOMAIN files), NewWAL \/ NewWALErr
    PROVE  IsFiniteSet(DOMAIN files')
BY OpenFileFinite DEF NewWAL, OpenSegment, NewWALErr

LEMMA LogStepOK ==
    ASSUME LogOK, NEW c \in Caller, LogStep(c)
    PROVE  LogOK'
<1>1. WALTypeOK'
    BY LogStepType DEF LogOK
<1>2. IsFiniteSet(DOMAIN files')
  <2>1. CASE RotateOpen(c)
      BY <2>1, OpenFileFinite DEF RotateOpen, OpenSegment, LogOK
  <2>2. CASE LogWrite(c) \/ LogWriteTorn(c)
    <3>1. DOMAIN files' = DOMAIN files
        BY <2>2 DEF LogWrite, LogWriteTorn
    <3> QED BY <3>1 DEF LogOK
  <2>3. CASE ~ RotateOpen(c) /\ ~ LogWrite(c) /\ ~ LogWriteTorn(c)
    <3>1. files' = files
        BY <2>3 DEF LogStep, LogWriteErr, LogReturn, RotateSync, RotateSyncErr, RotateOpenErr
    <3> QED BY <3>1 DEF LogOK
  <2> QED BY <2>1, <2>2, <2>3
<1> QED BY <1>1, <1>2 DEF LogOK

\* All that Replay may deliver: records that are in the files, and Garbage.
LEMMA ReplayResultsFinite ==
    ASSUME LogOK, NEW r \in ReplayResults
    PROVE  r \subseteq Sample \cup {Garbage} /\ IsFiniteSet(r)
<1> DEFINE Recs(s) == {files[s][i].rec : i \in 1 .. Len(files[s])}
           F == {Recs(s) : s \in DOMAIN files}
<1>1. ASSUME NEW s \in DOMAIN files PROVE Recs(s) \subseteq Sample /\ IsFiniteSet(Recs(s))
  <2>1. files[s] \in Seq(Chunk) /\ Len(files[s]) \in Nat
      BY DEF LogOK, WALTypeOK
  <2>2. Recs(s) \subseteq Sample
    <3>1. ASSUME NEW i \in 1 .. Len(files[s]) PROVE files[s][i].rec \in Sample
      <4>1. files[s][i] \in Chunk
          BY <2>1
      <4> QED BY <4>1 DEF Chunk
    <3> QED BY <3>1
  <2>3. [i \in 1 .. Len(files[s]) |-> files[s][i].rec] \in Surjection(1 .. Len(files[s]), Recs(s))
      BY DEF Surjection
  <2>4. IsFiniteSet(1 .. Len(files[s]))
      BY <2>1, FS_Interval
  <2> HIDE DEF Recs
  <2> QED BY <2>2, <2>3, <2>4, FS_Surjection
<1>2. IsFiniteSet(F)
  <2>1. [s \in DOMAIN files |-> Recs(s)] \in Surjection(DOMAIN files, F)
      BY DEF Surjection
  <2> HIDE DEF F, Recs
  <2> QED BY <2>1, FS_Surjection DEF LogOK
<1>3. IsFiniteSet(UNION F) /\ UNION F \subseteq Sample
  <2>1. \A R \in F : IsFiniteSet(R) /\ R \subseteq Sample
      BY <1>1
  <2> HIDE DEF F, Recs
  <2> QED BY <1>2, <2>1, FS_UNION
<1>4. IsFiniteSet((UNION F) \cup {Garbage})
    BY <1>3, FS_AddElement
<1>5. r \subseteq (UNION F) \cup {Garbage}
  <2>1. PICK extra \in SUBSET Misread : r = Replayed \cup extra
      BY DEF ReplayResults
  <2>2. Misread \subseteq (UNION F) \cup {Garbage}
      BY DEF Misread
  <2>3. ASSUME NEW s \in DOMAIN files PROVE ReplayedSegment(files[s]) \subseteq Recs(s)
      BY DEF ReplayedSegment, WholePrefix
  <2>4. Replayed \subseteq UNION F
      BY <2>3 DEF Replayed
  <2> HIDE DEF F, Recs
  <2> QED BY <2>1, <2>2, <2>4
<1> HIDE DEF F, Recs
<1> QED BY <1>3, <1>4, <1>5, FS_Subset

-----------------------------------------------------------------------------
(* Blocks on disk *)

\* Block b is what openBlock reads from its directory on disk dk.
OpenIn(dk, b) ==
    /\ b \in Block
    /\ b.dir \in DOMAIN dk
    /\ [mint |-> b.mint, maxt |-> b.maxt] \in dk[b.dir].meta
    /\ b.data \in dk[b.dir].data

DiskOKIn(dk) ==
    /\ IsFiniteSet(DOMAIN dk)
    /\ \A d \in DOMAIN dk : d \in Dir /\ dk[d] \in FileRec /\ OneFile(dk[d])

\* OpenableBlocks of a disk, to speak of the one before and after a step.
OpenBlocksIn(dk) ==
    UNION {{[dir |-> dir, mint |-> m.mint, maxt |-> m.maxt, data |-> d] :
               m \in dk[dir].meta, d \in dk[dir].data} : dir \in DOMAIN dk}

LEMMA OpenableIn ==
    /\ DiskOK <=> DiskOKIn(disk)
    /\ DiskOK' <=> DiskOKIn(disk')
    /\ OpenableBlocks = OpenBlocksIn(disk)
    /\ OpenableBlocks' = OpenBlocksIn(disk')
BY DEF DiskOK, DiskOKIn, OpenableBlocks, openBlock, OpenBlocksIn

LEMMA OpenMember ==
    ASSUME NEW dk, DiskOKIn(dk), NEW b
    PROVE  b \in OpenBlocksIn(dk) <=> OpenIn(dk, b)
<1>1. ASSUME b \in OpenBlocksIn(dk) PROVE OpenIn(dk, b)
  <2>1. PICK dir \in DOMAIN dk : b \in {[dir |-> dir, mint |-> m.mint, maxt |-> m.maxt, data |-> d] :
                                          m \in dk[dir].meta, d \in dk[dir].data}
      BY <1>1 DEF OpenBlocksIn
  <2>2. PICK m \in dk[dir].meta, d \in dk[dir].data :
           b = [dir |-> dir, mint |-> m.mint, maxt |-> m.maxt, data |-> d]
      BY <2>1
  <2>3. dir \in Dir /\ m \in [mint : Int, maxt : Int] /\ d \in SUBSET Sample
      BY DEF DiskOKIn, FileRec
  <2>4. m = [mint |-> m.mint, maxt |-> m.maxt]
      BY <2>3
  <2> QED BY <2>2, <2>3, <2>4 DEF OpenIn, Block
<1>2. ASSUME OpenIn(dk, b) PROVE b \in OpenBlocksIn(dk)
  <2>1. b \in Block
      BY <1>2 DEF OpenIn
  <2>2. b = [dir |-> b.dir, mint |-> b.mint, maxt |-> b.maxt, data |-> b.data]
      BY <2>1 DEF Block
  <2>3. PICK m \in dk[b.dir].meta : m.mint = b.mint /\ m.maxt = b.maxt
      BY <1>2 DEF OpenIn
  <2>4. b \in {[dir |-> b.dir, mint |-> x.mint, maxt |-> x.maxt, data |-> d] :
                  x \in dk[b.dir].meta, d \in dk[b.dir].data}
      BY <1>2, <2>2, <2>3 DEF OpenIn
  <2> QED BY <1>2, <2>4 DEF OpenIn, OpenBlocksIn
<1> QED BY <1>1, <1>2

\* One block per directory.
LEMMA OpenUnique ==
    ASSUME NEW dk, DiskOKIn(dk), NEW b, NEW x, OpenIn(dk, b), OpenIn(dk, x), b.dir = x.dir
    PROVE  b = x
<1>1. OneFile(dk[b.dir]) /\ b \in Block /\ x \in Block
    BY DEF OpenIn, DiskOKIn
<1>2. b.data = x.data
    BY <1>1 DEF OpenIn, OneFile
<1>3. [mint |-> b.mint, maxt |-> b.maxt] = [mint |-> x.mint, maxt |-> x.maxt]
    BY <1>1 DEF OpenIn, OneFile
<1>4. b.mint = x.mint /\ b.maxt = x.maxt
    BY <1>3
<1> QED BY <1>1, <1>2, <1>4 DEF Block

LEMMA OpenFinite ==
    ASSUME NEW dk, DiskOKIn(dk)
    PROVE  /\ OpenBlocksIn(dk) \subseteq Block
           /\ IsFiniteSet(OpenBlocksIn(dk))
           /\ Cardinality(OpenBlocksIn(dk)) \in Nat
<1>1. OpenBlocksIn(dk) \subseteq Block
    BY OpenMember DEF OpenIn
<1> DEFINE Dirs == {d \in DOMAIN dk : \E b \in OpenBlocksIn(dk) : b.dir = d}
           At == [d \in Dirs |-> CHOOSE b \in OpenBlocksIn(dk) : b.dir = d]
<1>2. IsFiniteSet(Dirs)
    BY FS_Subset DEF DiskOKIn
<1>3. ASSUME NEW d \in Dirs PROVE At[d] \in OpenBlocksIn(dk) /\ At[d].dir = d
    OBVIOUS
<1>4. ASSUME NEW b \in OpenBlocksIn(dk) PROVE b.dir \in Dirs /\ At[b.dir] = b
  <2>1. OpenIn(dk, b) /\ b.dir \in Dirs
      BY OpenMember DEF OpenIn
  <2>2. At[b.dir] \in OpenBlocksIn(dk) /\ At[b.dir].dir = b.dir
      BY <1>3, <2>1
  <2>3. OpenIn(dk, At[b.dir])
    <3> HIDE DEF At
    <3> QED BY <2>2, OpenMember
  <2> HIDE DEF At, Dirs
  <2> QED BY <2>1, <2>2, <2>3, OpenUnique
<1>5. At \in [Dirs -> OpenBlocksIn(dk)]
    BY <1>3
<1>6. At \in Surjection(Dirs, OpenBlocksIn(dk))
  <2> HIDE DEF At, Dirs
  <2> QED BY <1>4, <1>5 DEF Surjection
<1> HIDE DEF At, Dirs
<1> QED BY <1>1, <1>2, <1>6, FS_Surjection, FS_CardinalityType

\* openBlocks lists the blocks that open, each once.
LEMMA openBlocksFacts ==
    ASSUME DiskOK, NEW bs \in [1 .. Cardinality(OpenableBlocks) -> OpenableBlocks], openBlocks(bs)
    PROVE  /\ bs \in Seq(Block)
           /\ Elems(bs) = OpenableBlocks
           /\ \A i, j \in 1 .. Len(bs) : i # j => bs[i] # bs[j]
<1>1. Cardinality(OpenableBlocks) \in Nat /\ OpenableBlocks \subseteq Block
    BY OpenableIn, OpenFinite
<1>2. bs \in Seq(Block) /\ DOMAIN bs = 1 .. Len(bs)
    BY <1>1
<1>3. ASSUME NEW i \in 1 .. Len(bs), NEW j \in 1 .. Len(bs), i # j PROVE bs[i] # bs[j]
  <2>1. i < j \/ j < i
      BY <1>3
  <2> QED BY <1>2, <2>1 DEF openBlocks
<1> QED BY <1>2, <1>3 DEF openBlocks

-----------------------------------------------------------------------------
(* writeBlock and RemoveAll *)

LEMMA SetFilesOK ==
    ASSUME DiskOK, NEW dir \in Dir, NEW fs \in FileRec, OneFile(fs), SetFiles(dir, fs)
    PROVE  /\ DiskOK'
           /\ DOMAIN disk' = DOMAIN disk \cup {dir}
           /\ disk'[dir] = fs
           /\ \A d \in DOMAIN disk : d # dir => disk'[d] = disk[d]
<1>1. /\ DOMAIN disk' = DOMAIN disk \cup {dir}
      /\ disk'[dir] = fs
      /\ \A d \in DOMAIN disk : d # dir => disk'[d] = disk[d]
    BY DEF SetFiles
<1>2. IsFiniteSet(DOMAIN disk')
    BY <1>1, FS_AddElement DEF DiskOK
<1> QED BY <1>1, <1>2 DEF DiskOK

LEMMA FilesOfType ==
    ASSUME DiskOK, NEW dir
    PROVE  FilesOf(dir) \in FileRec /\ OneFile(FilesOf(dir))
BY DEF DiskOK, FilesOf, NoFiles, FileRec, OneFile

\* What the steps of writeBlock put into the directory of the block.
WriteStepOf(w, fs) ==
    \/ /\ job[w].pc = "createMeta" /\ job' = [job EXCEPT ![w].pc = "encodeMeta"]
       /\ fs = [FilesOf(job[w].blk.dir) EXCEPT !.meta = {}]
    \/ /\ job[w].pc = "encodeMeta" /\ job' = [job EXCEPT ![w].pc = "createData"]
       /\ fs = [FilesOf(job[w].blk.dir) EXCEPT
                  !.meta = {[mint |-> job[w].blk.mint, maxt |-> job[w].blk.maxt]}]
    \/ /\ job[w].pc = "createData" /\ job' = [job EXCEPT ![w].pc = "encodeData"]
       /\ fs = [FilesOf(job[w].blk.dir) EXCEPT !.data = {}]
    \/ /\ job[w].pc = "encodeData" /\ job' = [job EXCEPT ![w].pc = "written"]
       /\ fs = [FilesOf(job[w].blk.dir) EXCEPT !.data = {job[w].blk.data}]

LEMMA WriteBlockCases ==
    ASSUME NEW w \in Writer, writeBlock(w)
    PROVE  \/ \E fs : WriteStepOf(w, fs) /\ SetFiles(job[w].blk.dir, fs)
           \/ WriteFails(w)
BY DEF writeBlock, CreateMeta, EncodeMeta, CreateData, EncodeData, WriteStep, WriteStepOf

LEMMA WriteStepType ==
    ASSUME DiskOK, job \in [Writer -> JobRec], NEW w \in Writer, NEW fs, WriteStepOf(w, fs)
    PROVE  /\ fs \in FileRec /\ OneFile(fs)
           /\ job[w].blk \in Block /\ job[w].blk.dir \in Dir
           /\ job' \in [Writer -> JobRec]
           /\ \A x \in Writer : /\ job'[x].blk = job[x].blk
                                /\ job'[x].dirs = job[x].dirs
                                /\ job'[x].seq = job[x].seq
                                /\ x # w => job'[x].pc = job[x].pc
<1> DEFINE f == FilesOf(job[w].blk.dir)
<1>1. f \in FileRec /\ OneFile(f)
    BY FilesOfType
<1>2. job[w] \in JobRec /\ job[w].blk \in Block /\ job[w].blk.dir \in Dir
    BY DEF JobRec, Block
<1>3. /\ [mint |-> job[w].blk.mint, maxt |-> job[w].blk.maxt] \in [mint : Int, maxt : Int]
      /\ job[w].blk.data \in SUBSET Sample
    BY <1>2 DEF Block
<1>4. fs \in FileRec /\ OneFile(fs)
  <2> HIDE DEF f
  <2>1. ASSUME NEW m \in SUBSET [mint : Int, maxt : Int], \A x, y \in m : x = y
        PROVE  [f EXCEPT !.meta = m] \in FileRec /\ OneFile([f EXCEPT !.meta = m])
      BY <1>1, <2>1 DEF FileRec, OneFile
  <2>2. ASSUME NEW d \in SUBSET (SUBSET Sample), \A x, y \in d : x = y
        PROVE  [f EXCEPT !.data = d] \in FileRec /\ OneFile([f EXCEPT !.data = d])
      BY <1>1, <2>2 DEF FileRec, OneFile
  <2>3. \/ \E m \in {{}, {[mint |-> job[w].blk.mint, maxt |-> job[w].blk.maxt]}} : fs = [f EXCEPT !.meta = m]
        \/ \E d \in {{}, {job[w].blk.data}} : fs = [f EXCEPT !.data = d]
      BY DEF WriteStepOf, f
  <2>4. ASSUME NEW m \in {{}, {[mint |-> job[w].blk.mint, maxt |-> job[w].blk.maxt]}}
        PROVE  m \in SUBSET [mint : Int, maxt : Int] /\ \A x, y \in m : x = y
      BY <1>3
  <2>5. ASSUME NEW d \in {{}, {job[w].blk.data}}
        PROVE  d \in SUBSET (SUBSET Sample) /\ \A x, y \in d : x = y
      BY <1>3
  <2>6. CASE \E m \in {{}, {[mint |-> job[w].blk.mint, maxt |-> job[w].blk.maxt]}} : fs = [f EXCEPT !.meta = m]
      BY <2>1, <2>4, <2>6
  <2>7. CASE \E d \in {{}, {job[w].blk.data}} : fs = [f EXCEPT !.data = d]
      BY <2>2, <2>5, <2>7
  <2> QED BY <2>3, <2>6, <2>7
<1>5. PICK to \in WritePC : job' = [job EXCEPT ![w].pc = to]
    BY DEF WriteStepOf, WritePC
<1>6. to \in JobPC
    BY DEF JobPC
<1>7. /\ job' \in [Writer -> JobRec]
      /\ \A x \in Writer : /\ job'[x].blk = job[x].blk
                           /\ job'[x].dirs = job[x].dirs
                           /\ job'[x].seq = job[x].seq
                           /\ x # w => job'[x].pc = job[x].pc
    BY <1>5, <1>6 DEF JobRec
<1> QED BY <1>2, <1>4, <1>7

LEMMA WriteBlockType ==
    ASSUME DiskOK, job \in [Writer -> JobRec], NEW w \in Writer, writeBlock(w)
    PROVE  DiskOK' /\ job' \in [Writer -> JobRec]
<1>1. CASE WriteFails(w)
  <2>1. job' \in [Writer -> JobRec]
      BY <1>1 DEF WriteFails, JobRec, JobPC, WritePC
  <2> QED BY <1>1, <2>1 DEF WriteFails, DiskOK
<1>2. CASE \E fs : WriteStepOf(w, fs) /\ SetFiles(job[w].blk.dir, fs)
  <2>1. PICK fs : WriteStepOf(w, fs) /\ SetFiles(job[w].blk.dir, fs)
      BY <1>2
  <2> QED BY <2>1, WriteStepType, SetFilesOK
<1> QED BY <1>1, <1>2, WriteBlockCases

\* os.RemoveAll leaves the other directories as they are, and of the ones it is
\* called with what is left was there before.
LEMMA RemoveAllOK ==
    ASSUME DiskOK, NEW dirs, RemoveAll(dirs)
    PROVE  /\ DiskOK'
           /\ DOMAIN disk' = DOMAIN disk
           /\ \A d \in DOMAIN disk : d \notin dirs => disk'[d] = disk[d]
           /\ \A d \in DOMAIN disk : /\ disk'[d].meta \in {{}, disk[d].meta}
                                     /\ disk'[d].data \in {{}, disk[d].data}
<1>0. PICK noMeta \in SUBSET (dirs \cap DOMAIN disk) :
         \E noData \in SUBSET (dirs \cap DOMAIN disk) :
            disk' = [d \in DOMAIN disk |->
                       [meta |-> IF d \in noMeta THEN {} ELSE disk[d].meta,
                        data |-> IF d \in noData THEN {} ELSE disk[d].data]]
    BY DEF RemoveAll
<1>1. PICK noData \in SUBSET (dirs \cap DOMAIN disk) :
         disk' = [d \in DOMAIN disk |->
                    [meta |-> IF d \in noMeta THEN {} ELSE disk[d].meta,
                     data |-> IF d \in noData THEN {} ELSE disk[d].data]]
    BY <1>0
<1>2. DOMAIN disk' = DOMAIN disk
    BY <1>1
<1>3. ASSUME NEW d \in DOMAIN disk
      PROVE  /\ disk[d] \in FileRec /\ disk'[d] \in FileRec
             /\ disk'[d].meta = IF d \in noMeta THEN {} ELSE disk[d].meta
             /\ disk'[d].data = IF d \in noData THEN {} ELSE disk[d].data
    BY <1>1 DEF DiskOK, FileRec
<1>4. DiskOK'
  <2>1. \A d \in DOMAIN disk : OneFile(disk'[d])
      BY <1>3 DEF DiskOK, OneFile
  <2> QED BY <1>2, <1>3, <2>1 DEF DiskOK
<1>5. ASSUME NEW d \in DOMAIN disk, d \notin dirs PROVE disk'[d] = disk[d]
  <2>1. disk'[d].meta = disk[d].meta /\ disk'[d].data = disk[d].data
      BY <1>3, <1>5
  <2> QED BY <1>3, <2>1 DEF FileRec
<1>6. ASSUME NEW d \in DOMAIN disk
      PROVE  disk'[d].meta \in {{}, disk[d].meta} /\ disk'[d].data \in {{}, disk[d].data}
    BY <1>3
<1> QED BY <1>2, <1>4, <1>5, <1>6

-----------------------------------------------------------------------------
(* The type invariant is kept by every step *)

\* FlushHead: the directory is named for the first time in the head, and the
\* times of the block cover its samples.
LEMMA FlushSnapshotType ==
    ASSUME TypeInv, FlushSnapshot
    PROVE  /\ job' \in [Writer -> JobRec]
           /\ LET b == job'["flush"].blk
              IN  /\ b.data = mem \cap Sample
                  /\ b.dir = <<"b", b.mint>>
                  /\ Covers(b)
                  /\ \E s \in b.data : s.t = b.mint
           /\ job'["flush"].pc = "createMeta"
           /\ job'["compact"] = job["compact"]
<1> DEFINE D == mem \cap Sample
           T == Times(D)
           b == [dir |-> <<"b", Min(T)>>, mint |-> Min(T), maxt |-> Max(T), data |-> D]
<1>1. T \subseteq Int /\ T # {}
    BY FSStoreAssumption DEF FlushSnapshot, Times
<1>2. IsFiniteSet(T)
  <2>1. IsFiniteSet(D)
      BY FS_Subset DEF TypeInv, HeadOK
  <2>2. [s \in D |-> s.t] \in Surjection(D, T)
      BY DEF Surjection, Times
  <2> HIDE DEF D, T
  <2> QED BY <2>1, <2>2, FS_Surjection
<1>3. /\ Min(T) \in T /\ Max(T) \in T
      /\ \A t \in T : Min(T) =< t /\ t =< Max(T)
  <2>1. Min(T) \in T /\ \A t \in T : Min(T) =< t
    <3> HIDE DEF T
    <3> QED BY <1>1, <1>2, MinFinite
  <2>2. Max(T) \in T /\ \A t \in T : Max(T) >= t
    <3> HIDE DEF T
    <3> QED BY <1>1, <1>2, MaxFinite
  <2>3. \A t \in T : Max(T) \in Int /\ t \in Int
      BY <1>1, <2>2
  <2> HIDE DEF T
  <2> QED BY <2>1, <2>2, <2>3
<1>4. Min(T) \in Int /\ Max(T) \in Int
  <2> HIDE DEF T
  <2> QED BY <1>1, <1>3
<1>5. b \in Block
  <2>1. D \in SUBSET Sample
      OBVIOUS
  <2> HIDE DEF T, D
  <2> QED BY <1>4, <2>1 DEF Block, Dir
<1>6. Covers(b)
  <2>1. \A s \in D : s.t \in T
      BY DEF Times
  <2> HIDE DEF T, D
  <2> QED BY <1>3, <2>1 DEF Covers
<1>7. \E s \in b.data : s.t = b.mint
  <2>1. PICK s \in D : Min(T) = s.t
      BY <1>3 DEF Times
  <2> HIDE DEF T, D
  <2> QED BY <2>1
<1>8. job' = [job EXCEPT !["flush"] = [pc |-> "createMeta", dirs |-> << >>, seq |-> 0, blk |-> b]]
    BY DEF FlushSnapshot
<1> HIDE DEF b
<1>9. [pc |-> "createMeta", dirs |-> << >>, seq |-> 0, blk |-> b] \in JobRec
    BY <1>5 DEF JobRec, JobPC, WritePC
<1>10. /\ job' \in [Writer -> JobRec]
       /\ job'["flush"].blk = b
       /\ job'["flush"].pc = "createMeta"
       /\ job'["compact"] = job["compact"]
    BY <1>8, <1>9 DEF TypeInv, Writer
<1>11. b.data = D /\ b.dir = <<"b", b.mint>>
  <2> HIDE DEF T, D
  <2> QED BY DEF b
<1> QED BY <1>6, <1>7, <1>10, <1>11

\* compact: the merged block has the times of the blocks it was made from, so
\* that they cover its samples if theirs do.
LEMMA CompactStartType ==
    ASSUME TypeInv, CompactStart
    PROVE  /\ job' \in [Writer -> JobRec]
           /\ job'["compact"].pc = "createMeta"
           /\ job'["flush"] = job["flush"]
           /\ LET b == job'["compact"].blk
              IN  /\ b.data \in MergeResults(blocks)
                  /\ b.data \subseteq UNION {x.data : x \in Elems(blocks)}
                  /\ b.dir = <<"c", blocks[1].mint>>
                  /\ (\A x \in Elems(blocks) : Covers(x)) => Covers(b)
           /\ job'["compact"].dirs = [i \in DOMAIN blocks |-> blocks[i].dir]
<1> DEFINE Mins == {x.mint : x \in Elems(blocks)}
           Maxs == {x.maxt : x \in Elems(blocks)}
<1>1. blocks \in Seq(Block) /\ Len(blocks) \in Nat /\ Len(blocks) >= 2 /\ DOMAIN blocks = 1 .. Len(blocks)
    BY DEF TypeInv, CompactStart
<1>2. IsFiniteSet(Elems(blocks)) /\ Elems(blocks) \subseteq Block /\ Elems(blocks) # {}
    BY <1>1, FiniteElems DEF Elems
<1>3. /\ Min(Mins) \in Mins /\ \A t \in Mins : Min(Mins) =< t
      /\ Mins \subseteq Int
  <2>1. Mins \subseteq Int /\ Mins # {}
      BY <1>2 DEF Block
  <2>2. [x \in Elems(blocks) |-> x.mint] \in Surjection(Elems(blocks), Mins)
      BY DEF Surjection
  <2> HIDE DEF Mins
  <2>3. IsFiniteSet(Mins)
      BY <1>2, <2>2, FS_Surjection
  <2> QED BY <2>1, <2>3, MinFinite
<1>4. /\ Max(Maxs) \in Maxs /\ \A t \in Maxs : Max(Maxs) >= t
      /\ Maxs \subseteq Int
  <2>1. Maxs \subseteq Int /\ Maxs # {}
      BY <1>2 DEF Block
  <2>2. [x \in Elems(blocks) |-> x.maxt] \in Surjection(Elems(blocks), Maxs)
      BY DEF Surjection
  <2> HIDE DEF Maxs
  <2>3. IsFiniteSet(Maxs)
      BY <1>2, <2>2, FS_Surjection
  <2> QED BY <2>1, <2>3, MaxFinite
<1>5. PICK data \in MergeResults(blocks) :
         job' = [job EXCEPT !["compact"] =
             [pc |-> "createMeta", seq |-> 0,
              dirs |-> [i \in DOMAIN blocks |-> blocks[i].dir],
              blk |-> [dir |-> <<"c", blocks[1].mint>>, mint |-> Min(Mins),
                       maxt |-> Max(Maxs), data |-> data]]]
    BY DEF CompactStart
<1>6. data \subseteq UNION {x.data : x \in Elems(blocks)}
  <2>1. data \subseteq UNION {blocks[i].data : i \in DOMAIN blocks}
      BY DEF MergeResults
  <2> QED BY <1>1, <2>1 DEF Elems
<1>7. data \in SUBSET Sample
    BY <1>2, <1>6 DEF Block
<1> DEFINE b == [dir |-> <<"c", blocks[1].mint>>, mint |-> Min(Mins), maxt |-> Max(Maxs), data |-> data]
<1>8. b \in Block
  <2>1. blocks[1].mint \in Int
    <3>1. blocks[1] \in Block
        BY <1>1
    <3> QED BY <3>1 DEF Block
  <2>2. Min(Mins) \in Int /\ Max(Maxs) \in Int
    <3> HIDE DEF Mins, Maxs
    <3> QED BY <1>3, <1>4
  <2> HIDE DEF Mins, Maxs
  <2> QED BY <1>7, <2>1, <2>2 DEF Block, Dir
<1>9. ASSUME \A x \in Elems(blocks) : Covers(x) PROVE Covers(b)
  <2> SUFFICES ASSUME NEW s \in data PROVE Min(Mins) =< s.t /\ s.t =< Max(Maxs)
    <3> HIDE DEF Mins, Maxs
    <3> QED BY DEF Covers
  <2>1. PICK x \in Elems(blocks) : s \in x.data
      BY <1>6
  <2>2. x.mint \in Mins /\ x.maxt \in Maxs
      OBVIOUS
  <2>3. x.mint =< s.t /\ s.t =< x.maxt
      BY <1>9, <2>1 DEF Covers
  <2>4. s.t \in Int
      BY <1>7, FSStoreAssumption
  <2>5. Min(Mins) =< x.mint /\ Max(Maxs) >= x.maxt
    <3> HIDE DEF Mins, Maxs
    <3> QED BY <1>3, <1>4, <2>2
  <2>6. Min(Mins) \in Int /\ Max(Maxs) \in Int /\ x.mint \in Int /\ x.maxt \in Int
    <3> HIDE DEF Mins, Maxs
    <3> QED BY <1>3, <1>4, <2>2
  <2> HIDE DEF Mins, Maxs
  <2> QED BY <2>3, <2>4, <2>5, <2>6
<1> DEFINE dirs == [i \in DOMAIN blocks |-> blocks[i].dir]
<1>10. dirs \in Seq(Dir)
  <2>1. ASSUME NEW i \in 1 .. Len(blocks) PROVE blocks[i].dir \in Dir
    <3>1. blocks[i] \in Block
        BY <1>1
    <3> QED BY <3>1 DEF Block
  <2>2. dirs \in [1 .. Len(blocks) -> Dir]
      BY <1>1, <2>1
  <2> HIDE DEF dirs
  <2> QED BY <1>1, <2>2
<1>11. [pc |-> "createMeta", seq |-> 0, dirs |-> dirs, blk |-> b] \in JobRec
  <2> HIDE DEF dirs, b
  <2> QED BY <1>8, <1>10 DEF JobRec, JobPC, WritePC
<1>12. job' = [job EXCEPT !["compact"] = [pc |-> "createMeta", seq |-> 0, dirs |-> dirs, blk |-> b]]
  <2> HIDE DEF Mins, Maxs
  <2> QED BY <1>5
<1>13. b.data = data /\ b.dir = <<"c", blocks[1].mint>>
  <2> HIDE DEF Mins, Maxs
  <2> QED OBVIOUS
<1>14. /\ job' \in [Writer -> JobRec]
       /\ job'["compact"] = [pc |-> "createMeta", seq |-> 0, dirs |-> dirs, blk |-> b]
       /\ job'["flush"] = job["flush"]
  <2> HIDE DEF dirs, b
  <2> QED BY <1>11, <1>12 DEF TypeInv, Writer
<1> HIDE DEF b, Mins, Maxs
<1> QED BY <1>5, <1>6, <1>9, <1>13, <1>14

\* The retention loop keeps the order of the blocks it leaves.
LEMMA InOrderFacts ==
    ASSUME NEW S, NEW bs \in Seq(S), NEW I \in SUBSET (1 .. Len(bs)), NEW kept \in InOrder(bs, I)
    PROVE  /\ kept \in Seq(S)
           /\ Elems(kept) = {bs[i] : i \in I}
           /\ \E at \in [1 .. Len(kept) -> I] :
                 /\ \A j \in 1 .. Len(kept) : kept[j] = bs[at[j]]
                 /\ \A i, j \in 1 .. Len(kept) : i < j => at[i] < at[j]
<1> DEFINE n == Cardinality(I)
<1>1. IsFiniteSet(I) /\ n \in Nat
  <2>1. IsFiniteSet(1 .. Len(bs))
      BY FS_Interval
  <2>2. IsFiniteSet(I)
      BY <2>1, FS_Subset
  <2> QED BY <2>2, FS_CardinalityType
<1>2. PICK at \in [1 .. n -> I] :
         /\ \A i, j \in 1 .. n : i < j => at[i] < at[j]
         /\ kept = [j \in 1 .. n |-> bs[at[j]]]
    BY DEF InOrder
<1> HIDE DEF n
<1>3. \A i \in I : bs[i] \in S
    OBVIOUS
<1>4. kept \in Seq(S) /\ Len(kept) = n
  <2>1. \A j \in 1 .. n : bs[at[j]] \in S
      BY <1>3
  <2>2. kept \in [1 .. n -> S]
      BY <1>2, <2>1
  <2> QED BY <1>1, <2>2
<1>5. at \in Injection(1 .. n, I)
  <2> SUFFICES ASSUME NEW i \in 1 .. n, NEW j \in 1 .. n, at[i] = at[j] PROVE i = j
      BY DEF Injection, IsInjective
  <2>1. at[i] \in I /\ at[j] \in I
      OBVIOUS
  <2>2. at[i] \in Int /\ at[j] \in Int
    <3>1. \A x \in I : x \in 1 .. Len(bs)
        OBVIOUS
    <3>2. at[i] \in 1 .. Len(bs) /\ at[j] \in 1 .. Len(bs)
        BY <2>1, <3>1
    <3> QED BY <3>2
  <2> QED BY <1>1, <1>2, <2>2
<1>6. Cardinality(1 .. n) = n
    BY <1>1, FS_Interval
<1>7. at \in Surjection(1 .. n, I)
    BY <1>1, <1>5, <1>6, FS_Injection DEF n
<1>8. Elems(kept) = {bs[i] : i \in I}
  <2>1. \A i \in I : \E j \in 1 .. n : at[j] = i
      BY <1>7 DEF Surjection
  <2> QED BY <1>2, <1>4, <2>1 DEF Elems
<1> QED BY <1>2, <1>4, <1>8

LEMMA ApplyRetentionType ==
    ASSUME TypeInv, ApplyRetention
    PROVE  /\ blocks' \in Seq(Block)
           /\ Elems(blocks') \subseteq Elems(blocks)
           /\ DiskOK'
           /\ job' \in [Writer -> JobRec]
           /\ job'["flush"] = job["flush"]
           /\ job'["compact"] = IdleJobs["compact"]
<1>1. PICK kept \in InOrder(blocks, {i \in DOMAIN blocks : ~ Expired(blocks[i])}) :
         \E k \in 0 .. Len(kept) :
            /\ blocks' = SubSeq(kept, k + 1, Len(kept))
            /\ \E dirs : RemoveAll(dirs)
    BY DEF ApplyRetention
<1>2. PICK k \in 0 .. Len(kept) : blocks' = SubSeq(kept, k + 1, Len(kept))
    BY <1>1
<1>3. blocks \in Seq(Block) /\ {i \in DOMAIN blocks : ~ Expired(blocks[i])} \in SUBSET (1 .. Len(blocks))
    BY DEF TypeInv
<1>4. kept \in Seq(Block) /\ Elems(kept) \subseteq Elems(blocks)
    BY <1>3, InOrderFacts DEF Elems
<1>5. blocks' \in Seq(Block) /\ \A j \in 1 .. Len(blocks') : j + k \in 1 .. Len(kept) /\ blocks'[j] = kept[j + k]
    BY <1>2, <1>4
<1>6. Elems(blocks') \subseteq Elems(kept)
    BY <1>5 DEF Elems
<1>7. DiskOK'
    BY <1>1, RemoveAllOK DEF TypeInv
<1>8. /\ job' \in [Writer -> JobRec]
      /\ job'["flush"] = job["flush"]
      /\ job'["compact"] = IdleJobs["compact"]
    BY IdleJobsType DEF TypeInv, ApplyRetention, Writer
<1> QED BY <1>4, <1>5, <1>6, <1>7, <1>8

LEMMA CommitTypeInv ==
    ASSUME TypeInv, NEW c \in Caller, Commit(c)
    PROVE  TypeInv'
<1>0. log[c] \in LogCall /\ log[c].recs \in Seq(Sample)
    BY DEF TypeInv, LogOK, WALTypeOK, LogCall
<1>1. IsFiniteSet(Elems(log[c].recs)) /\ Elems(log[c].recs) \subseteq Sample
    BY <1>0, FiniteElems
<1>2. CASE CommitStart(c)
  <2>1. PICK b \in Batch : LogStart(c, b)
      BY <1>2 DEF CommitStart
  <2>2. b \in Seq(Sample)
      BY FSStoreAssumption
  <2>3. WALTypeOK' /\ files' = files
      BY <2>1, <2>2, LogStartType DEF TypeInv, LogOK, LogStart
  <2>4. LogOK'
      BY <2>3 DEF TypeInv, LogOK
  <2>5. PlainOK'
      BY <1>2 DEF CommitStart, TypeInv, PlainOK
  <2> QED BY <1>2, <2>4, <2>5 DEF CommitStart, TypeInv, DiskOK, HeadOK, blockVars
<1>3. CASE CommitLog(c)
  <2>1. LogOK'
      BY <1>3, LogStepOK DEF CommitLog, TypeInv
  <2> QED BY <1>3, <2>1 DEF CommitLog, TypeInv, DiskOK, HeadOK, PlainOK, blockVars, storeVars
<1>4. ASSUME LogDone(c) PROVE LogOK'
  <2>1. WALTypeOK' /\ files' = files
      BY <1>4, LogDoneType DEF TypeInv, LogOK, LogDone
  <2> QED BY <2>1 DEF TypeInv, LogOK
<1>5. CASE CommitMem(c)
  <2>1. LogOK'
      BY <1>4, <1>5 DEF CommitMem
  <2>2. IsFiniteSet(mem')
      BY <1>1, <1>5, FS_Union DEF CommitMem, TypeInv, HeadOK
  <2>3. HeadOK'
      BY <1>1, <1>5, <2>2 DEF CommitMem, TypeInv, HeadOK
  <2> QED BY <1>5, <2>1, <2>3 DEF CommitMem, TypeInv, DiskOK, PlainOK, blockVars
<1>6. CASE CommitErr(c)
  <2>1. LogOK'
      BY <1>4, <1>6 DEF CommitErr
  <2> QED BY <1>6, <2>1 DEF CommitErr, TypeInv, DiskOK, HeadOK, PlainOK, blockVars
<1> QED BY <1>2, <1>3, <1>5, <1>6 DEF Commit

LEMMA FlushTypeInv == TypeInv /\ FlushHead => TypeInv'
<1> SUFFICES ASSUME TypeInv, FlushHead PROVE TypeInv'
    OBVIOUS
<1>0. ASSUME walVars' = walVars PROVE LogOK'
    BY <1>0 DEF TypeInv, LogOK, WALTypeOK, walVars
<1>1. CASE FlushSnapshot
  <2>1. job' \in [Writer -> JobRec]
      BY <1>1, FlushSnapshotType
  <2> QED BY <1>0, <1>1, <2>1 DEF FlushSnapshot, TypeInv, DiskOK, HeadOK, PlainOK, storeVars
<1>2. CASE FlushWrite
  <2>1. DiskOK' /\ job' \in [Writer -> JobRec]
      BY <1>2, WriteBlockType DEF FlushWrite, TypeInv, Writer
  <2> QED BY <1>0, <1>2, <2>1 DEF FlushWrite, TypeInv, HeadOK, PlainOK, storeVars
<1>3. CASE FlushPublish
  <2>1. job["flush"].blk \in Block
      BY DEF TypeInv, JobRec, Writer
  <2>2. blocks' \in Seq(Block)
      BY <1>3, <2>1 DEF FlushPublish, TypeInv
  <2>3. job' \in [Writer -> JobRec]
      BY <1>3 DEF FlushPublish, TypeInv, JobRec, JobPC
  <2> QED BY <1>0, <1>3, <2>2, <2>3 DEF FlushPublish, TypeInv, DiskOK, HeadOK, PlainOK
<1>4. CASE FlushClear
  <2>1. job' \in [Writer -> JobRec]
      BY <1>4 DEF FlushClear, TypeInv, JobRec, JobPC
  <2>2. HeadOK'
      BY <1>4, FS_EmptySet DEF FlushClear, TypeInv, HeadOK
  <2> QED BY <1>0, <1>4, <2>1, <2>2 DEF FlushClear, TypeInv, DiskOK, PlainOK
<1>5. CASE FlushSeq
  <2>1. segmentSeq \in Nat
      BY DEF TypeInv, LogOK, WALTypeOK
  <2>2. job' \in [Writer -> JobRec]
      BY <1>5, <2>1 DEF FlushSeq, TypeInv, JobRec, JobPC
  <2> QED BY <1>0, <1>5, <2>2 DEF FlushSeq, TypeInv, DiskOK, HeadOK, PlainOK, storeVars
<1>6. CASE FlushTruncate
  <2>1. WALTypeOK'
      BY <1>6, TruncateType DEF FlushTruncate, TypeInv, LogOK
  <2>2. DOMAIN files' \subseteq DOMAIN files
      BY <1>6 DEF FlushTruncate, Truncate
  <2>3. LogOK'
      BY <2>1, <2>2, FS_Subset DEF TypeInv, LogOK
  <2>4. job' \in [Writer -> JobRec]
      BY <1>6, IdleJobsType DEF FlushTruncate, TypeInv, Writer
  <2> QED BY <1>6, <2>3, <2>4 DEF FlushTruncate, TypeInv, DiskOK, HeadOK, PlainOK, storeVars
<1> QED BY <1>1, <1>2, <1>3, <1>4, <1>5, <1>6 DEF FlushHead

LEMMA CompactionTypeInv == TypeInv /\ compactionLoop => TypeInv'
<1> SUFFICES ASSUME TypeInv, compactionLoop PROVE TypeInv'
    OBVIOUS
<1>0. LogOK' /\ HeadOK' /\ PlainOK'
  <2>1. /\ walVars' = walVars /\ mem' = mem /\ acked' = acked /\ phase' = phase
        /\ rd' = rd /\ now' = now /\ commits' = commits
      BY DEF compactionLoop, compact, CompactNothing, CompactStart, CompactWrite,
             CompactFailed, CompactRemove, CompactPublish, ApplyRetention, CompactExit,
             storeVars
  <2> QED BY <2>1 DEF TypeInv, LogOK, WALTypeOK, walVars, HeadOK, PlainOK
<1>1. CASE CompactNothing \/ CompactFailed \/ CompactExit
  <2>1. job' \in [Writer -> JobRec]
      BY <1>1 DEF CompactNothing, CompactFailed, CompactExit, TypeInv, JobRec, JobPC
  <2>2. disk' = disk /\ blocks' = blocks
      BY <1>1 DEF CompactNothing, CompactFailed, CompactExit, storeVars
  <2> QED BY <1>0, <2>1, <2>2 DEF TypeInv, DiskOK
<1>2. CASE CompactStart
  <2>1. job' \in [Writer -> JobRec]
      BY <1>2, CompactStartType
  <2> QED BY <1>0, <1>2, <2>1 DEF CompactStart, TypeInv, DiskOK, storeVars
<1>3. CASE CompactWrite
  <2>1. DiskOK' /\ job' \in [Writer -> JobRec]
      BY <1>3, WriteBlockType DEF CompactWrite, TypeInv, Writer
  <2> QED BY <1>0, <1>3, <2>1 DEF CompactWrite, TypeInv, storeVars
<1>4. CASE CompactRemove
  <2>1. DiskOK'
      BY <1>4, RemoveAllOK DEF CompactRemove, TypeInv
  <2>2. job["compact"].dirs \in Seq(Dir) /\ job["compact"].dirs # << >>
      BY <1>4 DEF CompactRemove, TypeInv, JobRec, Writer
  <2>3. Tail(job["compact"].dirs) \in Seq(Dir)
      BY <2>2
  <2>4. job' \in [Writer -> JobRec]
      BY <1>4, <2>3 DEF CompactRemove, TypeInv, JobRec, Writer
  <2> QED BY <1>0, <1>4, <2>1, <2>4 DEF CompactRemove, TypeInv, storeVars
<1>5. CASE CompactPublish
  <2>1. job["compact"].blk \in Block
      BY DEF TypeInv, JobRec, Writer
  <2>2. blocks' \in Seq(Block)
      BY <1>5, <2>1 DEF CompactPublish
  <2>3. job' \in [Writer -> JobRec]
      BY <1>5 DEF CompactPublish, TypeInv, JobRec, JobPC
  <2> QED BY <1>0, <1>5, <2>2, <2>3 DEF CompactPublish, TypeInv, DiskOK
<1>6. CASE ApplyRetention
    BY <1>0, <1>6, ApplyRetentionType DEF TypeInv
<1> QED BY <1>1, <1>2, <1>3, <1>4, <1>5, <1>6 DEF compactionLoop, compact

LEMMA NextTypeInv == TypeInv /\ [Next]_vars => TypeInv'
<1> SUFFICES ASSUME TypeInv, [Next]_vars PROVE TypeInv'
    OBVIOUS
<1>0. ASSUME walVars' = walVars PROVE LogOK'
    BY <1>0 DEF TypeInv, LogOK, WALTypeOK, walVars
<1>1. CASE NewFSStore
  <2>1. WALTypeOK'
      BY <1>1, NewWALType DEF NewFSStore, TypeInv, LogOK
  <2>2. LogOK'
      BY <1>1, <2>1, NewWALFinite DEF NewFSStore, TypeInv, LogOK
  <2>3. mem' \subseteq Sample \cup {Garbage} /\ IsFiniteSet(mem')
      BY <1>1, ReplayResultsFinite DEF NewFSStore, TypeInv
  <2>4. blocks' \in Seq(Block)
      BY <1>1, openBlocksFacts DEF NewFSStore, TypeInv
  <2>5. HeadOK' /\ PlainOK'
      BY <1>1, <2>3 DEF NewFSStore, TypeInv, HeadOK, PlainOK
  <2> QED BY <1>1, <2>2, <2>4, <2>5 DEF NewFSStore, TypeInv, DiskOK, blockVars
<1>1a. CASE NewFSStoreErr
  <2>1. LogOK'
      BY <1>1a, NewWALErrType, NewWALFinite DEF NewFSStoreErr, TypeInv, LogOK
  <2> QED BY <1>1a, <2>1 DEF NewFSStoreErr, TypeInv, DiskOK, HeadOK, PlainOK, blockVars, storeVars
<1>2. CASE Close
    BY <1>0, <1>2 DEF Close, TypeInv, DiskOK, HeadOK, PlainOK, blockVars
<1>3. CASE CloseWAL
  <2>1. WALTypeOK' /\ files' = files
      BY <1>3, WALCloseType DEF CloseWAL, TypeInv, LogOK, WALClose
  <2>2. LogOK'
      BY <2>1 DEF TypeInv, LogOK
  <2> QED BY <1>3, <2>2 DEF CloseWAL, TypeInv, DiskOK, HeadOK, PlainOK, blockVars
<1>4. CASE Crash
  <2>1. WALTypeOK' /\ files' = files
      BY <1>4, WALCrashType DEF Crash, TypeInv, LogOK, WALCrash
  <2>2. LogOK'
      BY <2>1 DEF TypeInv, LogOK
  <2>3. HeadOK' /\ PlainOK' /\ blocks' \in Seq(Block)
      BY <1>4, FS_EmptySet DEF Crash, TypeInv, HeadOK, PlainOK, NoRead
  <2> QED BY <1>4, <2>2, <2>3, IdleJobsType DEF Crash, TypeInv, DiskOK
<1>5. CASE Tick
    BY <1>0, <1>5 DEF Tick, TypeInv, DiskOK, HeadOK, PlainOK, blockVars
<1>6. CASE \E c \in Caller : Commit(c)
    BY <1>6, CommitTypeInv
<1>7. CASE Select \/ LabelNames
  <2>1. rd'.pc \in {"idle", "mem"} /\ rd'.op \in {"none", "select", "labels"}
      BY <1>7 DEF Select, LabelNames, ReadMem, ReadBlocks, NoRead
  <2>2. /\ walVars' = walVars /\ blockVars' = blockVars /\ mem' = mem /\ blocks' = blocks
        /\ phase' = phase /\ now' = now /\ commits' = commits /\ acked' = acked
      BY <1>7 DEF Select, LabelNames, ReadMem, ReadBlocks
  <2> QED BY <1>0, <2>1, <2>2 DEF TypeInv, DiskOK, HeadOK, PlainOK, blockVars
<1>8. CASE compactionLoop
    BY <1>8, CompactionTypeInv
<1>9. CASE FlushHead
    BY <1>9, FlushTypeInv
<1>10. CASE UNCHANGED vars
    BY <1>0, <1>10 DEF vars, storeVars, TypeInv, DiskOK, HeadOK, PlainOK, blockVars
<1> QED BY <1>1, <1>1a, <1>2, <1>3, <1>4, <1>5, <1>6, <1>7, <1>8, <1>9, <1>10
        DEF Next, ServerStep

\* Types are kept by the store with all its operations, torn writes, failing
\* writes, crashes, flushes and compactions included: in particular every
\* block that is written or opened has times, and FlushHead finds them
\* because a head is finite.
THEOREM TypeCorrect == Spec => []TypeOK
<1>1. Init => TypeInv
    BY InitTypeInv
<1>2. TypeInv /\ [Next]_vars => TypeInv'
    BY NextTypeInv
<1> QED BY <1>1, <1>2, TypeInvImplies, PTL DEF Spec

\* The server takes only steps of the store, so its types are right as well.
THEOREM ServerTypeCorrect == ServerSpec => []TypeOK
<1>1. Init => TypeInv
    BY InitTypeInv
<1>2. TypeInv /\ [ServerNext]_vars => TypeInv'
    BY NextTypeInv DEF ServerNext, Next
<1> QED BY <1>1, <1>2, TypeInvImplies, PTL DEF ServerSpec

-----------------------------------------------------------------------------
(* The server without torn writes *)

\* The disk either stores a record or refuses it: Write tears none.  With
\* torn records the theorems below do not hold.
WholeWrites == ~ Tearing

(***************************************************************************)
(* The inductive invariant.  That acknowledged samples are in the log does *)
(* not follow from itself: it needs that a call of Log which has returned  *)
(* nil has written its whole batch (in WALSafe), which needs that the      *)
(* segment it appends to is on disk, which needs w.mu around rotate.       *)
(***************************************************************************)
ServerInv ==
    /\ WALTypeOK
    /\ WALSafe
    /\ acked \subseteq Replayed
    /\ phase # "down" => acked \subseteq mem

LEMMA InitServerInv == Init => ServerInv
<1> SUFFICES ASSUME Init PROVE ServerInv
    OBVIOUS
<1>1. DOMAIN files = {} /\ DOMAIN synced = {}
    BY DEF Init, WALInit
<1>2. WALTypeOK
    BY <1>1 DEF Init, WALInit, WALTypeOK, LogCall, NoCall
<1>3. WALSafe
    BY <1>1 DEF Init, WALInit, WALSafe, NoTears, NoTearsIn, OpenOnDisk, RotateState,
                LogProgress, InLog, NoCall
<1> QED BY <1>2, <1>3 DEF Init, ServerInv

\* Commit: the four steps of fsAppender.Commit keep the invariant.
LEMMA CommitServerInv ==
    ASSUME FSStoreAssumption, WholeWrites, ServerInv, NEW c \in Caller, Commit(c)
    PROVE  ServerInv'
<1>1. CASE CommitStart(c)
  <2>1. PICK b \in Batch : LogStart(c, b)
      BY <1>1 DEF CommitStart
  <2>2. b \in Seq(Sample)
      BY DEF FSStoreAssumption
  <2>3. WALTypeOK' /\ WALSafe' /\ Replayed' = Replayed
      BY <2>1, <2>2, LogStartType, LogStartSafe DEF ServerInv
  <2> QED BY <1>1, <2>3 DEF CommitStart, ServerInv
<1>2. CASE CommitLog(c)
  <2>1. WALTypeOK' /\ WALSafe' /\ Replayed \subseteq Replayed'
      BY <1>2, LogStepType, LogStepSafe DEF CommitLog, ServerInv, WholeWrites
  <2> QED BY <1>2, <2>1 DEF CommitLog, ServerInv, storeVars
<1>3. CASE CommitMem(c)
  <2>1. WALTypeOK' /\ WALSafe' /\ Replayed' = Replayed
      BY <1>3, LogDoneType, LogDoneSafe DEF CommitMem, ServerInv
  <2>2. Elems(log[c].recs) \subseteq Replayed
      BY <1>3 DEF CommitMem, ServerInv, WALSafe, LogProgress, Elems
  <2> QED BY <1>3, <2>1, <2>2 DEF CommitMem, ServerInv
<1>4. CASE CommitErr(c)
  <2>1. WALTypeOK' /\ WALSafe' /\ Replayed' = Replayed
      BY <1>4, LogDoneType, LogDoneSafe DEF CommitErr, ServerInv
  <2> QED BY <1>4, <2>1 DEF CommitErr, ServerInv
<1> QED BY <1>1, <1>2, <1>3, <1>4 DEF Commit

LEMMA SameLogServerInv ==
    ASSUME ServerInv, walVars' = walVars, acked' = acked, mem' = mem,
           phase' # "down" => phase # "down"
    PROVE  ServerInv'
<1>1. WALTypeOK'
    BY DEF ServerInv, WALTypeOK, walVars
<1>2. files' = files /\ segment' = segment /\ segmentSeq' = segmentSeq /\ log' = log
    BY DEF walVars
<1>3. NoTears' /\ Replayed' = Replayed
    BY <1>2, SameFiles DEF ServerInv, WALSafe
<1>4. OpenOnDisk' /\ RotateState'
    BY <1>2 DEF ServerInv, WALSafe, OpenOnDisk, RotateState, InLog
<1>5. LogProgress'
    BY <1>2, <1>3 DEF ServerInv, WALSafe, LogProgress
<1> QED BY <1>1, <1>3, <1>4, <1>5 DEF ServerInv, WALSafe

LEMMA CompactionServerInv ==
    ASSUME ServerInv, compactionLoop
    PROVE  ServerInv'
<1>1. walVars' = walVars /\ acked' = acked /\ mem' = mem /\ phase' = phase
    BY DEF compactionLoop, compact, CompactNothing, CompactStart, CompactWrite,
           CompactFailed, CompactRemove, CompactPublish, ApplyRetention, CompactExit,
           storeVars
<1> QED BY <1>1, SameLogServerInv

LEMMA NextServerInv ==
    ASSUME FSStoreAssumption, WholeWrites, ServerInv, [ServerNext]_vars
    PROVE  ServerInv'
<1>1. CASE NewFSStore
  <2>1. WALTypeOK' /\ WALSafe' /\ Replayed \subseteq Replayed'
      BY <1>1, NewWALType, NewWALSafe DEF NewFSStore, ServerInv
  <2>2. Replayed \subseteq mem'
      BY <1>1 DEF NewFSStore, ReplayResults
  <2> QED BY <1>1, <2>1, <2>2 DEF NewFSStore, ServerInv
<1>1a. CASE NewFSStoreErr
  <2>1. WALTypeOK' /\ WALSafe' /\ Replayed \subseteq Replayed'
      BY <1>1a, NewWALErrType, NewWALErrSafe DEF NewFSStoreErr, ServerInv
  <2> QED BY <1>1a, <2>1 DEF NewFSStoreErr, ServerInv, storeVars
<1>2. CASE Close
    BY <1>2, SameLogServerInv DEF Close
<1>3. CASE CloseWAL
  <2>1. WALTypeOK' /\ WALSafe' /\ Replayed' = Replayed
      BY <1>3, WALCloseType, WALCloseSafe DEF CloseWAL, ServerInv
  <2> QED BY <1>3, <2>1 DEF CloseWAL, ServerInv
<1>4. CASE Crash
  <2>1. WALTypeOK' /\ WALSafe' /\ Replayed' = Replayed
      BY <1>4, WALCrashType, WALCrashSafe DEF Crash, ServerInv
  <2> QED BY <1>4, <2>1 DEF Crash, ServerInv
<1>5. CASE Tick
    BY <1>5, SameLogServerInv DEF Tick
<1>6. CASE \E c \in Caller : Commit(c)
    BY <1>6, CommitServerInv
<1>7. CASE Select
    BY <1>7, SameLogServerInv DEF Select, ReadMem, ReadBlocks
<1>8. CASE LabelNames
    BY <1>8, SameLogServerInv DEF LabelNames, ReadMem, ReadBlocks
<1>9. CASE compactionLoop
    BY <1>9, CompactionServerInv
<1>10. CASE UNCHANGED vars
    BY <1>10, SameLogServerInv DEF vars, storeVars
<1> QED BY <1>1, <1>1a, <1>2, <1>3, <1>4, <1>5, <1>6, <1>7, <1>8, <1>9, <1>10
        DEF ServerNext, ServerStep

LEMMA ServerInvHolds == ASSUME WholeWrites PROVE ServerSpec => []ServerInv
<1>1. Init => ServerInv
    BY InitServerInv
<1>2. ServerInv /\ [ServerNext]_vars => ServerInv'
    BY NextServerInv, FSStoreAssumption
<1> QED BY <1>1, <1>2, PTL DEF ServerSpec

-----------------------------------------------------------------------------

\* The server loses no acknowledged sample in a crash, whatever Commit, Close
\* or the compaction loop were doing, for any number of handlers, batches,
\* failed writes, failed rotations, crashes and restarts (fsAppender.Commit
\* returns nil only after WAL.Log has written the whole batch).
THEOREM ServerKeepsAcked == ASSUME WholeWrites PROVE ServerSpec => []AckedDurable
<1>1. ServerInv => AckedDurable
  <2> SUFFICES ASSUME ServerInv PROVE AckedDurable
      OBVIOUS
  <2>1. ~ ReplayMayFail
      BY NoTearsNoError DEF ServerInv, WALSafe
  <2> QED BY <2>1 DEF ServerInv, AckedDurable, Durable
<1> QED BY <1>1, ServerInvHolds, PTL

\* While the server runs, every acknowledged sample can be queried, also after
\* restarts: NewFSStore puts all that the log holds back into the head.
THEOREM ServerShowsAcked == ASSUME WholeWrites PROVE ServerSpec => []AckedVisible
<1>1. ServerInv => AckedVisible
    BY DEF ServerInv, AckedVisible, Visible
<1> QED BY <1>1, ServerInvHolds, PTL

-----------------------------------------------------------------------------
(***************************************************************************)
(* The server implements MetricStore.  Beyond ServerInv the refinement     *)
(* needs that the server, which never flushes, has no block on disk or in  *)
(* memory: then Durable is what the log replays to and Visible is the      *)
(* head; and that nothing runs while the process is down.                  *)
(***************************************************************************)
NoBlocksInv ==
    /\ DOMAIN disk = {}
    /\ blocks = << >>
    /\ job["compact"].pc \in {"idle", "wait", "retain"}
    /\ phase = "down" => /\ segment = "none"
                         /\ mem = {}
                         /\ \A c \in Caller : log[c].pc = "idle"

RefineInv == TypeInv /\ ServerInv /\ NoBlocksInv

\* Where there is no block, the log is what is durable and the head is what
\* is visible.
LEMMA NoBlocksView ==
    /\ DOMAIN disk = {} => Durable = Replayed
    /\ DOMAIN disk' = {} => Durable' = Replayed'
    /\ blocks = << >> => Visible = mem
    /\ blocks' = << >> => Visible' = mem'
BY DEF Durable, Visible, OpenableBlocks, Elems

\* Opening a segment adds nothing to what the log replays to.
LEMMA OpenFileReplay ==
    ASSUME WALTypeOK, NEW seq \in Nat, OpenFile(seq) \/ OpenAndSync(seq)
    PROVE  Replayed' = Replayed
<1>1. /\ DOMAIN files' = DOMAIN files \cup {seq}
      /\ \A s \in DOMAIN files : files'[s] = files[s]
      /\ seq \notin DOMAIN files => files'[seq] = << >>
    BY OpenedFileType
<1>2. ReplayedSegment(<< >>) = {}
    BY DEF ReplayedSegment, WholePrefix
<1>3. \A s \in DOMAIN files : ReplayedSegment(files'[s]) = ReplayedSegment(files[s])
    BY <1>1
<1>4. Replayed' = UNION {ReplayedSegment(files'[s]) : s \in DOMAIN files'}
    BY DEF Replayed, ReplayedSegment, WholePrefix
<1>5. Replayed = UNION {ReplayedSegment(files[s]) : s \in DOMAIN files}
    BY DEF Replayed
<1> QED BY <1>1, <1>2, <1>3, <1>4, <1>5

\* The record that Log writes next is one of its batch.
LEMMA LogNextIn ==
    ASSUME WALTypeOK, NEW c \in Caller, LogPending(c)
    PROVE  LogNext(c) \in Elems(log[c].recs)
<1>1. log[c].recs \in Seq(Sample) /\ log[c].n \in Nat /\ log[c].n < Len(log[c].recs)
    BY DEF WALTypeOK, LogCall, LogPending
<1>2. log[c].n + 1 \in 1 .. Len(log[c].recs)
    BY <1>1
<1> QED BY <1>2 DEF LogNext, Elems

\* A step of Log makes at most one record durable, of the batch being logged.
LEMMA LogStepReplay ==
    ASSUME WALTypeOK, WALSafe, ~ Tearing, NEW c \in Caller, LogStep(c)
    PROVE  \/ Replayed' = Replayed
           \/ /\ segment = "open"
              /\ \E r \in Sample \cap Elems(log[c].recs) : Replayed' = Replayed \cup {r}
<1>1. CASE LogWrite(c)
  <2> DEFINE r == LogNext(c)
  <2>1. r \in Sample /\ segmentSeq \in DOMAIN files /\ segment = "open"
      BY <1>1, LogNextType DEF LogWrite, WALSafe, OpenOnDisk
  <2>2. files[segmentSeq] \in Seq(Chunk) /\ Len(files[segmentSeq]) \in Nat
      BY <2>1 DEF WALTypeOK
  <2>3. /\ DOMAIN files' = DOMAIN files
        /\ \A s \in DOMAIN files : s # segmentSeq => files'[s] = files[s]
        /\ files'[segmentSeq] = Append(files[segmentSeq], Whole(r))
      BY <1>1, <2>1 DEF LogWrite
  <2>4. /\ Len(files'[segmentSeq]) = Len(files[segmentSeq]) + 1
        /\ \A i \in 1 .. Len(files[segmentSeq]) : files'[segmentSeq][i] = files[segmentSeq][i]
        /\ files'[segmentSeq][Len(files[segmentSeq]) + 1].rec = r
      BY <2>1, <2>2, <2>3 DEF Whole, Chunk
  <2>5. NoTearsIn(files) /\ NoTearsIn(files')
      BY <1>1, LogWriteSafe DEF WALSafe, NoTears
  <2>6. ASSUME NEW x PROVE x \in Replayed' <=> x \in Replayed \/ x = r
    <3>1. x \in Replayed <=> \E s \in DOMAIN files : \E i \in 1 .. Len(files[s]) : files[s][i].rec = x
        BY <2>5, ReplayedWithoutTears DEF Replayed
    <3>2. x \in UNION {ReplayedSegment(files'[s]) : s \in DOMAIN files'}
             <=> \E s \in DOMAIN files' : \E i \in 1 .. Len(files'[s]) : files'[s][i].rec = x
        BY <2>5, ReplayedWithoutTears
    <3>3. Replayed' = UNION {ReplayedSegment(files'[s]) : s \in DOMAIN files'}
        BY DEF Replayed, ReplayedSegment, WholePrefix
    <3>4. ASSUME NEW s \in DOMAIN files, NEW i \in 1 .. Len(files'[s]), files'[s][i].rec = x
          PROVE  x = r \/ \E j \in 1 .. Len(files[s]) : files[s][j].rec = x
      <4>1. CASE s # segmentSeq
          BY <2>3, <3>4, <4>1
      <4>2. CASE s = segmentSeq
          BY <2>2, <2>4, <3>4, <4>2
      <4> QED BY <4>1, <4>2
    <3>5. ASSUME NEW s \in DOMAIN files, NEW i \in 1 .. Len(files[s]), files[s][i].rec = x
          PROVE  \E j \in 1 .. Len(files'[s]) : files'[s][j].rec = x
      <4>1. CASE s # segmentSeq
          BY <2>3, <3>5, <4>1
      <4>2. CASE s = segmentSeq
          BY <2>2, <2>4, <3>5, <4>2
      <4> QED BY <4>1, <4>2
    <3>6. Len(files[segmentSeq]) + 1 \in 1 .. Len(files'[segmentSeq])
        BY <2>2, <2>4
    <3> HIDE DEF r
    <3> QED BY <2>1, <2>3, <2>4, <3>1, <3>2, <3>3, <3>4, <3>5, <3>6
  <2>7. Replayed' = Replayed \cup {r}
    <3> HIDE DEF r
    <3> QED BY <2>6
  <2>8. r \in Elems(log[c].recs)
      BY <1>1, LogNextIn DEF LogWrite
  <2> QED BY <2>1, <2>7, <2>8
<1>2. CASE RotateOpen(c)
  <2>1. segmentSeq + 1 \in Nat
      BY DEF WALTypeOK
  <2> QED BY <1>2, <2>1, OpenFileReplay DEF RotateOpen, OpenSegment
<1>3. CASE LogWriteErr(c) \/ LogReturn(c) \/ RotateSync(c) \/ RotateSyncErr(c) \/ RotateOpenErr(c)
  <2>1. files' = files
      BY <1>3 DEF LogWriteErr, LogReturn, RotateSync, RotateSyncErr, RotateOpenErr
  <2> QED BY <2>1, SameFiles
<1> QED BY <1>1, <1>2, <1>3 DEF LogStep, LogWriteTorn

LEMMA InitNoBlocks == Init => NoBlocksInv
BY DEF Init, NoBlocksInv, WALInit, NoCall, IdleJobs, Writer

LEMMA NextNoBlocks ==
    ASSUME RefineInv, [ServerNext]_vars
    PROVE  NoBlocksInv'
<1> USE DEF RefineInv
<1>1. CASE NewFSStore
  <2>1. OpenableBlocks = {}
      BY DEF NoBlocksInv, OpenableBlocks
  <2>2. PICK bs \in [1 .. Cardinality(OpenableBlocks) -> OpenableBlocks] : blocks' = bs
      BY <1>1 DEF NewFSStore
  <2>3. Cardinality(OpenableBlocks) = 0
      BY <2>1, FS_EmptySet
  <2>4. blocks' = << >>
      BY <2>1, <2>2, <2>3
  <2> QED BY <1>1, <2>4 DEF NewFSStore, NoBlocksInv, blockVars
<1>1a. CASE NewFSStoreErr
    BY <1>1a DEF NewFSStoreErr, NewWALErr, NoBlocksInv, blockVars, storeVars
<1>2. CASE Close \/ CloseWAL \/ Tick \/ Select \/ LabelNames
  <2>1. /\ blockVars' = blockVars /\ blocks' = blocks /\ mem' = mem
        /\ phase' = "down" => phase = "down" /\ walVars' = walVars
      BY <1>2 DEF Close, CloseWAL, Tick, Select, LabelNames, ReadMem, ReadBlocks
  <2> QED BY <2>1 DEF NoBlocksInv, blockVars, walVars
<1>3. CASE Crash
    BY <1>3 DEF Crash, WALCrash, NoBlocksInv, NoCall, IdleJobs, Writer
<1>4. CASE \E c \in Caller : Commit(c)
  <2>1. PICK c \in Caller : Commit(c)
      BY <1>4
  <2>2. phase # "down"
    <3>1. ASSUME segment = "none" PROVE \A d \in Caller : ~ InLog(d)
        BY <3>1 DEF ServerInv, WALSafe, RotateState, InLog
    <3> QED BY <2>1, <3>1 DEF NoBlocksInv, Commit, CommitStart, CommitLog, CommitMem, CommitErr,
                       LogStart, LogStep, LogWrite, LogWriteErr, LogWriteTorn, LogReturn,
                       RotateSync, RotateSyncErr, RotateOpen, RotateOpenErr, LogPending
  <2>3. blockVars' = blockVars /\ blocks' = blocks /\ phase' = phase
      BY <2>1 DEF Commit, CommitStart, CommitLog, CommitMem, CommitErr, storeVars
  <2> QED BY <2>2, <2>3 DEF NoBlocksInv, blockVars
<1>5. CASE compactionLoop
  <2>0. job["compact"] \in JobRec /\ Len(blocks) = 0
      BY DEF TypeInv, Writer, NoBlocksInv
  <2>1. walVars' = walVars /\ mem' = mem /\ phase' = phase
      BY <1>5 DEF compactionLoop, compact, CompactNothing, CompactStart, CompactWrite,
             CompactFailed, CompactRemove, CompactPublish, ApplyRetention, CompactExit,
             storeVars
  <2>2. CASE CompactNothing \/ CompactExit
    <3>1. disk' = disk /\ blocks' = blocks
        BY <2>2 DEF CompactNothing, CompactExit, storeVars
    <3>2. job'["compact"].pc \in {"idle", "retain"}
        BY <2>2 DEF CompactNothing, CompactExit, TypeInv, JobRec, Writer
    <3> QED BY <2>1, <3>1, <3>2 DEF NoBlocksInv, walVars
  <2>3. CASE ApplyRetention
    <3>1. /\ blocks' \in Seq(Block) /\ Elems(blocks') \subseteq Elems(blocks)
          /\ job'["compact"] = IdleJobs["compact"]
        BY <2>3, ApplyRetentionType
    <3>2. Elems(blocks) = {}
        BY <2>0 DEF Elems
    <3>3. blocks' = << >>
      <4>1. 1 \notin 1 .. Len(blocks')
          BY <3>1, <3>2 DEF Elems
      <4>2. Len(blocks') = 0
          BY <3>1, <4>1
      <4> QED BY <3>1, <4>2
    <3>4. DOMAIN disk' = {}
        BY <2>3, RemoveAllOK DEF ApplyRetention, NoBlocksInv, TypeInv
    <3>5. job'["compact"].pc \in {"idle", "wait"}
        BY <3>1 DEF IdleJobs, Writer
    <3> QED BY <2>1, <3>3, <3>4, <3>5 DEF NoBlocksInv, walVars
  <2>4. ~ CompactStart /\ ~ CompactFailed /\ ~ CompactRemove /\ ~ CompactPublish
      BY <2>0 DEF CompactStart, CompactFailed, CompactRemove, CompactPublish, NoBlocksInv
  <2>5. ~ CompactWrite
      BY DEF CompactWrite, writeBlock, CreateMeta, EncodeMeta, CreateData, EncodeData,
             WriteFails, WriteStep, WritePC, NoBlocksInv
  <2> QED BY <1>5, <2>2, <2>3, <2>4, <2>5 DEF compactionLoop, compact
<1>6. CASE UNCHANGED vars
    BY <1>6 DEF vars, walVars, blockVars, storeVars, NoBlocksInv
<1> QED BY <1>1, <1>1a, <1>2, <1>3, <1>4, <1>5, <1>6 DEF ServerNext, ServerStep

LEMMA RefineInvHolds == ASSUME WholeWrites PROVE ServerSpec => []RefineInv
<1>1. Init => RefineInv
    BY InitTypeInv, InitServerInv, InitNoBlocks DEF RefineInv
<1>2. RefineInv /\ [ServerNext]_vars => RefineInv'
  <2>1. TypeInv /\ [ServerNext]_vars => TypeInv'
      BY NextTypeInv DEF ServerNext, Next
  <2>2. ServerInv /\ [ServerNext]_vars => ServerInv'
      BY NextServerInv, FSStoreAssumption
  <2>3. RefineInv /\ [ServerNext]_vars => NoBlocksInv'
      BY NextNoBlocks
  <2> QED BY <2>1, <2>2, <2>3 DEF RefineInv
<1> QED BY <1>1, <1>2, PTL DEF ServerSpec

\* Every step of the server is a step of the abstract store or leaves it as
\* it is.
LEMMA StepRefines ==
    ASSUME WholeWrites, RefineInv, RefineInv', [ServerNext]_vars
    PROVE  [Abstract!Next]_(Abstract!vars)
<1> USE DEF RefineInv
<1>1. /\ Durable = Replayed /\ Durable' = Replayed'
      /\ Visible = mem /\ Visible' = mem'
    BY NoBlocksView DEF NoBlocksInv
<1>2. ASSUME Replayed' = Replayed, mem' = mem, acked' = acked,
             (phase' # "down") <=> (phase # "down")
      PROVE  UNCHANGED Abstract!vars
    BY <1>1, <1>2 DEF Abstract!vars
<1>3. ASSUME files' = files PROVE Replayed' = Replayed
    BY <1>3, SameFiles
<1>4. CASE NewFSStore
  <2>1. PICK seq \in DOMAIN files \cup {0} : OpenFile(seq)
      BY <1>4 DEF NewFSStore, NewWAL, OpenSegment
  <2>2. Replayed' = Replayed
      BY <2>1, OpenFileReplay DEF ServerInv, WALTypeOK
  <2>3. Misread = {}
      BY NoTearsNoError DEF ServerInv, WALSafe
  <2>4. mem' = Replayed
      BY <1>4, <2>3 DEF NewFSStore, ReplayResults
  <2>5. Abstract!Recover
      BY <1>1, <1>4, <2>2, <2>4 DEF NewFSStore, Abstract!Recover
  <2> QED BY <2>5 DEF Abstract!Next
<1>4a. CASE NewFSStoreErr
  <2>1. PICK seq \in DOMAIN files \cup {0} : OpenFile(seq) \/ OpenAndSync(seq)
      BY <1>4a DEF NewFSStoreErr, NewWALErr
  <2>2. Replayed' = Replayed
      BY <2>1, OpenFileReplay DEF ServerInv, WALTypeOK
  <2> QED BY <1>2, <1>4a, <2>2 DEF NewFSStoreErr, storeVars
<1>5. CASE Close \/ CloseWAL \/ Tick \/ Select \/ LabelNames
  <2>1. /\ files' = files /\ mem' = mem /\ acked' = acked
        /\ (phase' # "down") <=> (phase # "down")
      BY <1>5 DEF Close, CloseWAL, Tick, Select, LabelNames, ReadMem, ReadBlocks, WALClose, walVars
  <2> QED BY <1>2, <1>3, <2>1
<1>6. CASE Crash
  <2>1. Replayed' = Replayed
      BY <1>3, <1>6 DEF Crash, WALCrash
  <2>2. Abstract!Crash
      BY <1>1, <1>6, <2>1 DEF Crash, Abstract!Crash
  <2> QED BY <2>2 DEF Abstract!Next
<1>7. CASE \E c \in Caller : Commit(c)
  <2>1. PICK c \in Caller : Commit(c)
      BY <1>7
  <2>2. CASE CommitStart(c) \/ CommitErr(c)
    <3>1. files' = files /\ mem' = mem /\ acked' = acked /\ phase' = phase
        BY <2>2 DEF CommitStart, CommitErr, LogStart, LogDone
    <3> QED BY <1>2, <1>3, <3>1
  <2>3. CASE CommitLog(c)
    <3>1. mem' = mem /\ acked' = acked /\ phase' = phase
        BY <2>3 DEF CommitLog, storeVars
    <3>2. CASE Replayed' = Replayed
        BY <1>2, <3>1, <3>2
    <3>3. CASE /\ segment = "open"
               /\ \E r \in Sample \cap Elems(log[c].recs) : Replayed' = Replayed \cup {r}
      <4>1. phase # "down"
          BY <3>3 DEF NoBlocksInv
      <4>2. Abstract!Persist
          BY <1>1, <3>1, <3>3, <4>1 DEF Abstract!Persist
      <4> QED BY <4>2 DEF Abstract!Next
    <3> QED BY <2>3, <3>2, <3>3, LogStepReplay DEF CommitLog, ServerInv, WholeWrites
  <2>4. CASE CommitMem(c)
    <3>1. Replayed' = Replayed
        BY <1>3, <2>4 DEF CommitMem, LogDone
    <3>2. Elems(log[c].recs) \in SUBSET Replayed
        BY <2>4 DEF CommitMem, ServerInv, WALSafe, LogProgress, Elems
    <3>3. phase # "down"
        BY <2>4 DEF CommitMem, NoBlocksInv
    <3>4. Abstract!Acknowledge
        BY <1>1, <2>4, <3>1, <3>2, <3>3 DEF CommitMem, Abstract!Acknowledge
    <3> QED BY <3>4 DEF Abstract!Next
  <2> QED BY <2>1, <2>2, <2>3, <2>4 DEF Commit
<1>8. CASE compactionLoop
  <2>1. files' = files /\ mem' = mem /\ acked' = acked /\ phase' = phase
      BY <1>8 DEF compactionLoop, compact, CompactNothing, CompactStart, CompactWrite,
             CompactFailed, CompactRemove, CompactPublish, ApplyRetention, CompactExit,
             storeVars, walVars
  <2> QED BY <1>2, <1>3, <2>1
<1>9. CASE UNCHANGED vars
  <2>1. files' = files /\ mem' = mem /\ acked' = acked /\ phase' = phase
      BY <1>9 DEF vars, walVars, storeVars
  <2> QED BY <1>2, <1>3, <2>1
<1> QED BY <1>4, <1>4a, <1>5, <1>6, <1>7, <1>8, <1>9 DEF ServerNext, ServerStep

\* The server implements the abstract store of module MetricStore: a batch is
\* durable before it is acknowledged, becomes visible as a whole in the step
\* that acknowledges it, no crash loses anything durable, and a restart shows
\* exactly what is durable; with any number of handlers, and with failing
\* writes and rotations.
THEOREM ServerImplementsMetricStore ==
    ASSUME WholeWrites PROVE ServerSpec => ImplementsMetricStore
<1>1. Init => Abstract!Init
  <2> SUFFICES ASSUME Init PROVE Abstract!Init
      OBVIOUS
  <2>1. DOMAIN files = {} /\ DOMAIN disk = {}
      BY DEF Init, WALInit
  <2>2. Durable = {}
      BY <2>1 DEF Durable, Replayed, OpenableBlocks
  <2>3. Visible = {}
      BY NoBlocksView DEF Init
  <2> QED BY <2>2, <2>3 DEF Init, Abstract!Init
<1>2. RefineInv /\ RefineInv' /\ [ServerNext]_vars => [Abstract!Next]_(Abstract!vars)
    BY StepRefines
<1> QED BY <1>1, <1>2, RefineInvHolds, PTL DEF ServerSpec, ImplementsMetricStore, Abstract!Spec

(***************************************************************************)
(* Theorems about the blocks, with whole writes and for any number of      *)
(* batches, blocks, failing writes, crashes and restarts.                  *)
(*                                                                         *)
(* First FlushHead: used with discipline (DisciplinedSpec) it loses no     *)
(* acknowledged sample and hides none from queries.  Then compaction and   *)
(* retention: they keep what they should (FirstCompactionSpec).            *)
(***************************************************************************)

\* cfg.CompactionPeriod = 0: NewFSStore starts no compaction loop.
NoCompaction == CompactionPeriod =< 0

-----------------------------------------------------------------------------
(* The inductive invariant *)

\* A sample is in some data.json, whether or not the block opens.
OnDisk(y) == \E d \in DOMAIN disk : \E x \in disk[d].data : y \in x

\* A sample is in a block that opens.
InOpen(y) == \E b \in OpenableBlocks : y \in b.data

InBlocks(y) == \E b \in Elems(blocks) : y \in b.data

Flushing == job["flush"].pc \notin {"idle", "failed"}

\* A caller that is not in Log and has seen its result has nothing written.
IdleCalls == \A c \in Caller : log[c].pc = "idle" => log[c].n = 0

\* While the process is down nothing is in memory.
DownState ==
    phase = "down" => /\ segment = "none" /\ mem = {} /\ blocks = << >>
                      /\ \A c \in Caller : log[c].pc = "idle"
                      /\ job["flush"].pc = "idle"
                      /\ rd.pc = "idle"

\* The segments follow one another in time, the one that is written is the
\* last, and what is still to be written is later than all there is.
LogInOrder ==
    /\ \A s, r \in DOMAIN files : s < r =>
          \A i \in 1 .. Len(files[s]), j \in 1 .. Len(files[r]) :
             files[s][i].rec.t < files[r][j].rec.t
    /\ segment # "none" => \A s \in DOMAIN files : s =< segmentSeq
    /\ \A c \in Caller : InLog(c) =>
          \A i \in 1 .. Len(log[c].recs) : i > log[c].n =>
             /\ \A y \in Replayed : y.t < log[c].recs[i].t
             /\ \A j \in 1 .. i - 1 : log[c].recs[j].t < log[c].recs[i].t
    /\ \A c \in Caller : log[c].pc # "idle" =>
          \A i \in 1 .. Len(log[c].recs) :
             \A y \in Sample : OnDisk(y) => y.t < log[c].recs[i].t

\* What blocks hold is closed, in time, with what the head and the log hold:
\* nothing in a block that is as late as a sample of the head is missing in
\* the head, and the same for the log.  A block directory is named for a time
\* that is not after its samples, and the times of a block cover them.
DiskInOrder ==
    /\ \A x \in mem, y \in Sample : OnDisk(y) /\ x.t =< y.t => y \in mem
    /\ \A x \in Replayed, y \in Sample : OnDisk(y) /\ x.t =< y.t => y \in Replayed
    /\ \A d \in DOMAIN disk : \A x \in disk[d].data : \A y \in x :
          /\ d[2] =< y.t
          /\ \A m \in disk[d].meta : m.mint =< y.t /\ y.t =< m.maxt

\* Acknowledged samples, and all that ever reached a block, are in the head
\* or in a block that opens, and in the log or in such a block.
Kept ==
    /\ mem \subseteq Replayed
    /\ phase # "down" => \A y \in Sample : y \in acked \/ OnDisk(y) => y \in mem \/ InOpen(y)
    /\ phase = "down" => \A y \in Sample : y \in acked \/ OnDisk(y) => y \in Replayed \/ InOpen(y)

\* The progress of FlushHead.
FlushState ==
    LET F == job["flush"]
        B == F.blk
        writing == {"createMeta", "encodeMeta", "createData", "encodeData"}
    IN  /\ F.pc \in writing \cup {"written", "published"} =>
              /\ B.data = mem
              /\ Covers(B)
              /\ B.dir = <<"b", B.mint>>
              /\ \E s \in B.data : s.t = B.mint
        /\ F.pc \in {"createData", "encodeData"} =>
              /\ B.dir \in DOMAIN disk
              /\ disk[B.dir].meta = {[mint |-> B.mint, maxt |-> B.maxt]}
        /\ F.pc = "encodeData" => disk[B.dir].data = {}
        /\ F.pc \in {"written", "published"} => OpenIn(disk, B)
        /\ F.pc = "published" => B \in Elems(blocks)
        /\ F.pc \in {"cleared", "truncate"} => mem = {}
        /\ F.pc = "truncate" => F.seq =< segmentSeq

Shown ==
    /\ \A b \in Elems(blocks) : Covers(b)
    /\ phase # "down" => \A y \in acked : y \in mem \/ InBlocks(y)

\* A reader has all that was stored all the time, or will find it in a block.
Reading ==
    rd.pc = "mem" =>
       /\ rd.window \in Int \X Int
       /\ \A y \in must : /\ y \in Sample
                          /\ rd.window[1] =< y.t /\ y.t =< rd.window[2]
                          /\ y \in rd.got \/ InBlocks(y)

FlushInv ==
    /\ TypeInv
    /\ WALSafe /\ IdleCalls
    /\ Exclusive
    /\ job["compact"].pc = "idle"
    /\ DownState
    /\ LogInOrder
    /\ DiskInOrder
    /\ Kept
    /\ FlushState
    /\ Shown
    /\ Reading

GrowingStep == Next /\ Exclusive' /\ GrowingTimes /\ LogListed

-----------------------------------------------------------------------------
(* Facts about the predicates the invariant is built from *)

LEMMA SampleTimes == \A y \in Sample : y.t \in Int
BY FSStoreAssumption

LEMMA ReplayedMember ==
    ASSUME NoTears, NEW r
    PROVE  r \in Replayed <=> \E s \in DOMAIN files : \E i \in 1 .. Len(files[s]) : files[s][i].rec = r
BY ReplayedWithoutTears DEF NoTears, Replayed

LEMMA ReplayedMemberNext ==
    ASSUME NoTears', NEW r
    PROVE  r \in Replayed' <=> \E s \in DOMAIN files' : \E i \in 1 .. Len(files'[s]) : files'[s][i].rec = r
<1>1. NoTearsIn(files')
    BY DEF NoTears
<1>2. Replayed' = UNION {ReplayedSegment(files'[s]) : s \in DOMAIN files'}
    BY DEF Replayed, ReplayedSegment, WholePrefix
<1> QED BY <1>1, <1>2, ReplayedWithoutTears

LEMMA ReplayedType == WALTypeOK => Replayed \subseteq Sample
<1> SUFFICES ASSUME WALTypeOK, NEW s \in DOMAIN files, NEW r \in ReplayedSegment(files[s])
             PROVE  r \in Sample
    BY DEF Replayed
<1>1. PICK i \in 1 .. Len(files[s]) : r = files[s][i].rec
    BY DEF ReplayedSegment, WholePrefix
<1>2. files[s] \in Seq(Chunk)
    BY DEF WALTypeOK
<1>3. files[s][i] \in Chunk
    BY <1>2
<1> QED BY <1>1, <1>3 DEF Chunk

\* A sample is in a block that opens if it is in the data.json of a directory
\* that has a meta.json.
InOpenDir(dk, y) == \E d \in DOMAIN dk : dk[d].meta # {} /\ \E x \in dk[d].data : y \in x

LEMMA OpenDirs ==
    ASSUME NEW dk, DiskOKIn(dk), NEW y
    PROVE  (\E b \in OpenBlocksIn(dk) : y \in b.data) <=> InOpenDir(dk, y)
<1>1. ASSUME NEW b \in OpenBlocksIn(dk), y \in b.data PROVE InOpenDir(dk, y)
  <2>1. OpenIn(dk, b)
      BY OpenMember
  <2> QED BY <1>1, <2>1 DEF OpenIn, InOpenDir
<1>2. ASSUME NEW d \in DOMAIN dk, NEW m \in dk[d].meta, NEW x \in dk[d].data, y \in x
      PROVE  \E b \in OpenBlocksIn(dk) : y \in b.data
  <2> DEFINE b == [dir |-> d, mint |-> m.mint, maxt |-> m.maxt, data |-> x]
  <2>1. b \in OpenBlocksIn(dk)
      BY DEF OpenBlocksIn
  <2>2. b.data = x
      OBVIOUS
  <2> HIDE DEF b
  <2> QED BY <1>2, <2>1, <2>2
<1> QED BY <1>1, <1>2 DEF InOpenDir

LEMMA InOpenDirs ==
    /\ DiskOK => \A y : InOpen(y) <=> InOpenDir(disk, y)
    /\ DiskOK' => \A y : InOpen(y)' <=> InOpenDir(disk', y)
<1>1. ASSUME DiskOK, NEW y PROVE InOpen(y) <=> InOpenDir(disk, y)
    BY <1>1, OpenableIn, OpenDirs DEF InOpen
<1>2. ASSUME DiskOK', NEW y PROVE InOpen(y)' <=> InOpenDir(disk', y)
  <2>1. DiskOKIn(disk') /\ OpenableBlocks' = OpenBlocksIn(disk')
      BY <1>2, OpenableIn
  <2>2. InOpen(y)' <=> \E b \in OpenableBlocks' : y \in b.data
      BY DEF InOpen
  <2> QED BY <2>1, <2>2, OpenDirs
<1> QED BY <1>1, <1>2

LEMMA SameDisk ==
    ASSUME disk' = disk
    PROVE  /\ \A y : OnDisk(y)' <=> OnDisk(y)
           /\ \A y : InOpen(y)' <=> InOpen(y)
BY DEF OnDisk, InOpen, OpenableBlocks, openBlock

LEMMA SameBlocks == blocks' = blocks => \A y : InBlocks(y)' <=> InBlocks(y)
BY DEF InBlocks, Elems

LEMMA DurableVisible ==
    \A y : /\ y \in Visible <=> y \in mem \/ InBlocks(y)
           /\ y \in Durable <=> y \in Replayed \/ InOpen(y)
BY DEF Visible, Durable, InBlocks, InOpen

\* The reader's history only shrinks while blocks stay: it keeps Reading.
LEMMA TrackReading ==
    ASSUME Reading, Track, rd' = rd, TypeInv,
           \A y : InBlocks(y) => InBlocks(y)'
    PROVE  Reading'
<1> SUFFICES ASSUME rd.pc = "mem" PROVE Reading'
    BY DEF Reading
<1>1. must' = must \cap Visible'
    BY DEF Track
<1> QED BY <1>1 DEF Reading

\* Or the reader is idle after the step.
LEMMA IdleReading == rd'.pc = "idle" => Reading'
BY DEF Reading

-----------------------------------------------------------------------------
(* The invariant holds initially and is kept by start, stop and crash *)

LEMMA InitFlushInv == ASSUME NoCompaction PROVE Init => FlushInv
<1> SUFFICES ASSUME Init PROVE FlushInv
    OBVIOUS
<1>1. DOMAIN files = {} /\ DOMAIN disk = {}
    BY DEF Init, WALInit
<1>2. TypeInv /\ WALSafe
    BY InitTypeInv, InitServerInv DEF ServerInv
<1>3. \A c \in Caller : log[c].pc = "idle" /\ log[c].n = 0
    BY DEF Init, WALInit, NoCall
<1>4. IdleCalls /\ Exclusive
    BY <1>3 DEF IdleCalls, Exclusive
<1>5. job["compact"].pc = "idle" /\ job["flush"].pc = "idle"
    BY FSStoreAssumption DEF Init, IdleJobs, Writer, NoCompaction
<1>6. DownState
    BY <1>3, <1>5 DEF Init, WALInit, DownState, NoRead
<1>7. LogInOrder
    BY <1>1, <1>3 DEF LogInOrder, InLog, Init, WALInit
<1>8. ~ \E y : OnDisk(y)
    BY <1>1 DEF OnDisk
<1>9. DiskInOrder /\ Kept
    BY <1>1, <1>8 DEF DiskInOrder, Kept, Init
<1>10. FlushState
    BY <1>5 DEF FlushState
<1>11. Shown /\ Reading
    BY DEF Shown, Reading, Init, Elems, NoRead
<1> QED BY <1>2, <1>4, <1>5, <1>6, <1>7, <1>9, <1>10, <1>11 DEF FlushInv

\* Steps that leave the log, the blocks and the head alone.
LEMMA QuietFlushInv ==
    ASSUME FlushInv, TypeInv', Exclusive', WALSafe', Reading',
           files' = files, log' = log, segmentSeq' = segmentSeq,
           segment' = "none" => segment = "none", segment = "none" => segment' = "none",
           blockVars' = blockVars, mem' = mem, blocks' = blocks, acked' = acked,
           phase' = "down" <=> phase = "down",
           phase = "down" => rd'.pc = "idle"
    PROVE  FlushInv'
<1> USE DEF FlushInv
<1>1. Replayed' = Replayed
    BY SameFiles
<1>2. /\ disk' = disk /\ job' = job
      /\ \A y : OnDisk(y)' <=> OnDisk(y)
      /\ \A y : InOpen(y)' <=> InOpen(y)
      /\ \A y : InBlocks(y)' <=> InBlocks(y)
    BY SameDisk, SameBlocks DEF blockVars
<1>3. IdleCalls' /\ DownState'
    BY <1>2 DEF IdleCalls, DownState
<1>4. LogInOrder'
    BY <1>1, <1>2 DEF LogInOrder, InLog
<1>5. DiskInOrder'
    BY <1>1, <1>2 DEF DiskInOrder
<1>6. Kept'
    BY <1>1, <1>2 DEF Kept
<1>7. FlushState'
    BY <1>2 DEF FlushState
<1>8. Shown'
    BY <1>2 DEF Shown
<1> QED BY <1>2, <1>3, <1>4, <1>5, <1>6, <1>7, <1>8

LEMMA SameWALSafe ==
    ASSUME WALSafe, files' = files, log' = log, segment' = segment, segmentSeq' = segmentSeq
    PROVE  WALSafe'
<1>1. NoTears' /\ Replayed' = Replayed
    BY SameFiles DEF WALSafe
<1> QED BY <1>1 DEF WALSafe, OpenOnDisk, RotateState, LogProgress, InLog

\* A read of the head.
LEMMA ReadMemReading ==
    ASSUME NEW op, ReadMem(op), Track
    PROVE  Reading'
<1>1. PICK w \in Window : rd' = [pc |-> "mem", op |-> op, window |-> w, got |-> Within(mem, w)]
    BY DEF ReadMem
<1>2. /\ rd'.pc = "mem" /\ rd'.window = w /\ rd'.got = Within(mem, w) /\ rd.pc = "idle"
      /\ w \in Int \X Int
    BY <1>1, FSStoreAssumption DEF ReadMem
<1>3. must' = Within(Visible, w)
    BY <1>2 DEF Track
<1>4. ASSUME NEW y \in must'
      PROVE  /\ y \in Sample /\ w[1] =< y.t /\ y.t =< w[2]
             /\ y \in Within(mem, w) \/ InBlocks(y)'
  <2>1. y \in Visible /\ y \in Sample /\ w[1] =< y.t /\ y.t =< w[2]
      BY <1>3 DEF Within
  <2>2. y \in mem \/ InBlocks(y)
      BY <2>1, DurableVisible
  <2>3. InBlocks(y) => InBlocks(y)'
      BY SameBlocks DEF ReadMem
  <2> QED BY <2>1, <2>2, <2>3 DEF Within
<1> QED BY <1>2, <1>4 DEF Reading

LEMMA ReaderFlushInv ==
    ASSUME FlushInv, Select \/ LabelNames, Track, TypeInv', Exclusive'
    PROVE  FlushInv'
<1>1. PICK op : ReadMem(op) \/ ReadBlocks(op)
    BY DEF Select, LabelNames
<1>2. /\ walVars' = walVars /\ blockVars' = blockVars /\ mem' = mem /\ blocks' = blocks
      /\ phase' = phase /\ acked' = acked
    BY <1>1 DEF ReadMem, ReadBlocks
<1>3. Reading'
  <2>1. CASE ReadMem(op)
      BY <2>1, ReadMemReading
  <2>2. CASE ReadBlocks(op)
      BY <2>2, IdleReading DEF ReadBlocks, NoRead
  <2> QED BY <1>1, <2>1, <2>2
<1>4. phase = "down" => rd'.pc = "idle"
    BY <1>1 DEF ReadMem, ReadBlocks, NoRead
<1>5. WALSafe'
    BY <1>2, SameWALSafe DEF FlushInv, walVars
<1> QED BY <1>2, <1>3, <1>4, <1>5, QuietFlushInv DEF walVars

LEMMA StopFlushInv ==
    ASSUME FlushInv, Close \/ CloseWAL \/ Tick, Track, TypeInv', Exclusive'
    PROVE  FlushInv'
<1>1. /\ files' = files /\ log' = log /\ segmentSeq' = segmentSeq
      /\ blockVars' = blockVars /\ mem' = mem /\ blocks' = blocks /\ acked' = acked
      /\ rd' = rd
      /\ segment' = "none" <=> segment = "none"
      /\ phase' = "down" <=> phase = "down"
    BY DEF Close, CloseWAL, Tick, WALClose, walVars
<1>2. Reading'
  <2>1. \A y : InBlocks(y) => InBlocks(y)'
      BY <1>1, SameBlocks
  <2> QED BY <1>1, <2>1, TrackReading DEF FlushInv
<1>3. WALSafe'
  <2>1. CASE CloseWAL
      BY <2>1, WALCloseSafe DEF CloseWAL, FlushInv, TypeInv, LogOK
  <2>2. CASE Close \/ Tick
      BY <2>2, SameWALSafe DEF Close, Tick, walVars, FlushInv
  <2> QED BY <2>1, <2>2
<1>4. phase = "down" => rd'.pc = "idle"
    BY <1>1 DEF FlushInv, DownState
<1> QED BY <1>1, <1>2, <1>3, <1>4, QuietFlushInv

LEMMA CrashFlushInv ==
    ASSUME NoCompaction, FlushInv, Crash, TypeInv', Exclusive'
    PROVE  FlushInv'
<1> USE DEF FlushInv
<1>1. WALSafe' /\ Replayed' = Replayed
    BY WALCrashSafe DEF Crash, TypeInv, LogOK
<1>2. \A c \in Caller : log'[c].pc = "idle" /\ log'[c].n = 0
    BY DEF Crash, WALCrash, NoCall
<1>3. job'["compact"].pc = "idle" /\ job'["flush"].pc = "idle"
    BY FSStoreAssumption DEF Crash, IdleJobs, Writer, NoCompaction
<1>4. /\ \A y : OnDisk(y)' <=> OnDisk(y)
      /\ \A y : InOpen(y)' <=> InOpen(y)
    BY SameDisk DEF Crash
<1>5. IdleCalls' /\ DownState'
    BY <1>2, <1>3 DEF IdleCalls, DownState, Crash, WALCrash, NoRead
<1>6. LogInOrder'
    BY <1>2 DEF LogInOrder, InLog, Crash, WALCrash
<1>7. DiskInOrder'
    BY <1>1, <1>4 DEF DiskInOrder, Crash
<1>8. Kept'
    BY <1>1, <1>4 DEF Kept, Crash
<1>9. FlushState'
    BY <1>3 DEF FlushState
<1>10. Shown' /\ Reading'
    BY DEF Shown, Reading, Crash, Elems, NoRead
<1> QED BY <1>1, <1>3, <1>5, <1>6, <1>7, <1>8, <1>9, <1>10

\* NewFSStore: the head is what the log replays to, the blocks are all that
\* open.
LEMMA StartFlushInv ==
    ASSUME FlushInv, NewFSStore, LogListed, TypeInv', Exclusive'
    PROVE  FlushInv'
<1> USE DEF FlushInv
<1>0. WALTypeOK /\ DiskOK /\ phase = "down" /\ phase' = "up"
    BY DEF TypeInv, LogOK, NewFSStore
<1>1. PICK seq \in DOMAIN files \cup {0} :
         OpenFile(seq) /\ segmentSeq' = seq /\ log' = log
    BY DEF NewFSStore, NewWAL, OpenSegment
<1>2. seq \in Nat
    BY <1>0 DEF WALTypeOK
<1>3. WALSafe'
    BY <1>0, NewWALSafe DEF NewFSStore
<1>4. Replayed' = Replayed
    BY <1>0, <1>1, <1>2, OpenFileReplay
<1>5. mem' = Replayed
  <2>1. Misread = {}
      BY <1>0, NoTearsNoError DEF WALSafe
  <2> QED BY <2>1 DEF NewFSStore, ReplayResults
<1>6. Elems(blocks') = OpenableBlocks
    BY <1>0, openBlocksFacts DEF NewFSStore
<1>7. /\ \A c \in Caller : log[c].pc = "idle" /\ log'[c] = log[c]
      /\ job' = job /\ disk' = disk /\ job["flush"].pc = "idle" /\ rd' = rd /\ rd.pc = "idle"
      /\ acked' = acked
    BY <1>0, <1>1 DEF DownState, NewFSStore, blockVars
<1>8. /\ \A y : OnDisk(y)' <=> OnDisk(y)
      /\ \A y : InOpen(y)' <=> InOpen(y)
    BY <1>7, SameDisk
<1>9. \A y : InBlocks(y)' <=> InOpen(y)
    BY <1>6 DEF InBlocks, InOpen
<1>10. IdleCalls' /\ DownState'
    BY <1>0, <1>7 DEF IdleCalls, DownState
<1>11. LogInOrder'
  <2>1. /\ DOMAIN files' = DOMAIN files \cup {seq}
        /\ \A s \in DOMAIN files : files'[s] = files[s]
        /\ seq \notin DOMAIN files => files'[seq] = << >>
        /\ segmentSeq' = seq
      BY <1>0, <1>1, <1>2, OpenFileType
  <2>2. \A s \in DOMAIN files' : s =< segmentSeq'
    <3>1. segment = "none" /\ segment' = "open"
        BY DEF NewFSStore, NewWAL, OpenSegment
    <3> QED BY <1>2, <2>1, <3>1 DEF LogListed
  <2>3. ASSUME NEW s \in DOMAIN files', NEW r \in DOMAIN files', s < r,
               NEW i \in 1 .. Len(files'[s]), NEW j \in 1 .. Len(files'[r])
        PROVE  files'[s][i].rec.t < files'[r][j].rec.t
    <3>1. s \in DOMAIN files /\ r \in DOMAIN files
        BY <2>1
    <3> QED BY <2>1, <2>3, <3>1 DEF LogInOrder
  <2> QED BY <1>7, <2>2, <2>3 DEF LogInOrder, InLog
<1>12. DiskInOrder'
    BY <1>4, <1>5, <1>7, <1>8 DEF DiskInOrder
<1>13. Kept'
    BY <1>0, <1>4, <1>5, <1>7, <1>8 DEF Kept
<1>14. FlushState'
    BY <1>7 DEF FlushState
<1>15. Shown'
  <2>1. ASSUME NEW b \in OpenableBlocks PROVE Covers(b)
    <3>1. OpenIn(disk, b)
        BY <1>0, OpenableIn, OpenMember
    <3>2. [mint |-> b.mint, maxt |-> b.maxt] \in disk[b.dir].meta
        BY <3>1 DEF OpenIn
    <3> QED BY <3>1, <3>2 DEF OpenIn, DiskInOrder, Covers
  <2>2. \A y \in acked : y \in mem' \/ InBlocks(y)'
      BY <1>0, <1>5, <1>9 DEF Kept, TypeInv, HeadOK
  <2> QED BY <1>6, <1>7, <2>1, <2>2 DEF Shown
<1>16. Reading'
    BY <1>7, IdleReading
<1> QED BY <1>3, <1>7, <1>10, <1>11, <1>12, <1>13, <1>14, <1>15, <1>16

\* A start that fails may leave an empty segment.
LEMMA StartErrFlushInv ==
    ASSUME FlushInv, NewFSStoreErr, TypeInv', Exclusive'
    PROVE  FlushInv'
<1> USE DEF FlushInv
<1>0. WALTypeOK /\ phase = "down"
    BY DEF TypeInv, LogOK, NewFSStoreErr
<1>1. PICK seq \in DOMAIN files \cup {0} : OpenFile(seq) \/ OpenAndSync(seq)
    BY DEF NewFSStoreErr, NewWALErr
<1>2. seq \in Nat
    BY <1>0 DEF WALTypeOK
<1>3. WALSafe' /\ Replayed' = Replayed
    BY <1>0, <1>1, <1>2, NewWALErrSafe, OpenFileReplay DEF NewFSStoreErr
<1>4. /\ log' = log /\ segment' = segment /\ segment = "none" /\ phase' = phase /\ rd' = rd
      /\ disk' = disk /\ job' = job /\ mem' = mem /\ blocks' = blocks /\ acked' = acked
    BY DEF NewFSStoreErr, NewWALErr, blockVars, storeVars
<1>5. /\ \A y : OnDisk(y)' <=> OnDisk(y)
      /\ \A y : InOpen(y)' <=> InOpen(y)
      /\ \A y : InBlocks(y)' <=> InBlocks(y)
    BY <1>4, SameDisk, SameBlocks
<1>6. /\ \A c \in Caller : log[c].pc = "idle"
      /\ rd.pc = "idle"
    BY <1>0 DEF DownState
<1>7. IdleCalls' /\ DownState'
    BY <1>0, <1>4, <1>6 DEF IdleCalls, DownState
<1>8. LogInOrder'
  <2>1. /\ DOMAIN files' = DOMAIN files \cup {seq}
        /\ \A s \in DOMAIN files : files'[s] = files[s]
        /\ seq \notin DOMAIN files => files'[seq] = << >>
      BY <1>0, <1>1, <1>2, OpenedFileType
  <2>2. ASSUME NEW s \in DOMAIN files', NEW r \in DOMAIN files', s < r,
               NEW i \in 1 .. Len(files'[s]), NEW j \in 1 .. Len(files'[r])
        PROVE  files'[s][i].rec.t < files'[r][j].rec.t
    <3>1. s \in DOMAIN files /\ r \in DOMAIN files
        BY <2>1
    <3> QED BY <2>1, <2>2, <3>1 DEF LogInOrder
  <2> QED BY <1>4, <1>6, <2>2 DEF LogInOrder, InLog
<1>9. DiskInOrder' /\ Kept'
    BY <1>3, <1>4, <1>5 DEF DiskInOrder, Kept
<1>10. FlushState'
    BY <1>4, <1>0 DEF FlushState, DownState
<1>11. Shown' /\ Reading'
    BY <1>4, <1>5, <1>6, IdleReading DEF Shown
<1> QED BY <1>3, <1>4, <1>7, <1>8, <1>9, <1>10, <1>11

-----------------------------------------------------------------------------
(* Commit *)

\* While a batch is being committed no flush runs, and the process is up.
LEMMA CommitAlone ==
    ASSUME FlushInv, NEW c \in Caller, log[c].pc # "idle"
    PROVE  phase # "down" /\ ~ Flushing
BY DEF FlushInv, Exclusive, Flushing, DownState

LEMMA CommitStartFlushInv ==
    ASSUME FlushInv, NEW c \in Caller, CommitStart(c), Track, TypeInv', Exclusive', GrowingTimes
    PROVE  FlushInv'
<1> USE DEF FlushInv
<1>0. WALTypeOK
    BY DEF TypeInv, LogOK
<1>1. PICK b \in Batch : LogStart(c, b)
    BY DEF CommitStart
<1>2. b \in Seq(Sample)
    BY FSStoreAssumption
<1>3. WALSafe' /\ Replayed' = Replayed
    BY <1>0, <1>1, <1>2, LogStartSafe
<1>4. /\ \A d \in Caller : d # c => log'[d] = log[d]
      /\ log'[c].pc = "writing" /\ log'[c].recs = b /\ log'[c].n = 0
      /\ log[c].pc = "idle"
      /\ \A d \in Caller : ~ InLog(d)
    BY <1>0, <1>1 DEF LogStart, WALTypeOK, MuFree
<1>5. phase # "down" /\ phase' = phase
    BY <1>1 DEF DownState, LogStart, CommitStart
<1>6. /\ files' = files /\ segment' = segment /\ segmentSeq' = segmentSeq
      /\ disk' = disk /\ job' = job /\ blocks' = blocks /\ mem' = mem /\ acked' = acked /\ rd' = rd
    BY <1>1 DEF LogStart, CommitStart, blockVars
<1>7. /\ \A y : OnDisk(y)' <=> OnDisk(y)
      /\ \A y : InOpen(y)' <=> InOpen(y)
      /\ \A y : InBlocks(y)' <=> InBlocks(y)
    BY <1>6, SameDisk, SameBlocks
<1>8. LaterThanAll(b, Durable \cup Visible)
    BY <1>4 DEF GrowingTimes
<1>9. ASSUME NEW i \in 1 .. Len(b)
      PROVE  /\ \A y \in Replayed : y.t < b[i].t
             /\ \A y \in Sample : OnDisk(y) => y.t < b[i].t
             /\ \A j \in 1 .. i - 1 : b[j].t < b[i].t
  <2>1. \A y \in Replayed : y \in Durable
      BY DurableVisible
  <2>2. \A y \in Sample : OnDisk(y) => y \in Durable \cup Visible
      BY <1>5, DurableVisible DEF Kept
  <2> QED BY <1>8, <2>1, <2>2 DEF LaterThanAll
<1>10. LogInOrder'
  <2>1. ASSUME NEW d \in Caller, log'[d].pc \in {"writing", "sync", "open"}
        PROVE  d = c
      BY <1>4, <2>1 DEF InLog
  <2>2. \A d \in Caller : InLog(d)' => d = c
      BY <2>1 DEF InLog
  <2>3. \A d \in Caller : InLog(d)' =>
          \A i \in 1 .. Len(log'[d].recs) : i > log'[d].n =>
             /\ \A y \in Replayed' : y.t < log'[d].recs[i].t
             /\ \A j \in 1 .. i - 1 : log'[d].recs[j].t < log'[d].recs[i].t
      BY <1>3, <1>4, <1>9, <2>2
  <2>4. \A d \in Caller : log'[d].pc # "idle" =>
          \A i \in 1 .. Len(log'[d].recs) :
             \A y \in Sample : OnDisk(y)' => y.t < log'[d].recs[i].t
      BY <1>4, <1>7, <1>9 DEF LogInOrder
  <2> QED BY <1>6, <2>3, <2>4 DEF LogInOrder
<1>11. IdleCalls' /\ DownState'
    BY <1>4, <1>5 DEF IdleCalls, DownState
<1>12. DiskInOrder' /\ Kept'
    BY <1>3, <1>5, <1>6, <1>7 DEF DiskInOrder, Kept
<1>13. FlushState'
    BY <1>6 DEF FlushState
<1>14. Shown'
    BY <1>5, <1>6, <1>7 DEF Shown
<1>15. Reading'
    BY <1>6, <1>7, TrackReading
<1> QED BY <1>3, <1>6, <1>10, <1>11, <1>12, <1>13, <1>14, <1>15

\* A step of Log that writes no record: the files stay, or a segment is added.
LEMMA LogMovesInOrder ==
    ASSUME FlushInv, NEW c \in Caller, LogStep(c), disk' = disk,
           Replayed' = Replayed, ~ LogWrite(c), ~ Tearing
    PROVE  LogInOrder' /\ IdleCalls'
<1> USE DEF FlushInv
<1>0. WALTypeOK /\ segmentSeq \in Nat /\ DOMAIN files \subseteq Nat
    BY DEF TypeInv, LogOK, WALTypeOK
<1>1. /\ \A d \in Caller : d # c => log'[d] = log[d]
      /\ log'[c].recs = log[c].recs /\ log'[c].n = log[c].n /\ log'[c].pc # "idle"
      /\ InLog(c) /\ log[c].pc # "idle"
    BY <1>0 DEF LogStep, LogWriteErr, LogWriteTorn, LogReturn, RotateSync, RotateSyncErr, RotateOpen,
                RotateOpenErr, LogFails, LogPending, InLog, WALTypeOK, LogCall
<1>2. segment # "none"
    BY <1>1 DEF WALSafe, RotateState, InLog
<1>3. /\ \A s \in DOMAIN files' : s =< segmentSeq'
      /\ \A s, r \in DOMAIN files' : s < r =>
            \A i \in 1 .. Len(files'[s]), j \in 1 .. Len(files'[r]) :
               files'[s][i].rec.t < files'[r][j].rec.t
  <2>1. CASE RotateOpen(c)
    <3>1. /\ DOMAIN files' = DOMAIN files \cup {segmentSeq + 1}
          /\ \A s \in DOMAIN files : files'[s] = files[s]
          /\ segmentSeq + 1 \notin DOMAIN files => files'[segmentSeq + 1] = << >>
          /\ segmentSeq' = segmentSeq + 1
      <4>1. segmentSeq + 1 \in Nat /\ OpenFile(segmentSeq + 1)
          BY <1>0, <2>1 DEF RotateOpen, OpenSegment, WALTypeOK
      <4> QED BY <1>0, <2>1, <4>1, OpenFileType DEF RotateOpen, OpenSegment
    <3>2. \A s \in DOMAIN files : s =< segmentSeq
        BY <1>2 DEF LogInOrder
    <3>3. \A s \in DOMAIN files' : s =< segmentSeq'
        BY <1>0, <3>1, <3>2
    <3>4. ASSUME NEW s \in DOMAIN files', NEW r \in DOMAIN files', s < r,
                 NEW i \in 1 .. Len(files'[s]), NEW j \in 1 .. Len(files'[r])
          PROVE  files'[s][i].rec.t < files'[r][j].rec.t
      <4>1. s \in DOMAIN files /\ r \in DOMAIN files
          BY <3>1
      <4> QED BY <3>1, <3>4, <4>1 DEF LogInOrder
    <3> QED BY <3>3, <3>4
  <2>2. CASE ~ RotateOpen(c)
    <3>1. files' = files
        BY <2>2 DEF LogStep, LogWriteErr, LogWriteTorn, LogReturn, RotateSync, RotateSyncErr, RotateOpenErr
    <3>2. segmentSeq' = segmentSeq \/ segmentSeq' = segmentSeq + 1
        BY <2>2 DEF LogStep, LogWriteErr, LogWriteTorn, LogReturn, RotateSync, RotateSyncErr, RotateOpenErr
    <3>3. \A s \in DOMAIN files' : s =< segmentSeq'
        BY <1>0, <1>2, <3>1, <3>2 DEF LogInOrder
    <3> QED BY <3>1, <3>3 DEF LogInOrder
  <2> QED BY <2>1, <2>2
<1>4. \A y : OnDisk(y)' <=> OnDisk(y)
    BY SameDisk
<1>5. \A d \in Caller : InLog(d)' => InLog(d) /\ log'[d].recs = log[d].recs /\ log'[d].n = log[d].n
    BY <1>1 DEF InLog
<1>6. \A d \in Caller : log'[d].pc # "idle" => log[d].pc # "idle" /\ log'[d].recs = log[d].recs
    BY <1>1
<1>7. LogInOrder'
    BY <1>3, <1>4, <1>5, <1>6 DEF LogInOrder
<1>8. IdleCalls'
    BY <1>1 DEF IdleCalls
<1> QED BY <1>7, <1>8

\* A record is written: it is later than all there is.
LEMMA LogWriteInOrder ==
    ASSUME FlushInv, NEW c \in Caller, LogWrite(c), disk' = disk, WALSafe'
    PROVE  /\ LogInOrder' /\ IdleCalls'
           /\ LogNext(c) \in Sample
           /\ \A y \in Replayed' : y \in Replayed \/ y = LogNext(c)
           /\ \A y \in Sample : OnDisk(y) => y.t < LogNext(c).t
<1> USE DEF FlushInv
<1> DEFINE r == LogNext(c)
           f == files[segmentSeq]
           n == log[c].n
<1>0. WALTypeOK /\ segmentSeq \in Nat /\ DOMAIN files \subseteq Nat /\ NoTears /\ NoTears'
    BY DEF TypeInv, LogOK, WALTypeOK, WALSafe
<1>1. segmentSeq \in DOMAIN files /\ f \in Seq(Chunk) /\ segment # "none" /\ segment' = segment
      /\ segmentSeq' = segmentSeq
    BY <1>0 DEF LogWrite, WALSafe, OpenOnDisk, WALTypeOK
<1>2. /\ r \in Sample /\ n \in Nat /\ n < Len(log[c].recs) /\ r = log[c].recs[n + 1]
      /\ log[c].recs \in Seq(Sample) /\ n + 1 \in 1 .. Len(log[c].recs)
  <2>1. log[c] \in LogCall
      BY <1>0 DEF WALTypeOK
  <2>2. r \in Sample
      BY <1>0, LogNextType DEF LogWrite
  <2> QED BY <2>1, <2>2 DEF LogWrite, LogPending, LogNext, LogCall
<1>3. /\ DOMAIN files' = DOMAIN files
      /\ \A s \in DOMAIN files : s # segmentSeq => files'[s] = files[s]
      /\ files'[segmentSeq] = Append(f, Whole(r))
    BY <1>1 DEF LogWrite
<1>4. /\ Len(f) \in Nat /\ Len(files'[segmentSeq]) = Len(f) + 1
      /\ \A i \in 1 .. Len(f) : files'[segmentSeq][i] = f[i]
      /\ files'[segmentSeq][Len(f) + 1].rec = r
  <2> HIDE DEF f, r
  <2> QED BY <1>1, <1>2, <1>3 DEF Whole, Chunk
<1>5. InLog(c) /\ log[c].pc # "idle"
    BY DEF LogWrite, LogPending, InLog
<1>6. /\ \A y \in Replayed : y.t < r.t
      /\ \A y \in Sample : OnDisk(y) => y.t < r.t
      /\ \A i \in 1 .. Len(log[c].recs) : i > n + 1 => r.t < log[c].recs[i].t
  <2>1. n + 1 > n
      BY <1>2
  <2>2. \A i \in 1 .. Len(log[c].recs) : i > n + 1 => i > n /\ n + 1 \in 1 .. i - 1
      BY <1>2
  <2> QED BY <1>2, <1>5, <2>1, <2>2 DEF LogInOrder
<1>7. ASSUME NEW s \in DOMAIN files', NEW i \in 1 .. Len(files'[s])
      PROVE  \/ i \in 1 .. Len(files[s]) /\ files'[s][i] = files[s][i] /\ files'[s][i].rec \in Replayed
             \/ s = segmentSeq /\ files'[s][i].rec = r
  <2>1. CASE i \in 1 .. Len(files[s])
    <3>1. files'[s][i] = files[s][i] /\ s \in DOMAIN files
        BY <1>3, <1>4, <2>1
    <3>2. files[s][i].rec \in Replayed
        BY <1>0, <2>1, <3>1, ReplayedMember
    <3> QED BY <2>1, <3>1, <3>2
  <2>2. CASE i \notin 1 .. Len(files[s])
    <3>1. s = segmentSeq
        BY <1>3, <2>2
    <3>2. i = Len(f) + 1
        BY <1>4, <2>2, <3>1
    <3> QED BY <1>4, <3>1, <3>2
  <2> QED BY <2>1, <2>2
<1>8. \A y \in Replayed' : y \in Replayed \/ y = r
    BY <1>0, <1>7, ReplayedMemberNext
<1>9. ASSUME NEW s \in DOMAIN files', NEW q \in DOMAIN files', s < q,
             NEW i \in 1 .. Len(files'[s]), NEW j \in 1 .. Len(files'[q])
      PROVE  files'[s][i].rec.t < files'[q][j].rec.t
  <2>1. s # segmentSeq
    <3>1. q =< segmentSeq /\ q \in Nat /\ s \in Nat
        BY <1>0, <1>1, <1>3 DEF LogInOrder
    <3> QED BY <1>0, <1>9, <3>1
  <2>2. i \in 1 .. Len(files[s]) /\ files'[s][i] = files[s][i] /\ files'[s][i].rec \in Replayed
      BY <1>7, <2>1
  <2>3. CASE files'[q][j].rec = r
      BY <1>6, <2>2, <2>3
  <2>4. CASE j \in 1 .. Len(files[q]) /\ files'[q][j] = files[q][j]
      BY <1>3, <1>9, <2>2, <2>4 DEF LogInOrder
  <2> QED BY <1>7, <2>3, <2>4
<1>10. /\ \A d \in Caller : d # c => log'[d] = log[d]
       /\ log'[c].recs = log[c].recs /\ log'[c].n = n + 1 /\ log'[c].pc # "idle"
    BY <1>0 DEF LogWrite, WALTypeOK
<1>11. \A d \in Caller : d # c => ~ InLog(d)'
  <2>1. \A d \in Caller : d # c => ~ InLog(d)
      BY <1>5 DEF WALSafe, RotateState
  <2> QED BY <1>10, <2>1 DEF InLog
<1>12. \A y : OnDisk(y)' <=> OnDisk(y)
    BY SameDisk
<1>13. ASSUME NEW i \in 1 .. Len(log[c].recs), i > n + 1
       PROVE  /\ \A y \in Replayed' : y.t < log[c].recs[i].t
              /\ \A j \in 1 .. i - 1 : log[c].recs[j].t < log[c].recs[i].t
  <2>1. i > n
      BY <1>2, <1>13
  <2>2. /\ \A y \in Replayed : y.t < log[c].recs[i].t
        /\ \A j \in 1 .. i - 1 : log[c].recs[j].t < log[c].recs[i].t
      BY <1>5, <2>1 DEF LogInOrder
  <2>3. r.t < log[c].recs[i].t
      BY <1>6, <1>13
  <2> HIDE DEF r
  <2> QED BY <1>8, <2>2, <2>3
<1>14. \A d \in Caller : InLog(d)' =>
          \A i \in 1 .. Len(log'[d].recs) : i > log'[d].n =>
             /\ \A y \in Replayed' : y.t < log'[d].recs[i].t
             /\ \A j \in 1 .. i - 1 : log'[d].recs[j].t < log'[d].recs[i].t
    BY <1>10, <1>11, <1>13
<1>15. \A d \in Caller : log'[d].pc # "idle" =>
          \A i \in 1 .. Len(log'[d].recs) :
             \A y \in Sample : OnDisk(y)' => y.t < log'[d].recs[i].t
    BY <1>5, <1>10, <1>12 DEF LogInOrder
<1>16. \A s \in DOMAIN files' : s =< segmentSeq'
    BY <1>1, <1>3 DEF LogInOrder
<1>17. LogInOrder'
  <2> HIDE DEF r, f, n
  <2> QED BY <1>9, <1>14, <1>15, <1>16 DEF LogInOrder
<1>18. IdleCalls'
    BY <1>10 DEF IdleCalls
<1> QED BY <1>2, <1>6, <1>8, <1>17, <1>18

LEMMA CommitLogFlushInv ==
    ASSUME WholeWrites, FlushInv, NEW c \in Caller, CommitLog(c), Track, TypeInv', Exclusive'
    PROVE  FlushInv'
<1> USE DEF FlushInv
<1>0. WALTypeOK /\ ~ Tearing /\ LogStep(c)
    BY DEF TypeInv, LogOK, WholeWrites, CommitLog
<1>1. WALSafe' /\ Replayed \subseteq Replayed'
    BY <1>0, LogStepSafe
<1>2. /\ disk' = disk /\ job' = job /\ blocks' = blocks /\ mem' = mem /\ acked' = acked
      /\ rd' = rd /\ phase' = phase
    BY DEF CommitLog, blockVars, storeVars
<1>3. log[c].pc # "idle"
    BY <1>0 DEF LogStep, LogWrite, LogWriteErr, LogWriteTorn, LogReturn, RotateSync, RotateSyncErr,
                RotateOpen, RotateOpenErr, LogPending
<1>4. phase # "down" /\ ~ Flushing
    BY <1>3, CommitAlone
<1>5. /\ \A y : OnDisk(y)' <=> OnDisk(y)
      /\ \A y : InOpen(y)' <=> InOpen(y)
      /\ \A y : InBlocks(y)' <=> InBlocks(y)
    BY <1>2, SameDisk, SameBlocks
<1>6. /\ LogInOrder' /\ IdleCalls'
      /\ \A x \in Replayed', y \in Sample : OnDisk(y) /\ x.t =< y.t => y \in Replayed'
  <2>1. CASE LogWrite(c)
    <3>1. /\ LogInOrder' /\ IdleCalls'
          /\ LogNext(c) \in Sample
          /\ \A y \in Replayed' : y \in Replayed \/ y = LogNext(c)
          /\ \A y \in Sample : OnDisk(y) => y.t < LogNext(c).t
        BY <1>1, <1>2, <2>1, LogWriteInOrder
    <3>2. ASSUME NEW x \in Replayed', NEW y \in Sample, OnDisk(y), x.t =< y.t PROVE y \in Replayed'
      <4>1. x # LogNext(c)
          BY <3>1, <3>2, SampleTimes
      <4> QED BY <1>1, <3>1, <3>2, <4>1 DEF DiskInOrder
    <3> QED BY <3>1, <3>2
  <2>2. CASE ~ LogWrite(c)
    <3>1. Replayed' = Replayed
      <4>1. CASE RotateOpen(c)
          BY <1>0, <4>1, OpenFileReplay DEF RotateOpen, OpenSegment, WALTypeOK
      <4>2. CASE ~ RotateOpen(c)
        <5>1. files' = files
            BY <1>0, <2>2, <4>2 DEF LogStep, LogWriteErr, LogWriteTorn, LogReturn, RotateSync,
                                    RotateSyncErr, RotateOpenErr
        <5> QED BY <5>1, SameFiles
      <4> QED BY <4>1, <4>2
    <3>2. LogInOrder' /\ IdleCalls'
        BY <1>0, <1>2, <2>2, <3>1, LogMovesInOrder
    <3> QED BY <3>1, <3>2 DEF DiskInOrder
  <2> QED BY <2>1, <2>2
<1>7. DownState'
    BY <1>2, <1>4 DEF DownState
<1>8. DiskInOrder'
    BY <1>2, <1>5, <1>6 DEF DiskInOrder
<1>9. Kept'
    BY <1>1, <1>2, <1>4, <1>5 DEF Kept
<1>10. FlushState'
    BY <1>2, <1>4 DEF FlushState, Flushing
<1>11. Shown'
    BY <1>2, <1>5 DEF Shown
<1>12. Reading'
    BY <1>2, <1>5, TrackReading
<1> QED BY <1>1, <1>2, <1>6, <1>7, <1>8, <1>9, <1>10, <1>11, <1>12

\* The batch goes to the head.
LEMMA CommitDoneFlushInv ==
    ASSUME FlushInv, NEW c \in Caller, CommitMem(c) \/ CommitErr(c), Track, TypeInv', Exclusive'
    PROVE  FlushInv'
<1> USE DEF FlushInv
<1> DEFINE new == Elems(log[c].recs)
<1>0. WALTypeOK /\ LogDone(c) /\ log[c].pc # "idle"
    BY DEF TypeInv, LogOK, CommitMem, CommitErr
<1>1. WALSafe' /\ Replayed' = Replayed
    BY <1>0, LogDoneSafe
<1>2. /\ disk' = disk /\ job' = job /\ blocks' = blocks /\ rd' = rd /\ phase' = phase
      /\ files' = files /\ segment' = segment /\ segmentSeq' = segmentSeq
    BY DEF CommitMem, CommitErr, LogDone, blockVars
<1>3. \/ mem' = mem /\ acked' = acked
      \/ log[c].pc = "ok" /\ mem' = mem \cup new /\ acked' = acked \cup new
    BY DEF CommitMem, CommitErr
<1>4. phase # "down" /\ ~ Flushing
    BY <1>0, CommitAlone
<1>5. /\ \A y : OnDisk(y)' <=> OnDisk(y)
      /\ \A y : InOpen(y)' <=> InOpen(y)
      /\ \A y : InBlocks(y)' <=> InBlocks(y)
    BY <1>2, SameDisk, SameBlocks
<1>6. \A d \in Caller : log'[d] = IF d = c THEN NoCall ELSE log[d]
    BY <1>0 DEF LogDone, WALTypeOK
<1>7. ASSUME log[c].pc = "ok" PROVE new \subseteq Replayed
    BY <1>7 DEF WALSafe, LogProgress, Elems
<1>8. ASSUME NEW x \in new, NEW y \in Sample, OnDisk(y) PROVE y.t < x.t
    BY <1>0, <1>8 DEF LogInOrder, Elems
<1>9. new \subseteq Sample
  <2>1. log[c].recs \in Seq(Sample)
      BY <1>0 DEF WALTypeOK, LogCall
  <2> QED BY <2>1 DEF Elems
<1>10. IdleCalls' /\ DownState'
    BY <1>2, <1>4, <1>6 DEF IdleCalls, DownState, NoCall
<1>11. LogInOrder'
    BY <1>1, <1>2, <1>5, <1>6 DEF LogInOrder, InLog, NoCall
<1>12. DiskInOrder'
  <2>1. ASSUME NEW x \in mem', NEW y \in Sample, OnDisk(y), x.t =< y.t PROVE y \in mem'
    <3>1. CASE x \in mem
        BY <1>3, <2>1, <3>1 DEF DiskInOrder
    <3>2. CASE x \in new
      <4>1. y.t < x.t /\ x.t \in Int /\ y.t \in Int
          BY <1>8, <1>9, <2>1, <3>2, SampleTimes
      <4> QED BY <2>1, <4>1
    <3> QED BY <1>3, <2>1, <3>1, <3>2
  <2> QED BY <1>1, <1>2, <1>5, <2>1 DEF DiskInOrder
<1>13. Kept'
  <2> HIDE DEF new
  <2> QED BY <1>1, <1>2, <1>3, <1>4, <1>5, <1>7 DEF Kept
<1>14. FlushState'
    BY <1>2, <1>4 DEF FlushState, Flushing
<1>15. Shown'
  <2> HIDE DEF new
  <2> QED BY <1>2, <1>3, <1>4, <1>5 DEF Shown
<1>16. Reading'
    BY <1>2, <1>5, TrackReading
<1> QED BY <1>1, <1>2, <1>10, <1>11, <1>12, <1>13, <1>14, <1>15, <1>16
-----------------------------------------------------------------------------
(* FlushHead *)

LEMMA FlushAlone ==
    ASSUME FlushInv, Flushing
    PROVE  phase # "down" /\ \A c \in Caller : log[c].pc = "idle"
BY DEF FlushInv, Flushing, Exclusive, DownState

\* The steps of FlushHead up to the truncation leave the log alone, and no
\* batch is being committed.
LEMMA FlushStepFlushInv ==
    ASSUME FlushInv, Track, TypeInv', Exclusive',
           walVars' = walVars, phase' = phase, acked' = acked, rd' = rd, phase # "down",
           job'["compact"].pc = job["compact"].pc,
           \A c \in Caller : log[c].pc = "idle",
           \A y : InBlocks(y) => InBlocks(y)',
           DiskInOrder', Kept', FlushState', Shown'
    PROVE  FlushInv'
<1> USE DEF FlushInv
<1>1. /\ files' = files /\ log' = log /\ segment' = segment /\ segmentSeq' = segmentSeq
    BY DEF walVars
<1>2. WALSafe'
    BY <1>1, SameWALSafe
<1>3. IdleCalls' /\ DownState'
    BY <1>1 DEF IdleCalls, DownState
<1>4. LogInOrder'
    BY <1>1 DEF LogInOrder, InLog
<1>5. Reading'
    BY TrackReading
<1> QED BY <1>2, <1>3, <1>4, <1>5

LEMMA FlushSnapshotFlushInv ==
    ASSUME FlushInv, FlushSnapshot, Track, TypeInv', Exclusive'
    PROVE  FlushInv'
<1> USE DEF FlushInv
<1>1. /\ walVars' = walVars /\ phase' = phase /\ acked' = acked /\ rd' = rd /\ phase # "down"
      /\ disk' = disk /\ mem' = mem /\ blocks' = blocks
    BY DEF FlushSnapshot, storeVars
<1>2. /\ LET b == job'["flush"].blk
         IN  /\ b.data = mem \cap Sample
             /\ b.dir = <<"b", b.mint>>
             /\ Covers(b)
             /\ \E s \in b.data : s.t = b.mint
      /\ job'["flush"].pc = "createMeta"
      /\ job'["compact"] = job["compact"]
    BY FlushSnapshotType
<1>3. \A c \in Caller : log[c].pc = "idle"
    BY <1>1, <1>2 DEF Exclusive, walVars
<1>4. /\ \A y : OnDisk(y)' <=> OnDisk(y)
      /\ \A y : InOpen(y)' <=> InOpen(y)
      /\ \A y : InBlocks(y)' <=> InBlocks(y)
    BY <1>1, SameDisk, SameBlocks
<1>5. Replayed' = Replayed
    BY <1>1, SameFiles DEF walVars
<1>6. DiskInOrder' /\ Kept'
    BY <1>1, <1>4, <1>5 DEF DiskInOrder, Kept
<1>7. mem \subseteq Sample
    BY ReplayedType DEF Kept, TypeInv, LogOK
<1>8. FlushState'
  <2>1. job'["flush"].blk.data = mem'
      BY <1>1, <1>2, <1>7
  <2> QED BY <1>2, <2>1 DEF FlushState
<1>9. Shown'
    BY <1>1, <1>4 DEF Shown
<1> QED BY <1>1, <1>2, <1>3, <1>4, <1>6, <1>8, <1>9, FlushStepFlushInv

\* What is in the directory that FlushHead writes to is in the head too: only
\* a flush that failed or was cut short can have left it, and its samples are
\* as late as the first of the head.
LEMMA OverwrittenInHead ==
    ASSUME FlushInv, job["flush"].pc \in {"createMeta", "encodeMeta", "createData", "encodeData"},
           NEW x \in FilesOf(job["flush"].blk.dir).data, NEW y \in x
    PROVE  y \in mem /\ y \in Sample
<1> USE DEF FlushInv
<1> DEFINE B == job["flush"].blk
<1>1. /\ B.data = mem /\ B.dir = <<"b", B.mint>>
      /\ \E s \in B.data : s.t = B.mint
    BY DEF FlushState
<1>2. PICK s \in mem : s.t = B.mint
    BY <1>1
<1>3. B.dir \in DOMAIN disk /\ x \in disk[B.dir].data
    BY DEF FilesOf, NoFiles
<1>4. y \in Sample
    BY <1>3 DEF TypeInv, DiskOK, FileRec
<1>5. OnDisk(y)
    BY <1>3 DEF OnDisk
<1>6. s.t =< y.t
  <2>1. B.dir[2] = s.t
      BY <1>1, <1>2
  <2>2. B.dir[2] =< y.t
      BY <1>3 DEF DiskInOrder
  <2> QED BY <2>1, <2>2
<1> QED BY <1>4, <1>5, <1>6 DEF DiskInOrder

LEMMA FlushWriteStepFlushInv ==
    ASSUME FlushInv, FlushWrite, Track, TypeInv', Exclusive',
           NEW fs, WriteStepOf("flush", fs), SetFiles(job["flush"].blk.dir, fs)
    PROVE  FlushInv'
<1> USE DEF FlushInv
<1> DEFINE B == job["flush"].blk
           F == FilesOf(B.dir)
           M == [mint |-> B.mint, maxt |-> B.maxt]
<1>0. job["flush"].pc \in {"createMeta", "encodeMeta", "createData", "encodeData"}
    BY DEF WriteStepOf
<1>1. phase # "down" /\ \A c \in Caller : log[c].pc = "idle"
    BY <1>0, FlushAlone DEF Flushing
<1>2. /\ walVars' = walVars /\ phase' = phase /\ acked' = acked /\ rd' = rd
      /\ mem' = mem /\ blocks' = blocks
    BY DEF FlushWrite, storeVars
<1>3. /\ B.data = mem /\ Covers(B) /\ B.dir = <<"b", B.mint>>
      /\ \E s \in B.data : s.t = B.mint
    BY <1>0 DEF FlushState
<1>4. /\ fs \in FileRec /\ OneFile(fs) /\ B \in Block /\ B.dir \in Dir
      /\ \A x \in Writer : /\ job'[x].blk = job[x].blk
                           /\ job'[x].dirs = job[x].dirs
                           /\ job'[x].seq = job[x].seq
                           /\ x # "flush" => job'[x].pc = job[x].pc
    BY WriteStepType DEF TypeInv, Writer
<1>5. /\ DOMAIN disk' = DOMAIN disk \cup {B.dir}
      /\ disk'[B.dir] = fs
      /\ \A d \in DOMAIN disk : d # B.dir => disk'[d] = disk[d]
    BY <1>4, SetFilesOK DEF TypeInv
<1>6. F \in FileRec
    BY FilesOfType DEF TypeInv
<1>7. /\ fs.data \in {F.data, {}, {B.data}}
      /\ fs.meta \in {{}, {M}}
  <2>1. CASE job["flush"].pc \in {"createMeta", "encodeMeta"}
    <3>1. fs = [F EXCEPT !.meta = {}] \/ fs = [F EXCEPT !.meta = {M}]
        BY <2>1 DEF WriteStepOf
    <3> HIDE DEF F, M
    <3> QED BY <1>6, <3>1 DEF FileRec
  <2>2. CASE job["flush"].pc \in {"createData", "encodeData"}
    <3>1. fs = [F EXCEPT !.data = {}] \/ fs = [F EXCEPT !.data = {B.data}]
        BY <2>2 DEF WriteStepOf
    <3>2. F.meta = {M}
        BY <2>2 DEF FlushState, FilesOf
    <3> HIDE DEF F, M
    <3> QED BY <1>6, <3>1, <3>2 DEF FileRec
  <2> QED BY <1>0, <2>1, <2>2
<1>8. ASSUME NEW x \in fs.data, NEW y \in x PROVE y \in mem
    BY <1>0, <1>3, <1>7, <1>8, OverwrittenInHead
<1>9. ASSUME NEW y, OnDisk(y)' PROVE OnDisk(y) \/ y \in mem
  <2>1. PICK d \in DOMAIN disk' : \E x \in disk'[d].data : y \in x
      BY <1>9 DEF OnDisk
  <2>2. CASE d = B.dir
      BY <1>5, <1>8, <2>1, <2>2
  <2>3. CASE d # B.dir
      BY <1>5, <2>1, <2>3 DEF OnDisk
  <2> QED BY <2>2, <2>3
<1>10. ASSUME NEW y, InOpen(y) PROVE InOpen(y)' \/ y \in mem
  <2>1. PICK d \in DOMAIN disk : disk[d].meta # {} /\ \E x \in disk[d].data : y \in x
      BY <1>10, InOpenDirs DEF InOpenDir, TypeInv
  <2>2. CASE d = B.dir
      BY <1>0, <2>1, <2>2, OverwrittenInHead DEF FilesOf
  <2>3. CASE d # B.dir
      BY <1>5, <2>1, <2>3, InOpenDirs DEF InOpenDir, TypeInv
  <2> QED BY <2>2, <2>3
<1>11. Replayed' = Replayed
    BY <1>2, SameFiles DEF walVars
<1>12. DiskInOrder'
  <2>1. ASSUME NEW d \in DOMAIN disk', NEW x \in disk'[d].data, NEW y \in x
        PROVE  /\ d[2] =< y.t
               /\ \A m \in disk'[d].meta : m.mint =< y.t /\ y.t =< m.maxt
    <3>1. CASE d = B.dir
      <4>1. y \in B.data
          BY <1>3, <1>5, <1>8, <2>1, <3>1
      <4>2. B.mint =< y.t /\ y.t =< B.maxt
          BY <1>3, <4>1 DEF Covers
      <4>3. d[2] = B.mint
          BY <1>3, <3>1
      <4>4. \A m \in disk'[d].meta : m.mint = B.mint /\ m.maxt = B.maxt
          BY <1>5, <1>7, <3>1
      <4> QED BY <4>2, <4>3, <4>4
    <3>2. CASE d # B.dir
        BY <1>5, <2>1, <3>2 DEF DiskInOrder
    <3> QED BY <3>1, <3>2
  <2> QED BY <1>2, <1>9, <1>11, <2>1 DEF DiskInOrder, Kept
<1>13. Kept'
    BY <1>1, <1>2, <1>9, <1>10, <1>11 DEF Kept
<1>14. FlushState'
  <2>1. job'["flush"].blk = B
      BY <1>4 DEF Writer
  <2>2. job["flush"].pc = "createMeta" => job'["flush"].pc = "encodeMeta"
      BY DEF WriteStepOf, TypeInv, Writer, JobRec
  <2>3. job["flush"].pc = "encodeMeta" => job'["flush"].pc = "createData" /\ fs.meta = {M}
      BY <1>6 DEF WriteStepOf, TypeInv, Writer, JobRec, FileRec
  <2>4. job["flush"].pc = "createData" => job'["flush"].pc = "encodeData" /\ fs.data = {} /\ fs.meta = {M}
    <3>1. ASSUME job["flush"].pc = "createData"
          PROVE  job'["flush"].pc = "encodeData" /\ fs = [F EXCEPT !.data = {}]
        BY <3>1 DEF WriteStepOf, TypeInv, Writer, JobRec
    <3>2. ASSUME fs = [F EXCEPT !.data = {}] PROVE fs.data = {} /\ fs.meta = F.meta
        BY <1>6, <3>2 DEF FileRec
    <3> QED BY <3>1, <3>2 DEF FlushState, FilesOf
  <2>5. job["flush"].pc = "encodeData" => job'["flush"].pc = "written" /\ fs.data = {B.data} /\ fs.meta = {M}
    <3>1. ASSUME job["flush"].pc = "encodeData"
          PROVE  job'["flush"].pc = "written" /\ fs = [F EXCEPT !.data = {B.data}]
        BY <3>1 DEF WriteStepOf, TypeInv, Writer, JobRec
    <3>2. ASSUME fs = [F EXCEPT !.data = {B.data}] PROVE fs.data = {B.data} /\ fs.meta = F.meta
        BY <1>6, <3>2 DEF FileRec
    <3> QED BY <3>1, <3>2 DEF FlushState, FilesOf
  <2>6. job'["flush"].pc = "written" => OpenIn(disk', B)
    <3>1. job'["flush"].pc = "written" => fs.data = {B.data} /\ fs.meta = {M}
        BY <1>0, <2>2, <2>3, <2>4, <2>5
    <3> QED BY <1>4, <1>5, <3>1 DEF OpenIn
  <2> HIDE DEF B, F, M
  <2>7. job'["flush"].pc \in {"encodeMeta", "createData", "encodeData", "written"}
    BY <1>0, <2>2, <2>3, <2>4, <2>5
  <2>8. job'["flush"].pc \in {"createData", "encodeData"} =>
              /\ B.dir \in DOMAIN disk'
              /\ disk'[B.dir].meta = {M}
    BY <1>0, <1>5, <2>2, <2>3, <2>4, <2>5
  <2>9. job'["flush"].pc = "encodeData" => disk'[B.dir].data = {}
    BY <1>0, <1>5, <2>2, <2>3, <2>4, <2>5
  <2> QED BY <1>2, <1>3, <2>1, <2>6, <2>7, <2>8, <2>9 DEF FlushState, M
<1>15. \A y : InBlocks(y)' <=> InBlocks(y)
    BY <1>2, SameBlocks
<1>16. Shown'
    BY <1>2, <1>15 DEF Shown
<1>17. job'["compact"].pc = job["compact"].pc
    BY <1>4 DEF Writer
<1> QED BY <1>1, <1>2, <1>12, <1>13, <1>14, <1>15, <1>16, <1>17, FlushStepFlushInv

LEMMA FlushWriteFlushInv ==
    ASSUME FlushInv, FlushWrite, Track, TypeInv', Exclusive'
    PROVE  FlushInv'
<1> USE DEF FlushInv
<1>1. CASE \E fs : WriteStepOf("flush", fs) /\ SetFiles(job["flush"].blk.dir, fs)
    BY <1>1, FlushWriteStepFlushInv
<1>2. CASE WriteFails("flush")
  <2>1. /\ walVars' = walVars /\ phase' = phase /\ acked' = acked /\ rd' = rd
        /\ mem' = mem /\ blocks' = blocks /\ disk' = disk
      BY <1>2 DEF FlushWrite, storeVars, WriteFails
  <2>2. phase # "down" /\ \A c \in Caller : log[c].pc = "idle"
    <3>1. Flushing
        BY <1>2 DEF WriteFails, WritePC, Flushing
    <3> QED BY <3>1, FlushAlone
  <2>3. job'["flush"].pc = "failed" /\ job'["compact"] = job["compact"]
      BY <1>2 DEF WriteFails, TypeInv, Writer, JobRec
  <2>4. /\ \A y : OnDisk(y)' <=> OnDisk(y)
        /\ \A y : InOpen(y)' <=> InOpen(y)
        /\ \A y : InBlocks(y)' <=> InBlocks(y)
      BY <2>1, SameDisk, SameBlocks
  <2>5. Replayed' = Replayed
      BY <2>1, SameFiles DEF walVars
  <2>6. DiskInOrder' /\ Kept'
      BY <2>1, <2>4, <2>5 DEF DiskInOrder, Kept
  <2>7. FlushState'
      BY <2>3 DEF FlushState
  <2>8. Shown'
      BY <2>1, <2>4 DEF Shown
  <2> QED BY <2>1, <2>2, <2>3, <2>4, <2>6, <2>7, <2>8, FlushStepFlushInv
<1>3. "flush" \in Writer /\ writeBlock("flush")
    BY DEF Writer, FlushWrite
<1> QED BY <1>1, <1>2, <1>3, WriteBlockCases

\* The block is published before the head is cleared.
LEMMA FlushPublishFlushInv ==
    ASSUME FlushInv, FlushPublish, Track, TypeInv', Exclusive'
    PROVE  FlushInv'
<1> USE DEF FlushInv
<1> DEFINE B == job["flush"].blk
<1>1. /\ walVars' = walVars /\ phase' = phase /\ acked' = acked /\ rd' = rd
      /\ mem' = mem /\ disk' = disk /\ blocks' = Append(blocks, B)
      /\ job["flush"].pc = "written"
    BY DEF FlushPublish
<1>2. phase # "down" /\ \A c \in Caller : log[c].pc = "idle"
    BY <1>1, FlushAlone DEF Flushing
<1>3. job'["flush"] = [job["flush"] EXCEPT !.pc = "published"] /\ job'["compact"] = job["compact"]
    BY DEF FlushPublish, TypeInv, Writer
<1>4. job'["flush"].pc = "published" /\ job'["flush"].blk = B /\ B \in Block
    BY <1>3 DEF TypeInv, JobRec, Writer
<1>5. Elems(blocks') = Elems(blocks) \cup {B}
  <2>1. blocks \in Seq(Block) /\ Len(blocks) \in Nat
      BY DEF TypeInv
  <2>2. /\ Len(blocks') = Len(blocks) + 1 /\ blocks'[Len(blocks) + 1] = B
        /\ \A i \in 1 .. Len(blocks) : blocks'[i] = blocks[i]
    <3> HIDE DEF B
    <3> QED BY <1>1, <1>4, <2>1
  <2> HIDE DEF B
  <2> QED BY <2>1, <2>2 DEF Elems
<1>6. /\ \A y : OnDisk(y)' <=> OnDisk(y)
      /\ \A y : InOpen(y)' <=> InOpen(y)
      /\ \A y : InBlocks(y) => InBlocks(y)'
    BY <1>1, <1>5, SameDisk DEF InBlocks
<1>7. Replayed' = Replayed
    BY <1>1, SameFiles DEF walVars
<1>8. DiskInOrder' /\ Kept'
    BY <1>1, <1>6, <1>7 DEF DiskInOrder, Kept
<1>9. FlushState'
    BY <1>1, <1>4, <1>5 DEF FlushState
<1>10. Shown'
  <2>1. Covers(B)
      BY <1>1 DEF FlushState
  <2> QED BY <1>1, <1>5, <1>6, <2>1 DEF Shown
<1> QED BY <1>1, <1>2, <1>3, <1>6, <1>8, <1>9, <1>10, FlushStepFlushInv

\* What the head held is in the block, on disk and in memory.
LEMMA FlushClearFlushInv ==
    ASSUME FlushInv, FlushClear, Track, TypeInv', Exclusive'
    PROVE  FlushInv'
<1> USE DEF FlushInv
<1> DEFINE B == job["flush"].blk
<1>1. /\ walVars' = walVars /\ phase' = phase /\ acked' = acked /\ rd' = rd
      /\ mem' = {} /\ disk' = disk /\ blocks' = blocks
      /\ job["flush"].pc = "published"
    BY DEF FlushClear
<1>2. phase # "down" /\ \A c \in Caller : log[c].pc = "idle"
    BY <1>1, FlushAlone DEF Flushing
<1>3. job'["flush"].pc = "cleared" /\ job'["compact"] = job["compact"]
    BY DEF FlushClear, TypeInv, Writer, JobRec
<1>4. B.data = mem /\ OpenIn(disk, B) /\ B \in Elems(blocks)
    BY <1>1 DEF FlushState
<1>5. \A y \in mem : InOpen(y) /\ InBlocks(y)
  <2>1. B \in OpenableBlocks
      BY <1>4, OpenableIn, OpenMember DEF TypeInv
  <2> QED BY <1>4, <2>1 DEF InOpen, InBlocks
<1>6. /\ \A y : OnDisk(y)' <=> OnDisk(y)
      /\ \A y : InOpen(y)' <=> InOpen(y)
      /\ \A y : InBlocks(y)' <=> InBlocks(y)
    BY <1>1, SameDisk, SameBlocks
<1>7. Replayed' = Replayed
    BY <1>1, SameFiles DEF walVars
<1>8. DiskInOrder'
    BY <1>1, <1>6, <1>7 DEF DiskInOrder
<1>9. Kept'
    BY <1>1, <1>2, <1>5, <1>6, <1>7 DEF Kept
<1>10. FlushState'
    BY <1>1, <1>3 DEF FlushState
<1>11. Shown'
    BY <1>1, <1>5, <1>6 DEF Shown
<1> QED BY <1>1, <1>2, <1>3, <1>6, <1>8, <1>9, <1>10, <1>11, FlushStepFlushInv

LEMMA FlushSeqFlushInv ==
    ASSUME FlushInv, FlushSeq, Track, TypeInv', Exclusive'
    PROVE  FlushInv'
<1> USE DEF FlushInv
<1>1. /\ walVars' = walVars /\ phase' = phase /\ acked' = acked /\ rd' = rd
      /\ mem' = mem /\ disk' = disk /\ blocks' = blocks
      /\ job["flush"].pc = "cleared"
    BY DEF FlushSeq, storeVars
<1>2. phase # "down" /\ \A c \in Caller : log[c].pc = "idle"
    BY <1>1, FlushAlone DEF Flushing
<1>3. /\ job'["flush"].pc = "truncate" /\ job'["flush"].seq = segmentSeq
      /\ job'["compact"] = job["compact"]
    BY DEF FlushSeq, TypeInv, Writer, JobRec
<1>4. /\ \A y : OnDisk(y)' <=> OnDisk(y)
      /\ \A y : InOpen(y)' <=> InOpen(y)
      /\ \A y : InBlocks(y)' <=> InBlocks(y)
    BY <1>1, SameDisk, SameBlocks
<1>5. Replayed' = Replayed
    BY <1>1, SameFiles DEF walVars
<1>6. DiskInOrder' /\ Kept'
    BY <1>1, <1>4, <1>5 DEF DiskInOrder, Kept
<1>7. segmentSeq' = segmentSeq /\ segmentSeq \in Nat
    BY <1>1 DEF walVars, TypeInv, LogOK, WALTypeOK
<1>8. FlushState'
    BY <1>1, <1>3, <1>7 DEF FlushState
<1>9. Shown'
    BY <1>1, <1>4 DEF Shown
<1> QED BY <1>1, <1>2, <1>3, <1>4, <1>6, <1>8, <1>9, FlushStepFlushInv

\* Truncate removes the segments up to some number; later ones stay.
LEMMA TruncateRemoves ==
    ASSUME WALTypeOK, NEW before \in Nat, Truncate(before)
    PROVE  /\ DOMAIN files' \subseteq DOMAIN files
           /\ \A s \in DOMAIN files' : files'[s] = files[s]
           /\ \A s \in DOMAIN files : s >= before => s \in DOMAIN files'
           /\ \A s \in DOMAIN files \ DOMAIN files', r \in DOMAIN files' : s < r
<1> DEFINE old == {s \in DOMAIN files : s < before}
<1>1. PICK gone \in TruncatedSets(before) : files' = [s \in DOMAIN files \ gone |-> files[s]]
    BY DEF Truncate
<1>2. \/ gone = old
      \/ \E k \in old : gone = {s \in old : s < k}
    BY DEF TruncatedSets
<1>3. DOMAIN files' = DOMAIN files \ gone /\ \A s \in DOMAIN files' : files'[s] = files[s]
    BY <1>1
<1>4. DOMAIN files \subseteq Nat
    BY DEF WALTypeOK
<1>5. \A s \in gone : s < before
    BY <1>2
<1>6. ASSUME NEW s \in gone, NEW r \in DOMAIN files \ gone PROVE s < r
  <2>1. CASE gone = old
    <3>1. s \in Nat /\ r \in Nat /\ s < before /\ ~ (r < before)
        BY <1>2, <1>4, <1>6, <2>1
    <3> QED BY <3>1
  <2>2. CASE \E k \in old : gone = {x \in old : x < k}
    <3>1. PICK k \in old : gone = {x \in old : x < k}
        BY <2>2
    <3>2. s \in Nat /\ r \in Nat /\ k \in Nat /\ s < k /\ k < before /\ (r < before => ~ (r < k))
        BY <1>4, <1>6, <3>1
    <3> QED BY <3>2
  <2> QED BY <1>2, <2>1, <2>2
<1>7. \A s \in DOMAIN files : s >= before => s \notin gone
    BY <1>4, <1>5
<1> HIDE DEF old
<1> QED BY <1>3, <1>6, <1>7

\* All that is removed from the log is in a block that opens.
LEMMA FlushTruncateFlushInv ==
    ASSUME FlushInv, FlushTruncate, Track, TypeInv', Exclusive'
    PROVE  FlushInv'
<1> USE DEF FlushInv
<1> DEFINE seq == job["flush"].seq
<1>0. WALTypeOK /\ seq \in Nat /\ segmentSeq \in Nat /\ DOMAIN files \subseteq Nat
    BY DEF TypeInv, LogOK, WALTypeOK, JobRec, Writer
<1>1. /\ phase' = phase /\ acked' = acked /\ rd' = rd
      /\ mem' = mem /\ disk' = disk /\ blocks' = blocks /\ log' = log
      /\ segment' = segment /\ segmentSeq' = segmentSeq
      /\ job["flush"].pc = "truncate" /\ Truncate(seq)
    BY DEF FlushTruncate, storeVars, Truncate
<1>2. phase # "down" /\ \A c \in Caller : log[c].pc = "idle"
    BY <1>1, FlushAlone DEF Flushing
<1>3. job'["flush"].pc = "idle" /\ job'["compact"] = job["compact"]
    BY DEF FlushTruncate, TypeInv, Writer, IdleJobs
<1>4. mem = {} /\ seq =< segmentSeq
    BY <1>1 DEF FlushState
<1>5. /\ DOMAIN files' \subseteq DOMAIN files
      /\ \A s \in DOMAIN files' : files'[s] = files[s]
      /\ \A s \in DOMAIN files : s >= seq => s \in DOMAIN files'
      /\ \A s \in DOMAIN files \ DOMAIN files', r \in DOMAIN files' : s < r
  <2> HIDE DEF seq
  <2> QED BY <1>0, <1>1, TruncateRemoves
<1>6. WALSafe'
  <2>1. NoTears'
      BY <1>5 DEF WALSafe, NoTears, NoTearsIn
  <2>2. OpenOnDisk'
      BY <1>0, <1>1, <1>4, <1>5 DEF WALSafe, OpenOnDisk
  <2>3. RotateState'
      BY <1>1 DEF WALSafe, RotateState, InLog
  <2>4. LogProgress'
      BY <1>1, <1>2 DEF WALSafe, LogProgress, IdleCalls
  <2> QED BY <2>1, <2>2, <2>3, <2>4 DEF WALSafe
<1>7. \A r : r \in Replayed' => r \in Replayed
    BY <1>5, <1>6, ReplayedMember, ReplayedMemberNext DEF WALSafe
<1>8. ASSUME NEW x \in Replayed', NEW y \in Replayed, x.t =< y.t PROVE y \in Replayed'
  <2>1. PICK r \in DOMAIN files' : \E j \in 1 .. Len(files'[r]) : files'[r][j].rec = x
      BY <1>6, ReplayedMemberNext DEF WALSafe
  <2>2. PICK s \in DOMAIN files : \E i \in 1 .. Len(files[s]) : files[s][i].rec = y
      BY ReplayedMember DEF WALSafe
  <2>3. CASE s \in DOMAIN files'
      BY <1>5, <1>6, <2>2, <2>3, ReplayedMemberNext DEF WALSafe
  <2>4. CASE s \notin DOMAIN files'
    <3>1. s < r /\ r \in DOMAIN files /\ files'[r] = files[r]
        BY <1>5, <2>4
    <3>2. y.t < x.t
        BY <2>1, <2>2, <3>1 DEF LogInOrder
    <3>3. x \in Sample /\ y \in Sample
        BY <1>0, <1>7, ReplayedType
    <3> QED BY <1>8, <3>2, <3>3, SampleTimes
  <2> QED BY <2>3, <2>4
<1>9. /\ \A y : OnDisk(y)' <=> OnDisk(y)
      /\ \A y : InOpen(y)' <=> InOpen(y)
      /\ \A y : InBlocks(y)' <=> InBlocks(y)
    BY <1>1, SameDisk, SameBlocks
<1>10. IdleCalls' /\ DownState'
    BY <1>1, <1>2 DEF IdleCalls, DownState
<1>11. LogInOrder'
    BY <1>1, <1>2, <1>5 DEF LogInOrder, InLog
<1>12. DiskInOrder'
    BY <1>1, <1>7, <1>8, <1>9 DEF DiskInOrder
<1>13. Kept'
    BY <1>1, <1>2, <1>4, <1>9 DEF Kept
<1>14. FlushState'
    BY <1>3 DEF FlushState
<1>15. Shown'
    BY <1>1, <1>9 DEF Shown
<1>16. Reading'
    BY <1>1, <1>9, TrackReading
<1> QED BY <1>3, <1>6, <1>10, <1>11, <1>12, <1>13, <1>14, <1>15, <1>16

LEMMA GrowingStepFlushInv ==
    ASSUME WholeWrites, NoCompaction, FlushInv, [GrowingStep]_vars
    PROVE  FlushInv'
<1>1. CASE UNCHANGED vars
  <2>1. /\ walVars' = walVars /\ blockVars' = blockVars /\ storeVars' = storeVars /\ must' = must
      BY <1>1 DEF vars
  <2>2. TypeInv' /\ Exclusive' /\ Reading'
    <3>1. TypeInv'
        BY <1>1, NextTypeInv DEF FlushInv
    <3> QED BY <2>1, <3>1 DEF FlushInv, Exclusive, Reading, InBlocks, Elems, walVars, blockVars, storeVars
  <2>3. WALSafe'
      BY <2>1, SameWALSafe DEF FlushInv, walVars
  <2> QED BY <2>1, <2>2, <2>3, QuietFlushInv DEF walVars, storeVars, FlushInv, DownState
<1>2. CASE GrowingStep
  <2>1. TypeInv' /\ Exclusive' /\ Track /\ GrowingTimes /\ LogListed
      BY <1>2, NextTypeInv DEF FlushInv, GrowingStep, Next
  <2>2. CASE NewFSStore
      BY <2>1, <2>2, StartFlushInv
  <2>2a. CASE NewFSStoreErr
      BY <2>1, <2>2a, StartErrFlushInv
  <2>3. CASE Close \/ CloseWAL \/ Tick
      BY <2>1, <2>3, StopFlushInv
  <2>4. CASE Crash
      BY <2>1, <2>4, CrashFlushInv
  <2>5. ASSUME NEW c \in Caller, Commit(c) PROVE FlushInv'
      BY <2>1, <2>5, CommitStartFlushInv, CommitLogFlushInv, CommitDoneFlushInv DEF Commit
  <2>6. CASE Select \/ LabelNames
      BY <2>1, <2>6, ReaderFlushInv
  <2>7. CASE compactionLoop
    <3>1. job["compact"].pc # "idle"
        BY <2>7 DEF compactionLoop, compact, CompactNothing, CompactStart, CompactWrite, writeBlock,
                    CreateMeta, EncodeMeta, CreateData, EncodeData, WriteStep, WriteFails, WritePC,
                    CompactFailed, CompactRemove, CompactPublish, ApplyRetention, CompactExit
    <3> QED BY <3>1 DEF FlushInv
  <2>8. CASE FlushHead
      BY <2>1, <2>8, FlushSnapshotFlushInv, FlushWriteFlushInv, FlushPublishFlushInv,
         FlushClearFlushInv, FlushSeqFlushInv, FlushTruncateFlushInv DEF FlushHead
  <2> QED BY <1>2, <2>2, <2>2a, <2>3, <2>4, <2>5, <2>6, <2>7, <2>8 DEF GrowingStep, Next, ServerStep
<1> QED BY <1>1, <1>2

-----------------------------------------------------------------------------
(* Theorems about FlushHead *)

LEMMA DisciplinedFlushInv ==
    ASSUME WholeWrites, NoCompaction
    PROVE  DisciplinedSpec => []FlushInv
<1>1. Init => FlushInv
    BY InitFlushInv
<1>2. FlushInv /\ [GrowingStep]_vars => FlushInv'
    BY GrowingStepFlushInv
<1> QED BY <1>1, <1>2, PTL DEF DisciplinedSpec, GrowingStep

LEMMA FlushInvDurable == FlushInv => AckedDurable /\ AckedVisible
<1> SUFFICES ASSUME FlushInv PROVE AckedDurable /\ AckedVisible
    OBVIOUS
<1>1. ~ ReplayMayFail
    BY NoTearsNoError DEF FlushInv, WALSafe, TypeInv, LogOK
<1>2. acked \subseteq Sample
    BY DEF FlushInv, TypeInv, HeadOK
<1>3. acked \subseteq Durable
    BY <1>2, DurableVisible DEF FlushInv, Kept
<1>4. phase # "down" => acked \subseteq Visible
    BY DurableVisible DEF FlushInv, Shown
<1> QED BY <1>1, <1>3, <1>4 DEF AckedDurable, AckedVisible

\* A sample in the window of a reader is in a block that Select reads.
LEMMA OverlapsIfCovered ==
    ASSUME TypeInv, NEW b \in Elems(blocks), NEW y \in b.data, b.mint =< y.t, y.t =< b.maxt,
           rd.window \in Int \X Int, rd.window[1] =< y.t, y.t =< rd.window[2]
    PROVE  /\ y \in Sample
           /\ b \in OverlappingBlocks(rd.window)
<1>1. b \in Block
    BY DEF Elems, TypeInv
<1>2. y \in Sample /\ y.t \in Int /\ b.mint \in Int /\ b.maxt \in Int
    BY <1>1, SampleTimes DEF Block
<1>3. rd.window[1] \in Int /\ rd.window[2] \in Int /\ b.mint =< y.t /\ y.t =< b.maxt
    OBVIOUS
<1> QED BY <1>2, <1>3 DEF OverlappingBlocks, Overlaps

LEMMA ReadingComplete ==
    ASSUME TypeInv, Reading, rd.pc = "mem",
           \A b \in Elems(blocks) : \A y \in b.data \ dropped : b.mint =< y.t /\ y.t =< b.maxt
    PROVE  /\ must \ dropped \subseteq SelectResult
           /\ {s.series : s \in must \ dropped} \subseteq LabelsResult
<1> DEFINE O == OverlappingBlocks(rd.window)
<1>1. ASSUME NEW y \in must \ dropped
      PROVE  \/ y \in rd.got
             \/ \E b \in O : y \in b.data /\ y \in Within(b.data, rd.window)
  <2>1. /\ rd.window \in Int \X Int
        /\ rd.window[1] =< y.t /\ y.t =< rd.window[2]
        /\ y \in rd.got \/ InBlocks(y)
      BY DEF Reading
  <2>2. CASE InBlocks(y)
    <3>1. PICK b \in Elems(blocks) : y \in b.data
        BY <2>2 DEF InBlocks
    <3>2. y \in Sample /\ b \in O
        BY <2>1, <3>1, OverlapsIfCovered
    <3> QED BY <2>1, <3>1, <3>2 DEF Within
  <2> QED BY <2>1, <2>2
<1> HIDE DEF O
<1>2. must \ dropped \subseteq rd.got \cup UNION {Within(b.data, rd.window) : b \in O}
    BY <1>1
<1>3. {s.series : s \in must \ dropped} \subseteq {s.series : s \in rd.got \cup UNION {b.data : b \in O}}
    BY <1>1
<1> QED BY <1>2, <1>3 DEF SelectResult, LabelsResult, O

(***************************************************************************)
(* FlushHead, called while no batch is being committed and with timestamps *)
(* that grow along the log, loses no acknowledged sample as long as every  *)
(* process gets a listing of the log: wherever a crash meets it, whichever *)
(* of its writes fail, and however often it is called again over what it   *)
(* left, a restart succeeds and finds every sample in the log or in a      *)
(* block that opens.                                                       *)
(***************************************************************************)
THEOREM FlushKeepsAcked ==
    ASSUME WholeWrites, NoCompaction
    PROVE  DisciplinedSpec => []AckedDurable
<1>1. DisciplinedSpec => []FlushInv
    BY DisciplinedFlushInv
<1>2. FlushInv => AckedDurable
    BY FlushInvDurable
<1> QED BY <1>1, <1>2, PTL

(***************************************************************************)
(* Nor does it hide one from a query while the store is open: the block is *)
(* in s.blocks before the head is cleared.                                 *)
(***************************************************************************)
THEOREM FlushShowsAcked ==
    ASSUME WholeWrites, NoCompaction
    PROVE  DisciplinedSpec => []AckedVisible
<1>1. DisciplinedSpec => []FlushInv
    BY DisciplinedFlushInv
<1>2. FlushInv => AckedVisible
    BY FlushInvDurable
<1> QED BY <1>1, <1>2, PTL

(***************************************************************************)
(* Select, which reads the head and the blocks at different moments, finds *)
(* in one or the other every sample in its range that was stored all the   *)
(* time, while a flush moves it: the times of a block, by which alone      *)
(* Select decides whether to read it, cover its samples.                   *)
(***************************************************************************)
THEOREM FlushSelectComplete ==
    ASSUME WholeWrites, NoCompaction
    PROVE  DisciplinedSpec => SelectComplete
<1>1. DisciplinedSpec => []FlushInv
    BY DisciplinedFlushInv
<1>2. FlushInv => [ReadBlocks("select") => must \ dropped \subseteq SelectResult]_vars
    BY ReadingComplete DEF FlushInv, Shown, ReadBlocks, Covers
<1> QED BY <1>1, <1>2, PTL DEF SelectComplete

(***************************************************************************)
(* LabelNames and LabelValues read the same two places and miss the labels *)
(* of no series that had a sample in the range all the time.               *)
(***************************************************************************)
THEOREM FlushLabelsComplete ==
    ASSUME WholeWrites, NoCompaction
    PROVE  DisciplinedSpec => LabelsComplete
<1>1. DisciplinedSpec => []FlushInv
    BY DisciplinedFlushInv
<1>2. FlushInv
        => [ReadBlocks("labels") => {s.series : s \in must \ dropped} \subseteq LabelsResult]_vars
    BY ReadingComplete DEF FlushInv, Shown, ReadBlocks, Covers
<1> QED BY <1>1, <1>2, PTL DEF LabelsComplete

-----------------------------------------------------------------------------
(***************************************************************************)
(* Compaction and retention, of a store that starts on the blocks Flushed, *)
(* as long as no compaction takes in the result of an earlier one          *)
(* (FirstCompactionSpec).                                                  *)
(***************************************************************************)

FlushedData == UNION {b.data : b \in Flushed}

HasKey(S, a) == \E s \in S : s.series = a.series /\ s.t = a.t

\* Retention may not take the key of a: it is young enough, was in no block
\* that went for its size, and no other series has the hash of its labels.
Retained(a) ==
    /\ RetentionAge > 0 => a.t >= now - RetentionAge
    /\ \A s \in evicted : ~ (s.series = a.series /\ s.t = a.t)
    /\ \A s \in acked : HashOf[s.series] = HashOf[a.series] => s.series = a.series

\* Committed samples are in the log, and in the head while the process is up.
HeadAndLog ==
    /\ FlushedData \subseteq acked
    /\ acked \ FlushedData \subseteq Replayed
    /\ phase # "down" => acked \ FlushedData \subseteq mem

\* All samples in blocks come from the blocks of the start.
FromFlushed ==
    /\ \A d \in DOMAIN disk : \A x \in disk[d].data : x \subseteq FlushedData
    /\ \A b \in Elems(blocks) : b.data \subseteq FlushedData

\* The times of a flushed block, in memory or on disk, cover its samples.
\* Nothing is said of a compacted block: in the middle of writeBlock a directory
\* of that name may have new times and old data.
FlushedCover ==
    /\ \A d \in DOMAIN disk : d[1] = "b" =>
          \A x \in disk[d].data : \A m \in disk[d].meta : \A y \in x : m.mint =< y.t /\ y.t =< m.maxt
    /\ \A b \in Elems(blocks) : b.dir[1] = "b" => Covers(b)

DistinctDirs == \A i, j \in 1 .. Len(blocks) : i # j => blocks[i].dir # blocks[j].dir

\* The progress of compact.
MergeState ==
    LET J == job["compact"]
        B == J.blk
        writing == {"createMeta", "encodeMeta", "createData", "encodeData"}
    IN  /\ J.pc \in writing \cup {"written"} =>
              /\ B.dir[1] = "c" /\ Covers(B) /\ B.data \subseteq FlushedData
              /\ \A a \in FlushedData : Retained(a) => HasKey(B.data, a)
              /\ \A i \in 1 .. Len(J.dirs) : J.dirs[i][1] = "b"
        /\ J.pc \in writing => \A b \in Elems(blocks) : b.dir[1] = "b"
        /\ J.pc \in {"createData", "encodeData"} =>
              /\ B.dir \in DOMAIN disk
              /\ disk[B.dir].meta = {[mint |-> B.mint, maxt |-> B.maxt]}
        /\ J.pc = "written" => OpenIn(disk, B)
        /\ phase = "down" => J.pc \in {"idle", "wait"}

\* A block that will show the key of a: unless its directory is being removed
\* after a merge, it is on disk as it is in memory.
Holds(b, a) ==
    /\ HasKey(b.data, a) /\ Covers(b)
    /\ job["compact"].pc # "written" => OpenIn(disk, b)

KeysHeld ==
    \A a \in FlushedData : Retained(a) =>
       /\ phase = "down" => \E b \in OpenableBlocks : HasKey(b.data, a) /\ Covers(b)
       /\ phase # "down" => \E b \in Elems(blocks) : Holds(b, a)

CompactInv ==
    /\ TypeInv
    /\ WALSafe
    /\ job["flush"].pc = "idle"
    /\ HeadAndLog
    /\ FromFlushed
    /\ FlushedCover
    /\ DistinctDirs
    /\ MergeState
    /\ KeysHeld

LEMMA FlushedSamples == FlushedData \subseteq Sample
BY FlushedAssumption DEF FlushedData, Block

\* What retention may not take later it may not take now.
LEMMA RetainedBefore ==
    ASSUME now \in Int, now' \in Int, now =< now', acked \subseteq acked', evicted \subseteq evicted',
           NEW a \in Sample, Retained(a)'
    PROVE  Retained(a)
<1>1. RetentionAge > 0 => a.t >= now - RetentionAge
  <2>1. a.t \in Int /\ RetentionAge \in Int
      BY FSStoreAssumption
  <2>2. RetentionAge > 0 => a.t >= now' - RetentionAge
      BY DEF Retained
  <2> QED BY <2>1, <2>2
<1>2. \A s \in evicted : ~ (s.series = a.series /\ s.t = a.t)
    BY DEF Retained
<1>3. \A s \in acked : HashOf[s.series] = HashOf[a.series] => s.series = a.series
    BY DEF Retained
<1> QED BY <1>1, <1>2, <1>3 DEF Retained

LEMMA ServerStepGrows ==
    ASSUME TypeInv, ServerNext
    PROVE  now =< now' /\ acked \subseteq acked' /\ evicted \subseteq evicted'
<1>1. evicted \subseteq evicted'
    BY DEF ServerNext, Track
<1>2. now \in Nat
    BY DEF TypeInv, PlainOK
<1>3. CASE compactionLoop
    BY <1>1, <1>2, <1>3 DEF compactionLoop, compact, CompactNothing, CompactStart, CompactWrite, CompactFailed,
             CompactRemove, CompactPublish, ApplyRetention, CompactExit, storeVars
<1>4. CASE Select \/ LabelNames
    BY <1>1, <1>2, <1>4 DEF Select, LabelNames, ReadMem, ReadBlocks
<1>5. ASSUME NEW c \in Caller, Commit(c) PROVE now =< now' /\ acked \subseteq acked'
    BY <1>2, <1>5 DEF Commit, CommitStart, CommitLog, CommitMem, CommitErr, storeVars
<1>6. CASE NewFSStore \/ NewFSStoreErr \/ Close \/ CloseWAL \/ Crash \/ Tick
    BY <1>1, <1>2, <1>6 DEF NewFSStore, NewFSStoreErr, Close, CloseWAL, Crash, Tick, storeVars
<1> QED BY <1>1, <1>3, <1>4, <1>5, <1>6 DEF ServerNext, ServerStep

LEMMA RetainedStep ==
    ASSUME TypeInv, TypeInv', ServerNext
    PROVE  \A a \in FlushedData : Retained(a)' => Retained(a)
<1>1. now =< now' /\ acked \subseteq acked' /\ evicted \subseteq evicted'
    BY ServerStepGrows
<1>2. now \in Int /\ now' \in Int
    BY DEF TypeInv, PlainOK
<1> QED BY <1>1, <1>2, FlushedSamples, RetainedBefore

LEMMA FlushedInitCompactInv == FlushedInit => CompactInv
<1> SUFFICES ASSUME FlushedInit PROVE CompactInv
    OBVIOUS
<1> USE FlushedAssumption
<1> DEFINE Dirs == {b.dir : b \in Flushed}
<1>1. DOMAIN files = {} /\ DOMAIN synced = {} /\ blocks = << >> /\ phase = "down" /\ mem = {}
    BY DEF FlushedInit, WALInit
<1>2. WALTypeOK
    BY <1>1 DEF FlushedInit, WALInit, WALTypeOK, LogCall, NoCall
<1>3. WALSafe
    BY <1>1 DEF FlushedInit, WALInit, WALSafe, NoTears, NoTearsIn, OpenOnDisk, RotateState,
                LogProgress, InLog, NoCall
<1>4. LogOK
    BY <1>1, <1>2, FS_EmptySet DEF LogOK
<1>5. DOMAIN disk = Dirs
    BY DEF FlushedInit
<1>6. ASSUME NEW b \in Flushed
      PROVE  disk[b.dir] = [meta |-> {[mint |-> b.mint, maxt |-> b.maxt]}, data |-> {b.data}]
  <2>1. {x \in Flushed : x.dir = b.dir} = {b}
      OBVIOUS
  <2>2. b.dir \in Dirs
      OBVIOUS
  <2>3. disk[b.dir] = [meta |-> {[mint |-> y.mint, maxt |-> y.maxt] : y \in {x \in Flushed : x.dir = b.dir}},
                       data |-> {y.data : y \in {x \in Flushed : x.dir = b.dir}}]
      BY <2>2 DEF FlushedInit
  <2>4. /\ {[mint |-> y.mint, maxt |-> y.maxt] : y \in {b}} = {[mint |-> b.mint, maxt |-> b.maxt]}
        /\ {y.data : y \in {b}} = {b.data}
      OBVIOUS
  <2> QED BY <2>1, <2>3, <2>4
<1>7. ASSUME NEW d \in DOMAIN disk
      PROVE  \E b \in Flushed : /\ b.dir = d /\ b \in Block
                                /\ disk[d] = [meta |-> {[mint |-> b.mint, maxt |-> b.maxt]}, data |-> {b.data}]
    BY <1>5, <1>6
<1>8. DiskOK
  <2>1. IsFiniteSet(Dirs)
    <3>1. [b \in Flushed |-> b.dir] \in Surjection(Flushed, Dirs)
        BY DEF Surjection
    <3> QED BY <3>1, FS_Surjection
  <2>2. ASSUME NEW d \in DOMAIN disk PROVE d \in Dir /\ disk[d] \in FileRec /\ OneFile(disk[d])
    <3>1. PICK b \in Flushed : /\ b.dir = d /\ b \in Block
                               /\ disk[d] = [meta |-> {[mint |-> b.mint, maxt |-> b.maxt]}, data |-> {b.data}]
        BY <1>7
    <3>2. d \in Dir /\ b.mint \in Int /\ b.maxt \in Int /\ b.data \in SUBSET Sample
        BY <3>1 DEF Block
    <3>3. disk[d] \in FileRec
        BY <3>1, <3>2 DEF FileRec
    <3>4. OneFile(disk[d])
        BY <3>1 DEF OneFile
    <3> QED BY <3>2, <3>3, <3>4
  <2> QED BY <1>5, <2>1, <2>2 DEF DiskOK
<1>9. TypeInv
  <2>1. HeadOK
      BY <1>1, FS_EmptySet, FlushedSamples DEF HeadOK, FlushedInit, FlushedData
  <2>2. PlainOK
      BY FSStoreAssumption DEF PlainOK, FlushedInit, NoRead
  <2> QED BY <1>1, <1>4, <1>8, <2>1, <2>2, IdleJobsType DEF TypeInv, FlushedInit
<1>10. job["flush"].pc = "idle" /\ job["compact"].pc \in {"idle", "wait"}
    BY DEF FlushedInit, IdleJobs, Writer
<1>11. HeadAndLog
    BY <1>1 DEF HeadAndLog, FlushedInit, FlushedData
<1>12. Elems(blocks) = {}
    BY <1>1 DEF Elems
<1>13. FromFlushed
    BY <1>7, <1>12 DEF FromFlushed, FlushedData
<1>14. FlushedCover
    BY <1>7, <1>12 DEF FlushedCover, Covers
<1>15. DistinctDirs
    BY <1>1 DEF DistinctDirs
<1>16. MergeState
    BY <1>10 DEF MergeState
<1>17. KeysHeld
  <2> SUFFICES ASSUME NEW a \in FlushedData
               PROVE  \E b \in OpenableBlocks : HasKey(b.data, a) /\ Covers(b)
      BY <1>1 DEF KeysHeld
  <2>1. PICK b \in Flushed : a \in b.data
      BY DEF FlushedData
  <2>2. OpenIn(disk, b)
    <3>1. b \in Block /\ b.dir \in DOMAIN disk
        BY <1>5
    <3>2. /\ [mint |-> b.mint, maxt |-> b.maxt] \in disk[b.dir].meta
          /\ b.data \in disk[b.dir].data
      <4>1. disk[b.dir] = [meta |-> {[mint |-> b.mint, maxt |-> b.maxt]}, data |-> {b.data}]
          BY <1>6
      <4>2. disk[b.dir].meta = {[mint |-> b.mint, maxt |-> b.maxt]}
          BY ONLY <4>1
      <4>3. disk[b.dir].data = {b.data}
          BY ONLY <4>1
      <4> QED BY ONLY <4>2, <4>3
    <3> QED BY <3>1, <3>2 DEF OpenIn
  <2>3. b \in OpenableBlocks
      BY <1>8, <2>2, OpenableIn, OpenMember
  <2> QED BY <2>1, <2>3 DEF HasKey
<1> QED BY <1>3, <1>9, <1>10, <1>11, <1>13, <1>14, <1>15, <1>16, <1>17 DEF CompactInv

\* Steps that leave the blocks and the compaction loop alone.
LEMMA QuietCompactInv ==
    ASSUME CompactInv, TypeInv', WALSafe', HeadAndLog', ServerNext,
           disk' = disk, job' = job, blocks' = blocks, phase' = "down" <=> phase = "down"
    PROVE  CompactInv'
<1> USE DEF CompactInv
<1>1. \A a \in FlushedData : Retained(a)' => Retained(a)
    BY RetainedStep
<1>2. Elems(blocks') = Elems(blocks) /\ Elems(blocks)' = Elems(blocks)
    BY DEF Elems
<1>3. FromFlushed' /\ FlushedCover' /\ DistinctDirs'
    BY <1>2 DEF FromFlushed, FlushedCover, DistinctDirs
<1>4. MergeState'
    BY <1>1, <1>2 DEF MergeState
<1>5. OpenableBlocks' = OpenableBlocks
    BY DEF OpenableBlocks, openBlock
<1>6. KeysHeld'
    BY <1>1, <1>2, <1>5 DEF KeysHeld, Holds
<1> QED BY <1>3, <1>4, <1>6

LEMMA HeadAndLogStep ==
    ASSUME WholeWrites, TypeInv, WALSafe, HeadAndLog, ServerStep, ~ NewFSStore, ~ Crash
    PROVE  WALSafe' /\ HeadAndLog'
<1>0. WALTypeOK /\ ~ Tearing
    BY DEF TypeInv, LogOK, WholeWrites
<1>1. CASE walVars' = walVars /\ mem' = mem /\ acked' = acked /\ phase' = phase
  <2>1. WALSafe'
      BY <1>1, SameWALSafe DEF walVars
  <2>2. Replayed' = Replayed
      BY <1>1, SameFiles DEF walVars
  <2> QED BY <1>1, <2>1, <2>2 DEF HeadAndLog
<1>2. CASE Close
  <2>1. WALSafe'
      BY <1>2, SameWALSafe DEF Close, walVars
  <2>2. Replayed' = Replayed
      BY <1>2, SameFiles DEF Close, walVars
  <2> QED BY <1>2, <2>1, <2>2 DEF HeadAndLog, Close
<1>3. CASE CloseWAL
  <2>1. WALSafe' /\ Replayed' = Replayed
      BY <1>0, <1>3, WALCloseSafe DEF CloseWAL
  <2> QED BY <1>3, <2>1 DEF HeadAndLog, CloseWAL
<1>4. ASSUME NEW c \in Caller, CommitStart(c) PROVE WALSafe' /\ HeadAndLog'
  <2>1. PICK b \in Batch : LogStart(c, b)
      BY <1>4 DEF CommitStart
  <2>2. b \in Seq(Sample)
      BY FSStoreAssumption
  <2>3. WALSafe' /\ Replayed' = Replayed
      BY <1>0, <2>1, <2>2, LogStartSafe
  <2> QED BY <1>4, <2>3 DEF CommitStart, HeadAndLog
<1>5. ASSUME NEW c \in Caller, CommitLog(c) PROVE WALSafe' /\ HeadAndLog'
  <2>1. WALSafe' /\ Replayed \subseteq Replayed'
      BY <1>0, <1>5, LogStepSafe DEF CommitLog
  <2> QED BY <1>5, <2>1 DEF CommitLog, storeVars, HeadAndLog
<1>6. ASSUME NEW c \in Caller, CommitMem(c) \/ CommitErr(c) PROVE WALSafe' /\ HeadAndLog'
  <2>1. WALSafe' /\ Replayed' = Replayed
      BY <1>0, <1>6, LogDoneSafe DEF CommitMem, CommitErr
  <2>2. log[c].pc = "ok" => Elems(log[c].recs) \subseteq Replayed
      BY DEF WALSafe, LogProgress, Elems
  <2> QED BY <1>6, <2>1, <2>2 DEF CommitMem, CommitErr, HeadAndLog
<1>7. CASE Tick \/ Select \/ LabelNames \/ compactionLoop
    BY <1>1, <1>7 DEF Tick, Select, LabelNames, ReadMem, ReadBlocks,
             compactionLoop, compact, CompactNothing, CompactStart, CompactWrite, CompactFailed,
             CompactRemove, CompactPublish, ApplyRetention, CompactExit, storeVars
<1>8. CASE NewFSStoreErr
  <2>1. WALSafe' /\ Replayed \subseteq Replayed'
      BY <1>0, <1>8, NewWALErrSafe DEF NewFSStoreErr
  <2> QED BY <1>8, <2>1 DEF NewFSStoreErr, storeVars, HeadAndLog
<1> QED BY <1>2, <1>3, <1>4, <1>5, <1>6, <1>7, <1>8 DEF ServerStep, Commit

LEMMA CrashCompactInv ==
    ASSUME CompactInv, TypeInv', Crash, ServerNext
    PROVE  CompactInv'
<1> USE DEF CompactInv
<1>0. DiskOK /\ DiskOK' /\ WALTypeOK
    BY DEF TypeInv, LogOK
<1>1. WALSafe' /\ Replayed' = Replayed
    BY <1>0, WALCrashSafe DEF Crash
<1>2. /\ phase # "down" /\ phase' = "down" /\ disk' = disk /\ blocks' = << >> /\ acked' = acked
      /\ job' = IdleJobs
    BY DEF Crash
<1>3. job'["flush"].pc = "idle" /\ job'["compact"].pc \in {"idle", "wait"}
    BY <1>2 DEF IdleJobs, Writer
<1>4. Elems(blocks') = {}
    BY <1>2 DEF Elems
<1>5. HeadAndLog'
    BY <1>1, <1>2 DEF HeadAndLog
<1>6. FromFlushed' /\ FlushedCover' /\ DistinctDirs' /\ MergeState'
    BY <1>2, <1>3, <1>4 DEF FromFlushed, FlushedCover, DistinctDirs, MergeState
<1>7. \A a \in FlushedData : Retained(a)' => Retained(a)
    BY RetainedStep
<1>8. ASSUME NEW a \in FlushedData, Retained(a)
      PROVE  \E b \in OpenableBlocks : HasKey(b.data, a) /\ Covers(b)
  <2>1. CASE job["compact"].pc = "written"
    <3>1. /\ OpenIn(disk, job["compact"].blk)
          /\ Covers(job["compact"].blk) /\ HasKey(job["compact"].blk.data, a)
        BY <1>8, <2>1 DEF MergeState
    <3> QED BY <1>0, <3>1, OpenableIn, OpenMember
  <2>2. CASE job["compact"].pc # "written"
    <3>1. PICK b \in Elems(blocks) : HasKey(b.data, a) /\ Covers(b) /\ OpenIn(disk, b)
        BY <1>2, <1>8, <2>2 DEF KeysHeld, Holds
    <3> QED BY <1>0, <3>1, OpenableIn, OpenMember
  <2> QED BY <2>1, <2>2
<1>9. OpenableBlocks' = OpenableBlocks
    BY <1>2 DEF OpenableBlocks, openBlock
<1>10. KeysHeld'
    BY <1>2, <1>7, <1>8, <1>9 DEF KeysHeld
<1> QED BY <1>1, <1>3, <1>5, <1>6, <1>10

\* NewFSStore opens every block that opens.
LEMMA StartCompactInv ==
    ASSUME CompactInv, TypeInv', NewFSStore, ServerNext
    PROVE  CompactInv'
<1> USE DEF CompactInv
<1>0. WALTypeOK /\ DiskOK /\ phase = "down" /\ phase' = "up"
    BY DEF TypeInv, LogOK, NewFSStore
<1>1. WALSafe' /\ Replayed \subseteq Replayed'
    BY <1>0, NewWALSafe DEF NewFSStore
<1>2. mem' = Replayed
  <2>1. Misread = {}
      BY <1>0, NoTearsNoError DEF WALSafe
  <2> QED BY <2>1 DEF NewFSStore, ReplayResults
<1>3. disk' = disk /\ job' = job /\ acked' = acked
    BY DEF NewFSStore, blockVars
<1>4. /\ blocks' \in Seq(Block)
      /\ Elems(blocks') = OpenableBlocks
      /\ \A i, j \in 1 .. Len(blocks') : i # j => blocks'[i] # blocks'[j]
    BY <1>0, openBlocksFacts DEF NewFSStore
<1>5. \A b \in Elems(blocks') : OpenIn(disk, b)
    BY <1>0, <1>4, OpenableIn, OpenMember
<1>6. HeadAndLog'
    BY <1>0, <1>1, <1>2, <1>3 DEF HeadAndLog
<1>7. FromFlushed'
    BY <1>3, <1>5 DEF FromFlushed, OpenIn
<1>8. FlushedCover'
  <2>1. ASSUME NEW b \in Elems(blocks'), b.dir[1] = "b" PROVE Covers(b)
    <3>1. /\ b.dir \in DOMAIN disk /\ b.data \in disk[b.dir].data
          /\ [mint |-> b.mint, maxt |-> b.maxt] \in disk[b.dir].meta
        BY <1>5 DEF OpenIn
    <3> QED BY <2>1, <3>1 DEF FlushedCover, Covers
  <2> QED BY <1>3, <2>1 DEF FlushedCover
<1>9. DistinctDirs'
  <2>1. ASSUME NEW i \in 1 .. Len(blocks'), NEW j \in 1 .. Len(blocks'), i # j,
               blocks'[i].dir = blocks'[j].dir
        PROVE  FALSE
    <3>1. OpenIn(disk, blocks'[i]) /\ OpenIn(disk, blocks'[j])
        BY <1>5 DEF Elems
    <3>2. blocks'[i] = blocks'[j]
        BY <1>0, <2>1, <3>1, OpenUnique, OpenableIn
    <3> QED BY <1>4, <2>1, <3>2
  <2> QED BY <2>1 DEF DistinctDirs
<1>10. job["compact"].pc \in {"idle", "wait"}
    BY <1>0 DEF MergeState
<1>11. MergeState'
    BY <1>0, <1>3, <1>10 DEF MergeState
<1>12. \A a \in FlushedData : Retained(a)' => Retained(a)
    BY RetainedStep
<1>13. KeysHeld'
  <2> SUFFICES ASSUME NEW a \in FlushedData, Retained(a)
               PROVE  \E b \in Elems(blocks') : HasKey(b.data, a) /\ Covers(b) /\ OpenIn(disk', b)
      BY <1>0, <1>12 DEF KeysHeld, Holds
  <2>1. PICK b \in OpenableBlocks : HasKey(b.data, a) /\ Covers(b)
      BY <1>0 DEF KeysHeld
  <2> QED BY <1>3, <1>4, <1>5, <2>1
<1> QED BY <1>1, <1>3, <1>6, <1>7, <1>8, <1>9, <1>11, <1>13

\* Steps of the loop outside writeBlock and applyRetention that only move on.
LEMMA LoopMovesCompactInv ==
    ASSUME CompactInv, TypeInv', WALSafe', HeadAndLog', ServerNext,
           CompactNothing \/ CompactFailed \/ CompactExit
    PROVE  CompactInv'
<1> USE DEF CompactInv
<1>1. disk' = disk /\ blocks' = blocks /\ phase' = phase
    BY DEF CompactNothing, CompactFailed, CompactExit, storeVars
<1>2. /\ job["compact"].pc \in {"wait", "failed"}
      /\ job'["compact"].pc \in {"retain", "idle"}
      /\ job'["flush"] = job["flush"]
      /\ job'["compact"].pc = "retain" => phase # "down"
    BY DEF CompactNothing, CompactFailed, CompactExit, TypeInv, Writer, JobRec, MergeState
<1>3. \A a \in FlushedData : Retained(a)' => Retained(a)
    BY RetainedStep
<1>4. Elems(blocks)' = Elems(blocks) /\ OpenableBlocks' = OpenableBlocks
    BY <1>1 DEF Elems, OpenableBlocks, openBlock
<1>5. FromFlushed' /\ FlushedCover' /\ DistinctDirs'
    BY <1>1, <1>4 DEF FromFlushed, FlushedCover, DistinctDirs
<1>6. MergeState'
    BY <1>1, <1>2 DEF MergeState
<1>7. KeysHeld'
    BY <1>1, <1>2, <1>3, <1>4 DEF KeysHeld, Holds
<1> QED BY <1>2, <1>5, <1>6, <1>7

\* compactBlocks keeps every key whose labels no other series hashes to.
LEMMA MergeKeepsKey ==
    ASSUME NEW bs, NEW m \in MergeResults(bs), NEW a, NEW i \in DOMAIN bs, HasKey(bs[i].data, a),
           \A r \in UNION {bs[j].data : j \in DOMAIN bs} :
              HashOf[r.series] = HashOf[a.series] => r.series = a.series
    PROVE  HasKey(m, a)
<1> DEFINE all == UNION {bs[j].data : j \in DOMAIN bs}
<1>1. PICK s \in bs[i].data : s.series = a.series /\ s.t = a.t
    BY DEF HasKey
<1>2. s \in all
    OBVIOUS
<1>3. /\ m \subseteq all
      /\ \A x \in all : \E r \in m : HashOf[r.series] = HashOf[x.series]
      /\ \A x \in all, r \in m : r.series = x.series => \E q \in m : q.series = x.series /\ q.t = x.t
    BY DEF MergeResults
<1>4. PICK r \in m : HashOf[r.series] = HashOf[s.series]
    BY <1>2, <1>3
<1>5. r.series = s.series
    BY <1>1, <1>3, <1>4
<1>6. \E q \in m : q.series = s.series /\ q.t = s.t
    BY <1>2, <1>3, <1>5
<1> QED BY <1>1, <1>6 DEF HasKey

LEMMA CompactStartCompactInv ==
    ASSUME CompactInv, TypeInv', WALSafe', HeadAndLog', ServerNext, FirstCompaction, CompactStart
    PROVE  CompactInv'
<1> USE DEF CompactInv
<1> DEFINE B == job'["compact"].blk
<1>1. /\ disk' = disk /\ blocks' = blocks /\ phase' = phase /\ phase # "down" /\ acked' = acked
      /\ job["compact"].pc = "wait"
    BY DEF CompactStart, storeVars
<1>2. /\ job'["compact"].pc = "createMeta"
      /\ job'["flush"] = job["flush"]
      /\ B.data \in MergeResults(blocks)
      /\ B.data \subseteq UNION {x.data : x \in Elems(blocks)}
      /\ B.dir = <<"c", blocks[1].mint>>
      /\ (\A x \in Elems(blocks) : Covers(x)) => Covers(B)
      /\ job'["compact"].dirs = [i \in DOMAIN blocks |-> blocks[i].dir]
    BY CompactStartType
<1>3. \A b \in Elems(blocks) : b.dir[1] = "b"
    BY <1>1, <1>2 DEF FirstCompaction
<1>4. blocks \in Seq(Block) /\ DOMAIN blocks = 1 .. Len(blocks) /\ Len(blocks) \in Nat
    BY DEF TypeInv
<1>5. B.dir[1] = "c" /\ Covers(B) /\ B.data \subseteq FlushedData
    BY <1>2, <1>3 DEF FlushedCover, FromFlushed
<1>6. \A a \in FlushedData : Retained(a)' => Retained(a)
    BY RetainedStep
<1>7. ASSUME NEW a \in FlushedData, Retained(a) PROVE HasKey(B.data, a)
  <2>1. PICK b \in Elems(blocks) : HasKey(b.data, a)
      BY <1>1, <1>7 DEF KeysHeld, Holds
  <2>2. PICK i \in DOMAIN blocks : b = blocks[i]
      BY <1>4 DEF Elems
  <2>3. ASSUME NEW j \in DOMAIN blocks, NEW r \in blocks[j].data,
               HashOf[r.series] = HashOf[a.series]
        PROVE  r.series = a.series
    <3>1. r \in acked
        BY <1>4 DEF FromFlushed, Elems, HeadAndLog
    <3> QED BY <1>7, <2>3, <3>1 DEF Retained
  <2>4. \A r \in UNION {blocks[j].data : j \in DOMAIN blocks} :
           HashOf[r.series] = HashOf[a.series] => r.series = a.series
      BY <2>3
  <2> HIDE DEF B
  <2> QED BY <1>2, <2>1, <2>2, <2>4, MergeKeepsKey
<1>8. \A i \in 1 .. Len(job'["compact"].dirs) : job'["compact"].dirs[i][1] = "b"
  <2>1. Len(job'["compact"].dirs) = Len(blocks)
      BY <1>2, <1>4
  <2> QED BY <1>2, <1>3, <1>4, <2>1 DEF Elems
<1>9. Elems(blocks)' = Elems(blocks)
    BY <1>1 DEF Elems
<1>10. FromFlushed' /\ FlushedCover' /\ DistinctDirs'
    BY <1>1, <1>9 DEF FromFlushed, FlushedCover, DistinctDirs
<1>11. MergeState'
    BY <1>1, <1>2, <1>3, <1>5, <1>6, <1>7, <1>8, <1>9 DEF MergeState
<1>12. KeysHeld'
    BY <1>1, <1>2, <1>6, <1>9 DEF KeysHeld, Holds
<1> QED BY <1>2, <1>10, <1>11, <1>12

LEMMA CompactWriteStepCompactInv ==
    ASSUME CompactInv, TypeInv', WALSafe', HeadAndLog', ServerNext, CompactWrite,
           NEW fs, WriteStepOf("compact", fs), SetFiles(job["compact"].blk.dir, fs)
    PROVE  CompactInv'
<1> USE DEF CompactInv
<1> DEFINE J == job["compact"]
           B == J.blk
           F == FilesOf(B.dir)
           M == [mint |-> B.mint, maxt |-> B.maxt]
<1>0. J.pc \in {"createMeta", "encodeMeta", "createData", "encodeData"}
    BY DEF WriteStepOf
<1>1. blocks' = blocks /\ phase' = phase /\ phase # "down"
    BY <1>0 DEF CompactWrite, storeVars, MergeState
<1>2. /\ B.dir[1] = "c" /\ Covers(B) /\ B.data \subseteq FlushedData
      /\ \A a \in FlushedData : Retained(a) => HasKey(B.data, a)
      /\ \A i \in 1 .. Len(J.dirs) : J.dirs[i][1] = "b"
      /\ \A b \in Elems(blocks) : b.dir[1] = "b"
    BY <1>0 DEF MergeState
<1>3. /\ fs \in FileRec /\ B \in Block /\ B.dir \in Dir /\ OneFile(fs)
      /\ \A x \in Writer : /\ job'[x].blk = job[x].blk
                           /\ job'[x].dirs = job[x].dirs
                           /\ x # "compact" => job'[x].pc = job[x].pc
    BY WriteStepType DEF TypeInv, Writer
<1>4. /\ DOMAIN disk' = DOMAIN disk \cup {B.dir}
      /\ disk'[B.dir] = fs
      /\ \A d \in DOMAIN disk : d # B.dir => disk'[d] = disk[d]
    BY <1>3, SetFilesOK DEF TypeInv
<1>5. F \in FileRec
    BY FilesOfType DEF TypeInv
<1>6. job'["compact"].blk = B /\ job'["compact"].dirs = J.dirs /\ job'["flush"].pc = job["flush"].pc
    BY <1>3 DEF Writer
<1>7. /\ J.pc = "createMeta" => job'["compact"].pc = "encodeMeta" /\ fs = [F EXCEPT !.meta = {}]
      /\ J.pc = "encodeMeta" => job'["compact"].pc = "createData" /\ fs = [F EXCEPT !.meta = {M}]
      /\ J.pc = "createData" => job'["compact"].pc = "encodeData" /\ fs = [F EXCEPT !.data = {}]
      /\ J.pc = "encodeData" => job'["compact"].pc = "written" /\ fs = [F EXCEPT !.data = {B.data}]
    BY DEF WriteStepOf, TypeInv, Writer, JobRec
<1>8. J.pc \in {"createData", "encodeData"} => F.meta = {M}
    BY DEF MergeState, FilesOf
<1>9. /\ fs.data \in {F.data, {}, {B.data}}
      /\ J.pc = "encodeMeta" => fs.meta = {M}
      /\ J.pc = "createData" => fs.meta = {M}
      /\ J.pc = "encodeData" => fs.meta = {M} /\ fs.data = {B.data}
  <2> HIDE DEF J, B, F, M
  <2> QED BY <1>0, <1>5, <1>7, <1>8 DEF FileRec
<1>10. \A x \in fs.data : x \subseteq FlushedData
  <2>1. \A x \in F.data : x \subseteq FlushedData
      BY DEF FilesOf, NoFiles, FromFlushed
  <2> HIDE DEF J, B, F, M
  <2> QED BY <1>2, <1>9, <2>1
<1>11. Elems(blocks)' = Elems(blocks)
    BY <1>1 DEF Elems
<1>12. FromFlushed'
    BY <1>4, <1>10, <1>11 DEF FromFlushed
<1>13. FlushedCover' /\ DistinctDirs'
    BY <1>1, <1>2, <1>4, <1>11 DEF FlushedCover, DistinctDirs
<1>14. \A a \in FlushedData : Retained(a)' => Retained(a)
    BY RetainedStep
<1>15. job'["compact"].pc = "written" => OpenIn(disk', B)
  <2>1. job'["compact"].pc = "written" => fs.meta = {M} /\ fs.data = {B.data}
    <3> HIDE DEF J, B, F, M
    <3> QED BY <1>0, <1>7, <1>9
  <2> QED BY <1>3, <1>4, <2>1 DEF OpenIn
<1>16. job'["compact"].pc \in {"createData", "encodeData"} => B.dir \in DOMAIN disk' /\ disk'[B.dir].meta = {M}
  <2> HIDE DEF J, B, F, M
  <2> QED BY <1>0, <1>4, <1>7, <1>9
<1>17. MergeState'
  <2> HIDE DEF J, B, F
  <2> QED BY <1>1, <1>2, <1>6, <1>11, <1>14, <1>15, <1>16 DEF MergeState
<1>18. \A b \in Elems(blocks) : OpenIn(disk, b) => OpenIn(disk', b)
    BY <1>2, <1>4 DEF OpenIn
<1>19. J.pc # "written"
    BY <1>0
<1>20. KeysHeld'
    BY <1>1, <1>11, <1>14, <1>18, <1>19 DEF KeysHeld, Holds
<1> QED BY <1>6, <1>12, <1>13, <1>17, <1>20

LEMMA CompactWriteCompactInv ==
    ASSUME CompactInv, TypeInv', WALSafe', HeadAndLog', ServerNext, CompactWrite
    PROVE  CompactInv'
<1> USE DEF CompactInv
<1>1. CASE \E fs : WriteStepOf("compact", fs) /\ SetFiles(job["compact"].blk.dir, fs)
    BY <1>1, CompactWriteStepCompactInv
<1>2. CASE WriteFails("compact")
  <2>1. disk' = disk /\ blocks' = blocks /\ phase' = phase
      BY <1>2 DEF CompactWrite, storeVars, WriteFails
  <2>2. /\ job'["compact"].pc = "failed" /\ job'["flush"] = job["flush"]
        /\ job["compact"].pc \in {"createMeta", "encodeMeta", "createData", "encodeData"}
      BY <1>2 DEF WriteFails, TypeInv, Writer, JobRec, WritePC
  <2>3. phase # "down"
      BY <2>2 DEF MergeState
  <2>4. \A a \in FlushedData : Retained(a)' => Retained(a)
      BY RetainedStep
  <2>5. Elems(blocks)' = Elems(blocks)
      BY <2>1 DEF Elems
  <2>6. FromFlushed' /\ FlushedCover' /\ DistinctDirs'
      BY <2>1, <2>5 DEF FromFlushed, FlushedCover, DistinctDirs
  <2>7. MergeState'
      BY <2>1, <2>2, <2>3 DEF MergeState
  <2>8. KeysHeld'
      BY <2>1, <2>2, <2>3, <2>4, <2>5 DEF KeysHeld, Holds
  <2> QED BY <2>2, <2>6, <2>7, <2>8
<1>3. "compact" \in Writer /\ writeBlock("compact")
    BY DEF Writer, CompactWrite
<1> QED BY <1>1, <1>2, <1>3, WriteBlockCases

\* What is left on disk when some directories were to be removed.
Removed(dirs) ==
    /\ DOMAIN disk' = DOMAIN disk
    /\ \A d \in DOMAIN disk : d \notin dirs => disk'[d] = disk[d]
    /\ \A d \in DOMAIN disk : /\ disk'[d].meta \in {{}, disk[d].meta}
                              /\ disk'[d].data \in {{}, disk[d].data}

LEMMA RemovedKeeps ==
    ASSUME FromFlushed, FlushedCover, NEW dirs, Removed(dirs), Elems(blocks)' \subseteq Elems(blocks)
    PROVE  FromFlushed' /\ FlushedCover'
<1>1. ASSUME NEW d \in DOMAIN disk'
      PROVE  d \in DOMAIN disk /\ disk'[d].meta \subseteq disk[d].meta /\ disk'[d].data \subseteq disk[d].data
    BY DEF Removed
<1>2. FromFlushed'
    BY <1>1 DEF FromFlushed
<1>3. FlushedCover'
    BY <1>1 DEF FlushedCover
<1> QED BY <1>2, <1>3

\* The merged blocks are removed one by one; the merged result is on disk.
LEMMA CompactRemoveCompactInv ==
    ASSUME CompactInv, TypeInv', WALSafe', HeadAndLog', ServerNext, CompactRemove
    PROVE  CompactInv'
<1> USE DEF CompactInv
<1> DEFINE J == job["compact"]
           B == J.blk
<1>1. /\ blocks' = blocks /\ phase' = phase /\ J.pc = "written" /\ J.dirs # << >>
      /\ RemoveAll({Head(J.dirs)})
    BY DEF CompactRemove, storeVars
<1>2. /\ phase # "down"
      /\ B.dir[1] = "c" /\ Covers(B) /\ B.data \subseteq FlushedData
      /\ \A a \in FlushedData : Retained(a) => HasKey(B.data, a)
      /\ \A i \in 1 .. Len(J.dirs) : J.dirs[i][1] = "b"
      /\ OpenIn(disk, B)
    BY <1>1 DEF MergeState
<1>3. J.dirs \in Seq(Dir) /\ J \in JobRec
    BY DEF TypeInv, JobRec, Writer
<1>4. /\ job'["compact"].pc = "written" /\ job'["compact"].blk = B
      /\ job'["compact"].dirs = Tail(J.dirs) /\ job'["flush"] = job["flush"]
    BY <1>1, <1>3 DEF CompactRemove, TypeInv, Writer, JobRec
<1>5. Removed({Head(J.dirs)})
    BY <1>1, RemoveAllOK DEF TypeInv, Removed
<1>6. Head(J.dirs)[1] = "b" /\ \A i \in 1 .. Len(Tail(J.dirs)) : Tail(J.dirs)[i][1] = "b"
  <2>1. /\ Len(J.dirs) \in Nat /\ Len(J.dirs) # 0 /\ Head(J.dirs) = J.dirs[1]
        /\ Len(Tail(J.dirs)) = Len(J.dirs) - 1
        /\ \A i \in 1 .. Len(Tail(J.dirs)) : Tail(J.dirs)[i] = J.dirs[i + 1]
    <3> DEFINE D == J.dirs
    <3> HIDE DEF D
    <3>1. D \in Seq(Dir) /\ D # << >>
        BY <1>1, <1>3 DEF D
    <3>2. /\ Len(D) \in Nat /\ Len(D) # 0 /\ Head(D) = D[1]
          /\ Len(Tail(D)) = Len(D) - 1
          /\ \A i \in 1 .. Len(Tail(D)) : Tail(D)[i] = D[i + 1]
        BY <3>1
    <3> QED BY <3>2 DEF D
  <2>2. ASSUME NEW i \in 1 .. Len(Tail(J.dirs)) PROVE i + 1 \in 1 .. Len(J.dirs)
      BY <2>1
  <2>3. 1 \in 1 .. Len(J.dirs)
      BY <2>1
  <2> HIDE DEF J
  <2> QED BY <1>2, <2>1, <2>2, <2>3
<1>7. OpenIn(disk', B)
    BY <1>2, <1>5, <1>6 DEF OpenIn, Removed
<1>8. \A a \in FlushedData : Retained(a)' => Retained(a)
    BY RetainedStep
<1>9. Elems(blocks)' = Elems(blocks)
    BY <1>1 DEF Elems
<1>10. FromFlushed' /\ FlushedCover' /\ DistinctDirs'
    BY <1>1, <1>5, <1>9, RemovedKeeps DEF DistinctDirs
<1>11. MergeState'
  <2> HIDE DEF B, J
  <2> QED BY <1>1, <1>2, <1>4, <1>6, <1>7, <1>8 DEF MergeState
<1>12. KeysHeld'
    BY <1>1, <1>2, <1>4, <1>8, <1>9 DEF KeysHeld, Holds
<1> QED BY <1>4, <1>10, <1>11, <1>12

LEMMA CompactPublishCompactInv ==
    ASSUME CompactInv, TypeInv', WALSafe', HeadAndLog', ServerNext, CompactPublish
    PROVE  CompactInv'
<1> USE DEF CompactInv
<1> DEFINE B == job["compact"].blk
<1>1. /\ blocks' = <<B>> /\ phase' = phase /\ job["compact"].pc = "written" /\ disk' = disk
    BY DEF CompactPublish
<1>2. /\ phase # "down"
      /\ B.dir[1] = "c" /\ Covers(B) /\ B.data \subseteq FlushedData
      /\ \A a \in FlushedData : Retained(a) => HasKey(B.data, a)
      /\ OpenIn(disk, B)
    BY <1>1 DEF MergeState
<1>3. job'["compact"].pc = "retain" /\ job'["flush"] = job["flush"]
    BY DEF CompactPublish, TypeInv, Writer, JobRec
<1> HIDE DEF B
<1>4. Elems(blocks)' = {B} /\ Len(blocks') = 1
    BY <1>1 DEF Elems
<1>5. \A a \in FlushedData : Retained(a)' => Retained(a)
    BY RetainedStep
<1>6. FromFlushed' /\ FlushedCover' /\ DistinctDirs'
    BY <1>1, <1>2, <1>4 DEF FromFlushed, FlushedCover, DistinctDirs
<1>7. MergeState'
    BY <1>1, <1>2, <1>3 DEF MergeState
<1>8. KeysHeld'
    BY <1>1, <1>2, <1>4, <1>5 DEF KeysHeld, Holds
<1> QED BY <1>3, <1>6, <1>7, <1>8

\* applyRetention keeps the directories of the blocks it keeps.
LEMMA RetentionKeeps ==
    ASSUME TypeInv, DistinctDirs, ApplyRetention
    PROVE  /\ \A b \in Elems(blocks') : OpenIn(disk, b) => OpenIn(disk', b)
           /\ \A i, j \in 1 .. Len(blocks') : i # j => blocks'[i].dir # blocks'[j].dir
           /\ \E gone \in SUBSET Dir :
                 /\ Removed(gone)
                 /\ \A d \in gone : \E b \in Elems(blocks) : b.dir = d /\ b \notin Elems(blocks')
<1> DEFINE I == {i \in DOMAIN blocks : ~ Expired(blocks[i])}
           Old == {b.dir : b \in {b \in Elems(blocks) : Expired(b)}}
<1>1. PICK kept \in InOrder(blocks, I) :
         \E k \in 0 .. Len(kept) :
            /\ blocks' = SubSeq(kept, k + 1, Len(kept))
            /\ RemoveAll(Old \cup {kept[i].dir : i \in 1 .. k})
    BY DEF ApplyRetention
<1>2. PICK k \in 0 .. Len(kept) :
         /\ blocks' = SubSeq(kept, k + 1, Len(kept))
         /\ RemoveAll(Old \cup {kept[i].dir : i \in 1 .. k})
    BY <1>1
<1> DEFINE Gone == Old \cup {kept[i].dir : i \in 1 .. k}
<1>3. Removed(Gone)
  <2>1. RemoveAll(Gone) /\ DiskOK
      BY <1>2 DEF TypeInv
  <2> HIDE DEF Gone
  <2> QED BY <2>1, RemoveAllOK DEF Removed
<1>4. blocks \in Seq(Block) /\ I \in SUBSET (1 .. Len(blocks)) /\ DOMAIN blocks = 1 .. Len(blocks)
    BY DEF TypeInv
<1>5. PICK at \in [1 .. Len(kept) -> I] :
         /\ \A j \in 1 .. Len(kept) : kept[j] = blocks[at[j]]
         /\ \A i, j \in 1 .. Len(kept) : i < j => at[i] < at[j]
  <2> HIDE DEF I
  <2> QED BY <1>4, InOrderFacts
<1>6. kept \in Seq(Block) /\ Len(kept) \in Nat
  <2> HIDE DEF I
  <2> QED BY <1>4, InOrderFacts
<1>7. /\ \A j \in 1 .. Len(blocks') : /\ j + k \in 1 .. Len(kept)
                                      /\ blocks'[j] = kept[j + k]
                                      /\ j + k > k
      /\ Len(blocks') \in Nat
    BY <1>2, <1>6
<1>8. ASSUME NEW i \in 1 .. Len(kept), NEW j \in 1 .. Len(kept), i # j
      PROVE  kept[i].dir # kept[j].dir
  <2>1. at[i] \in 1 .. Len(blocks) /\ at[j] \in 1 .. Len(blocks)
      BY <1>4, <1>5
  <2>2. at[i] # at[j]
      BY <1>5, <1>6, <1>8, <2>1
  <2>3. blocks[at[i]].dir # blocks[at[j]].dir
      BY <2>1, <2>2 DEF DistinctDirs
  <2> QED BY <1>5, <2>3
<1>9. ASSUME NEW j \in 1 .. Len(kept), j > k PROVE kept[j].dir \notin Gone
  <2>1. ASSUME NEW b \in Elems(blocks), Expired(b), b.dir = kept[j].dir PROVE FALSE
    <3>1. PICK p \in 1 .. Len(blocks) : b = blocks[p]
        BY DEF Elems
    <3>2. at[j] \in 1 .. Len(blocks) /\ ~ Expired(blocks[at[j]]) /\ kept[j] = blocks[at[j]]
        BY <1>4, <1>5
    <3>3. p = at[j]
        BY <2>1, <3>1, <3>2 DEF DistinctDirs
    <3> QED BY <2>1, <3>1, <3>2, <3>3
  <2>2. ASSUME NEW i \in 1 .. k, kept[i].dir = kept[j].dir PROVE FALSE
    <3>1. i \in 1 .. Len(kept) /\ i # j
        BY <1>6, <1>9
    <3> QED BY <1>8, <2>2, <3>1
  <2> HIDE DEF I
  <2> QED BY <2>1, <2>2
<1>10. ASSUME NEW b \in Elems(blocks'), OpenIn(disk, b) PROVE OpenIn(disk', b)
  <2>1. PICK j \in 1 .. Len(blocks') : b = blocks'[j]
      BY DEF Elems
  <2>2. b.dir \notin Gone
      BY <1>7, <1>9, <2>1
  <2> HIDE DEF Gone
  <2> QED BY <1>3, <1>10, <2>2 DEF OpenIn, Removed
<1>11. ASSUME NEW i \in 1 .. Len(blocks'), NEW j \in 1 .. Len(blocks'), i # j
       PROVE  blocks'[i].dir # blocks'[j].dir
  <2>1. i + k # j + k
      BY <1>11
  <2> QED BY <1>7, <1>8, <2>1
<1>12. Gone \in SUBSET Dir
  <2>0. \A b \in Block : b.dir \in Dir
      BY DEF Block
  <2>1. \A b \in Elems(blocks) : b.dir \in Dir
    <3>1. \A b \in Elems(blocks) : b \in Block
        BY ONLY <1>4 DEF Elems
    <3> QED BY ONLY <2>0, <3>1
  <2>2. \A i \in 1 .. k : kept[i].dir \in Dir
    <3>1. \A i \in 1 .. k : i \in 1 .. Len(kept)
        BY <1>6
    <3>2. \A i \in 1 .. Len(kept) : kept[i] \in Block
        BY ONLY <1>6
    <3> QED BY ONLY <2>0, <3>1, <3>2
  <2> QED BY <2>1, <2>2
<1>13. ASSUME NEW d \in Gone PROVE \E b \in Elems(blocks) : b.dir = d /\ b \notin Elems(blocks')
  <2>1. \E b \in Elems(blocks) : b.dir = d
    <3>1. CASE d \in Old
        BY <3>1
    <3>2. CASE d \in {kept[i].dir : i \in 1 .. k}
      <4>1. PICK i \in 1 .. k : d = kept[i].dir
          BY <3>2
      <4>2. i \in 1 .. Len(kept)
          BY <1>6
      <4>3. at[i] \in 1 .. Len(blocks) /\ kept[i] = blocks[at[i]]
          BY <1>4, <1>5, <4>2
      <4> QED BY <4>1, <4>3 DEF Elems
    <3> QED BY <1>13, <3>1, <3>2
  <2>2. ASSUME NEW b \in Elems(blocks'), b.dir = d PROVE FALSE
    <3>1. PICK j \in 1 .. Len(blocks') : b = blocks'[j]
        BY DEF Elems
    <3>2. b.dir \notin Gone
        BY <1>7, <1>9, <3>1
    <3> QED BY <1>13, <2>2, <3>2
  <2> QED BY <2>1, <2>2
<1> HIDE DEF Gone, I, Old
<1> QED BY <1>3, <1>10, <1>11, <1>12, <1>13

LEMMA ApplyRetentionCompactInv ==
    ASSUME CompactInv, TypeInv', WALSafe', HeadAndLog', ServerNext, ApplyRetention
    PROVE  CompactInv'
<1> USE DEF CompactInv
<1>1. phase' = phase /\ job["compact"].pc = "retain" /\ now' = now /\ phase # "down"
    BY DEF ApplyRetention, MergeState
<1>2. /\ Elems(blocks') \subseteq Elems(blocks)
      /\ job'["flush"] = job["flush"]
      /\ job'["compact"] = IdleJobs["compact"]
    BY ApplyRetentionType
<1>3. job'["compact"].pc \in {"idle", "wait"}
    BY <1>2 DEF IdleJobs, Writer
<1>4. /\ \A b \in Elems(blocks') : OpenIn(disk, b) => OpenIn(disk', b)
      /\ \A i, j \in 1 .. Len(blocks') : i # j => blocks'[i].dir # blocks'[j].dir
      /\ \E gone \in SUBSET Dir : Removed(gone)
    BY RetentionKeeps
<1>5. FromFlushed' /\ FlushedCover' /\ DistinctDirs'
  <2>1. Elems(blocks)' = Elems(blocks')
      BY DEF Elems
  <2> QED BY <1>2, <1>4, <2>1, RemovedKeeps DEF DistinctDirs
<1>6. MergeState'
    BY <1>1, <1>3 DEF MergeState
<1>7. ASSUME NEW a \in FlushedData, Retained(a)'
      PROVE  \E b \in Elems(blocks') : HasKey(b.data, a) /\ Covers(b) /\ OpenIn(disk', b)
  <2>1. Retained(a)
      BY <1>7, RetainedStep
  <2>2. PICK b \in Elems(blocks) : HasKey(b.data, a) /\ Covers(b) /\ OpenIn(disk, b)
      BY <1>1, <2>1 DEF KeysHeld, Holds
  <2>3. PICK s \in b.data : s.series = a.series /\ s.t = a.t
      BY <2>2 DEF HasKey
  <2>4. ~ Expired(b)
    <3>1. b \in Block /\ b.maxt \in Int /\ s \in Sample /\ s.t \in Int /\ now \in Int /\ RetentionAge \in Int
        BY <2>2, FSStoreAssumption DEF OpenIn, Block, TypeInv, PlainOK
    <3>2. s.t =< b.maxt
        BY <2>2 DEF Covers
    <3>3. RetentionAge > 0 => s.t >= now - RetentionAge
        BY <2>1, <2>3 DEF Retained
    <3> QED BY <3>1, <3>2, <3>3 DEF Expired
  <2>5. b \in Elems(blocks')
    <3> SUFFICES ASSUME b \notin Elems(blocks') PROVE FALSE
        OBVIOUS
    <3>0. Dropping = Elems(blocks) \ Elems(blocks')
        BY <1>1 DEF Dropping
    <3>1. evicted' = evicted \cup UNION {x.data : x \in {x \in Elems(blocks) \ Elems(blocks') : ~ Expired(x)}}
        BY <3>0 DEF ServerNext, Track
    <3>2. s \in evicted'
        BY <2>4, <3>1
    <3> QED BY <1>7, <2>3, <3>2 DEF Retained
  <2> QED BY <1>4, <2>2, <2>5
<1>8. KeysHeld'
  <2>1. Elems(blocks)' = Elems(blocks')
      BY DEF Elems
  <2> QED BY <1>1, <1>7, <2>1 DEF KeysHeld, Holds
<1> QED BY <1>2, <1>5, <1>6, <1>8

LEMMA ServerNextCompactInv ==
    ASSUME WholeWrites, CompactInv, [ServerNext /\ FirstCompaction]_vars
    PROVE  CompactInv'
<1> USE DEF CompactInv
<1>1. CASE UNCHANGED vars
  <2>1. TypeInv'
      BY <1>1, NextTypeInv
  <2>2. WALSafe'
      BY <1>1, SameWALSafe DEF vars, walVars
  <2>3. HeadAndLog'
    <3>1. Replayed' = Replayed
        BY <1>1, SameFiles DEF vars, walVars
    <3> QED BY <1>1, <3>1 DEF HeadAndLog, vars, storeVars
  <2>4. disk' = disk /\ job' = job /\ blocks' = blocks /\ phase' = phase
        /\ now' = now /\ acked' = acked /\ evicted' = evicted
      BY <1>1 DEF vars, storeVars, blockVars
  <2>5. FromFlushed' /\ FlushedCover' /\ DistinctDirs'
      BY <2>4 DEF FromFlushed, FlushedCover, DistinctDirs, Elems
  <2>6. \A a : Retained(a)' <=> Retained(a)
      BY <2>4 DEF Retained
  <2>7. MergeState'
      BY <2>4, <2>6 DEF MergeState, Elems
  <2>8. OpenableBlocks' = OpenableBlocks
      BY <2>4 DEF OpenableBlocks, openBlock
  <2>9. KeysHeld'
      BY <2>4, <2>6, <2>8 DEF KeysHeld, Holds, Elems
  <2> QED BY <2>1, <2>2, <2>3, <2>4, <2>5, <2>7, <2>9
<1>2. CASE ServerNext /\ FirstCompaction
  <2>1. TypeInv' /\ ServerStep
      BY <1>2, NextTypeInv DEF ServerNext, Next
  <2>2. CASE NewFSStore
      BY <1>2, <2>1, <2>2, StartCompactInv
  <2>3. CASE Crash
      BY <1>2, <2>1, <2>3, CrashCompactInv
  <2>4. ASSUME ~ NewFSStore, ~ Crash PROVE CompactInv'
    <3>1. WALSafe' /\ HeadAndLog'
        BY <2>1, <2>4, HeadAndLogStep
    <3>2. CASE compactionLoop
        BY <1>2, <2>1, <3>1, <3>2, LoopMovesCompactInv, CompactStartCompactInv, CompactWriteCompactInv,
           CompactRemoveCompactInv, CompactPublishCompactInv, ApplyRetentionCompactInv
           DEF compactionLoop, compact
    <3>3. CASE ~ compactionLoop
      <4>1. disk' = disk /\ job' = job /\ blocks' = blocks /\ (phase' = "down" <=> phase = "down")
          BY <2>1, <2>4, <3>3 DEF ServerStep, NewFSStoreErr, Close, CloseWAL, Tick, Select, LabelNames, ReadMem, ReadBlocks,
                 Commit, CommitStart, CommitLog, CommitMem, CommitErr, blockVars, storeVars
      <4> QED BY <1>2, <2>1, <3>1, <4>1, QuietCompactInv
    <3> QED BY <3>2, <3>3
  <2> QED BY <2>2, <2>3, <2>4
<1> QED BY <1>1, <1>2

LEMMA CompactInvKeys == CompactInv => KeysKept
<1> SUFFICES ASSUME CompactInv, NEW a \in acked, Retained(a)
             PROVE  /\ HasKey(Durable, a)
                    /\ phase # "down" => HasKey(Visible, a)
    BY DEF KeysKept, Retained, HasKey
<1> USE DEF CompactInv
<1>1. CASE a \notin FlushedData
    BY <1>1, DurableVisible DEF HeadAndLog, HasKey
<1>2. CASE a \in FlushedData
  <2>1. ASSUME NEW b \in OpenableBlocks, HasKey(b.data, a) PROVE HasKey(Durable, a)
      BY <2>1, DurableVisible DEF HasKey, InOpen
  <2>2. ASSUME NEW b \in Elems(blocks), HasKey(b.data, a) PROVE HasKey(Visible, a)
      BY <2>2, DurableVisible DEF HasKey, InBlocks
  <2>3. CASE phase = "down"
      BY <1>2, <2>1, <2>3 DEF KeysHeld
  <2>4. CASE phase # "down" /\ job["compact"].pc # "written"
    <3>1. PICK b \in Elems(blocks) : HasKey(b.data, a) /\ OpenIn(disk, b)
        BY <1>2, <2>4 DEF KeysHeld, Holds
    <3>2. b \in OpenableBlocks
        BY <3>1, OpenableIn, OpenMember DEF TypeInv
    <3> QED BY <2>1, <2>2, <3>1, <3>2
  <2>5. CASE phase # "down" /\ job["compact"].pc = "written"
    <3>1. OpenIn(disk, job["compact"].blk) /\ HasKey(job["compact"].blk.data, a)
        BY <1>2, <2>5 DEF MergeState
    <3>2. job["compact"].blk \in OpenableBlocks
        BY <3>1, OpenableIn, OpenMember DEF TypeInv
    <3>3. \E b \in Elems(blocks) : HasKey(b.data, a)
        BY <1>2, <2>5 DEF KeysHeld, Holds
    <3> QED BY <2>1, <2>2, <3>1, <3>2, <3>3
  <2> QED BY <2>3, <2>4, <2>5
<1> QED BY <1>1, <1>2

(***************************************************************************)
(* Compaction and retention keep what they should.  Every (series, time)   *)
(* of an acknowledged sample within RetentionAge, that was in no block     *)
(* dropped for its size and whose labels collide with no other, stays on   *)
(* disk and in memory: through merges, through directories removed one at  *)
(* a time or not at all, through failing writes, crashes and restarts, as  *)
(* long as no compaction takes in the result of an earlier one.            *)
(***************************************************************************)
THEOREM CompactionKeepsKeys ==
    ASSUME WholeWrites
    PROVE  FirstCompactionSpec => []KeysKept
<1>1. FlushedInit => CompactInv
    BY FlushedInitCompactInv
<1>2. CompactInv /\ [ServerNext /\ FirstCompaction]_vars => CompactInv'
    BY ServerNextCompactInv
<1>3. CompactInv => KeysKept
    BY CompactInvKeys
<1> QED BY <1>1, <1>2, <1>3, PTL DEF FirstCompactionSpec

-----------------------------------------------------------------------------
(***************************************************************************)
(* Queries beside compaction and retention, under FirstCompactionSpec.     *)
(***************************************************************************)

\* Nobody commits a sample of the blocks once more.
FreshBatches == \A b \in Batch : Elems(b) \cap FlushedData = {}

\* The log and the head hold no sample of the blocks, nor will they.
Apart ==
    /\ mem \cap FlushedData = {}
    /\ Replayed \cap FlushedData = {}
    /\ \A c \in Caller : Elems(log[c].recs) \cap FlushedData = {}

\* The times of what opens, compacted blocks included, cover all samples but
\* some that retention dropped.
AllCover ==
    /\ \A d \in DOMAIN disk : \A x \in disk[d].data : \A m \in disk[d].meta :
          \A y \in x \ dropped : m.mint =< y.t /\ y.t =< m.maxt
    /\ \A b \in Elems(blocks) : \A y \in b.data \ dropped : b.mint =< y.t /\ y.t =< b.maxt

PlainNames == \A b \in Elems(blocks) : b.dir[1] = "b"

\* The data in the directories of compacted blocks was all dropped.
MergedDropped == \A d \in DOMAIN disk : d[1] = "c" => \A x \in disk[d].data : x \subseteq dropped

\* A merge finds no data in the directory it writes, or what retention left of
\* a removed block.  Otherwise that directory would open, the block be in the
\* list, and nothing be compacted.
Unmerged ==
    LET pc == job["compact"].pc
    IN  /\ \A d \in DOMAIN disk : d[1] = "c" /\ disk[d].meta = {} =>
              \A x \in disk[d].data : x \subseteq dropped
        /\ \A b \in Elems(blocks) : b.dir[1] = "c" /\ b.dir \in DOMAIN disk =>
              \A x \in disk[b.dir].data : x \subseteq b.data
        /\ pc \in {"createMeta", "encodeMeta", "createData", "encodeData"} => MergedDropped
        /\ pc \in {"failed", "retain"} => Len(blocks) < 2 \/ (PlainNames /\ MergedDropped)
        /\ phase # "down" /\ pc # "written" /\ Len(blocks) >= 2 /\ PlainNames => MergedDropped

SelectInv == CompactInv /\ Apart /\ AllCover /\ Unmerged /\ Reading

LEMMA FlushedInitSelectInv == FlushedInit => SelectInv
<1> SUFFICES ASSUME FlushedInit PROVE SelectInv
    OBVIOUS
<1>1. CompactInv
    BY FlushedInitCompactInv
<1>2. /\ mem = {} /\ Replayed = {} /\ phase = "down" /\ blocks = << >> /\ rd.pc = "idle"
      /\ \A c \in Caller : log[c].recs = << >>
    BY DEF FlushedInit, WALInit, Replayed, NoRead, NoCall
<1>3. Elems(blocks) = {} /\ Elems(<< >>) = {} /\ Len(blocks) = 0
    BY <1>2 DEF Elems
<1>4. Apart
    BY <1>2, <1>3 DEF Apart
<1>5. \A d \in DOMAIN disk : d[1] = "b"
    BY FlushedAssumption DEF FlushedInit
<1>6. AllCover
    BY <1>1, <1>3, <1>5 DEF AllCover, CompactInv, FlushedCover
<1>6a. MergedDropped
    BY <1>5 DEF MergedDropped
<1>7. job["compact"].pc \in {"idle", "wait"}
    BY DEF FlushedInit, IdleJobs, Writer
<1>8. Unmerged
    BY <1>2, <1>3, <1>6a, <1>7 DEF Unmerged, MergedDropped
<1>9. Reading
    BY <1>2 DEF Reading
<1> QED BY <1>1, <1>4, <1>6, <1>8, <1>9 DEF SelectInv

\* The batch of a call is fresh, so what the log and the head take up is.
LEMMA ServerStepApart ==
    ASSUME WholeWrites, FreshBatches, TypeInv, WALSafe, Apart, ServerStep
    PROVE  Apart'
<1>0. WALTypeOK /\ ~ Tearing
    BY DEF TypeInv, LogOK, WholeWrites
<1> DEFINE Fresh(S) == S \cap FlushedData = {}
<1>1. CASE files' = files /\ log' = log /\ (mem' = mem \/ mem' = {})
  <2>1. Replayed' = Replayed
      BY <1>1, SameFiles
  <2> QED BY <1>1, <2>1 DEF Apart, Elems
<1>1a. CASE NewFSStoreErr
  <2>1. PICK seq \in DOMAIN files \cup {0} : OpenFile(seq) \/ OpenAndSync(seq)
      BY <1>1a DEF NewFSStoreErr, NewWALErr
  <2>2. Replayed' = Replayed
      BY <1>0, <2>1, OpenFileReplay DEF WALTypeOK
  <2> QED BY <1>1a, <2>2 DEF NewFSStoreErr, NewWALErr, storeVars, Apart, Elems
<1>2. CASE NewFSStore
  <2>1. PICK seq \in DOMAIN files \cup {0} : OpenFile(seq)
      BY <1>2 DEF NewFSStore, NewWAL, OpenSegment
  <2>2. Replayed' = Replayed
      BY <1>0, <2>1, OpenFileReplay DEF WALTypeOK
  <2>3. Misread = {}
      BY <1>0, NoTearsNoError DEF WALSafe
  <2>4. mem' = Replayed
      BY <1>2, <2>3 DEF NewFSStore, ReplayResults
  <2>5. log' = log
      BY <1>2 DEF NewFSStore, NewWAL
  <2> QED BY <2>2, <2>4, <2>5 DEF Apart, Elems
<1>3. CASE Crash
  <2>1. Replayed' = Replayed /\ mem' = {}
      BY <1>0, <1>3, WALCrashSafe DEF Crash
  <2>2. \A c \in Caller : log'[c].recs = << >>
      BY <1>3 DEF Crash, WALCrash, NoCall
  <2> QED BY <2>1, <2>2 DEF Apart, Elems
<1>4. ASSUME NEW c \in Caller, CommitStart(c) PROVE Apart'
  <2>1. PICK b \in Batch : LogStart(c, b)
      BY <1>4 DEF CommitStart
  <2>2. Replayed' = Replayed /\ mem' = mem
      BY <1>4, <2>1, SameFiles DEF CommitStart, LogStart
  <2>3. \A d \in Caller : log'[d].recs = IF d = c THEN b ELSE log[d].recs
      BY <1>0, <2>1 DEF LogStart, WALTypeOK
  <2>4. Elems(b) \cap FlushedData = {}
      BY DEF FreshBatches
  <2> QED BY <2>2, <2>3, <2>4 DEF Apart, Elems
<1>5. ASSUME NEW c \in Caller, CommitLog(c) PROVE Apart'
  <2>1. mem' = mem /\ LogStep(c)
      BY <1>5 DEF CommitLog, storeVars
  <2>2. \A d \in Caller : log'[d].recs = log[d].recs
    <3>1. log \in [Caller -> LogCall]
        BY <1>0 DEF WALTypeOK
    <3>2. CASE LogWrite(c)
        BY <3>1, <3>2 DEF LogWrite, LogCall
    <3>3. CASE LogFails(c)
        BY <3>1, <3>3 DEF LogFails, LogCall
    <3>4. CASE LogReturn(c) \/ RotateSync(c) \/ RotateOpen(c)
      <4>1. \E p \in {"ok", "open", "writing"} : log' = [log EXCEPT ![c].pc = p]
          BY <3>4 DEF LogReturn, RotateSync, RotateOpen
      <4>2. PICK p \in {"ok", "open", "writing"} : log' = [log EXCEPT ![c].pc = p]
          BY <4>1
      <4> QED BY <3>1, <4>2 DEF LogCall
    <3>5. LogWrite(c) \/ LogFails(c) \/ LogReturn(c) \/ RotateSync(c) \/ RotateOpen(c)
        BY <2>1 DEF LogStep, LogWriteErr, LogWriteTorn, RotateSyncErr, RotateOpenErr
    <3> QED BY <3>2, <3>3, <3>4, <3>5
  <2>3. \/ Replayed' = Replayed
        \/ \E r \in Elems(log[c].recs) : Replayed' = Replayed \cup {r}
      BY <1>0, <2>1, LogStepReplay
  <2> QED BY <2>1, <2>2, <2>3 DEF Apart, Elems
<1>6. ASSUME NEW c \in Caller, CommitMem(c) \/ CommitErr(c) PROVE Apart'
  <2>1. LogDone(c) /\ mem' \subseteq mem \cup Elems(log[c].recs)
      BY <1>6 DEF CommitMem, CommitErr
  <2>2. Replayed' = Replayed
      BY <2>1, SameFiles DEF LogDone
  <2>3. \A d \in Caller : log'[d].recs = IF d = c THEN << >> ELSE log[d].recs
      BY <1>0, <2>1 DEF LogDone, WALTypeOK, NoCall
  <2>4. Elems(<< >>) = {}
      BY DEF Elems
  <2> QED BY <2>1, <2>2, <2>3, <2>4 DEF Apart, Elems
<1>7. CASE Close \/ CloseWAL \/ Tick \/ Select \/ LabelNames \/ compactionLoop
  <2>1. files' = files /\ log' = log /\ mem' = mem
      BY <1>7 DEF Close, CloseWAL, WALClose, Tick, Select, LabelNames, ReadMem, ReadBlocks,
             compactionLoop, compact, CompactNothing, CompactStart, CompactWrite, CompactFailed,
             CompactRemove, CompactPublish, ApplyRetention, CompactExit, storeVars, walVars
  <2> QED BY <1>1, <2>1
<1> QED BY <1>1a, <1>2, <1>3, <1>4, <1>5, <1>6, <1>7 DEF ServerStep, Commit

\* A sample that a reader still counts on is in a block after a step, for it
\* cannot be in the head instead.
LEMMA StepReading ==
    ASSUME Reading, Track, rd' = rd, TypeInv, FromFlushed, Apart'
    PROVE  Reading'
<1> SUFFICES ASSUME rd.pc = "mem" PROVE Reading'
    BY DEF Reading
<1>1. must' = must \cap Visible'
    BY DEF Track
<1>2. ASSUME NEW y \in must' PROVE y \in rd.got \/ InBlocks(y)'
  <2>1. y \in must /\ y \in Visible'
      BY <1>1
  <2>2. y \in rd.got \/ InBlocks(y)
      BY <2>1 DEF Reading
  <2>3. InBlocks(y) => y \in FlushedData
      BY DEF InBlocks, FromFlushed
  <2>4. y \in mem' \/ InBlocks(y)'
      BY <2>1 DEF Visible, InBlocks
  <2> QED BY <2>2, <2>3, <2>4 DEF Apart
<1> QED BY <1>1, <1>2 DEF Reading

\* The moves that leave the blocks and the files alone.
LEMMA QuietUnmerged ==
    ASSUME AllCover, Unmerged, disk' = disk, job' = job, blocks' = blocks,
           phase' = "down" <=> phase = "down", dropped \subseteq dropped'
    PROVE  AllCover' /\ Unmerged'
<1>1. Elems(blocks)' = Elems(blocks)
    BY DEF Elems
<1>2. AllCover'
    BY <1>1 DEF AllCover
<1>3. (MergedDropped => MergedDropped') /\ (PlainNames' <=> PlainNames)
    BY <1>1 DEF MergedDropped, PlainNames
<1> QED BY <1>1, <1>2, <1>3 DEF Unmerged

\* Whatever opens is in the list, so a list without compacted blocks means that
\* directories of one have no data, or what retention left.
LEMMA StartUnmerged ==
    ASSUME CompactInv, AllCover, Unmerged, NewFSStore, dropped \subseteq dropped'
    PROVE  AllCover' /\ Unmerged'
<1>0. DiskOK /\ phase = "down"
    BY DEF CompactInv, TypeInv, NewFSStore
<1>1. disk' = disk /\ job' = job
    BY DEF NewFSStore, blockVars
<1>2. Elems(blocks') = OpenableBlocks /\ Elems(blocks)' = Elems(blocks')
    BY <1>0, openBlocksFacts DEF NewFSStore, Elems
<1>3. \A b : b \in Elems(blocks') <=> OpenIn(disk, b)
    BY <1>0, <1>2, OpenableIn, OpenMember
<1>4. ASSUME NEW b \in Elems(blocks')
      PROVE  \A y \in b.data \ dropped : b.mint =< y.t /\ y.t =< b.maxt
  <2>1. b.dir \in DOMAIN disk /\ b.data \in disk[b.dir].data
        /\ [mint |-> b.mint, maxt |-> b.maxt] \in disk[b.dir].meta
      BY <1>3 DEF OpenIn
  <2> QED BY <2>1 DEF AllCover
<1>5. AllCover'
    BY <1>1, <1>2, <1>4 DEF AllCover
<1>6. ASSUME PlainNames' PROVE MergedDropped
  <2> SUFFICES ASSUME NEW d \in DOMAIN disk, d[1] = "c", NEW x \in disk[d].data, ~ (x \subseteq dropped)
               PROVE  FALSE
      BY DEF MergedDropped
  <2>1. PICK m \in disk[d].meta : TRUE
      BY DEF Unmerged
  <2>2. d \in Dir /\ m \in [mint : Int, maxt : Int] /\ x \in SUBSET Sample
      BY <1>0 DEF DiskOK, FileRec
  <2> DEFINE b == [dir |-> d, mint |-> m.mint, maxt |-> m.maxt, data |-> x]
  <2>3. b \in Block /\ b.dir = d /\ b.data = x /\ [mint |-> b.mint, maxt |-> b.maxt] = m
      BY <2>2 DEF Block
  <2>4. OpenIn(disk, b)
    <3> HIDE DEF b
    <3> QED BY <2>1, <2>3 DEF OpenIn
  <2>5. b \in Elems(blocks)'
      BY <1>2, <1>3, <2>4
  <2> HIDE DEF b
  <2> QED BY <1>6, <2>3, <2>5 DEF PlainNames
<1>7. job["compact"].pc \in {"idle", "wait"}
    BY <1>0 DEF CompactInv, MergeState
<1>8. MergedDropped => MergedDropped'
    BY <1>1 DEF MergedDropped
<1>9. ASSUME NEW b \in Elems(blocks'), NEW x \in disk[b.dir].data PROVE x \subseteq b.data
  <2>1. b.dir \in DOMAIN disk /\ b.data \in disk[b.dir].data
      BY <1>3 DEF OpenIn
  <2>2. OneFile(disk[b.dir])
      BY <1>0, <2>1 DEF DiskOK
  <2> QED BY <2>1, <2>2 DEF OneFile
<1>10. Unmerged'
    BY <1>1, <1>2, <1>6, <1>7, <1>8, <1>9 DEF Unmerged
<1> QED BY <1>5, <1>10

LEMMA CrashUnmerged ==
    ASSUME AllCover, Unmerged, Crash, dropped \subseteq dropped'
    PROVE  AllCover' /\ Unmerged'
<1>1. disk' = disk /\ blocks' = << >> /\ phase' = "down" /\ job' = IdleJobs
    BY DEF Crash
<1>2. Elems(blocks)' = {} /\ job'["compact"].pc \in {"idle", "wait"}
    BY <1>1 DEF Elems, IdleJobs, Writer
<1> QED BY <1>1, <1>2 DEF AllCover, Unmerged

\* The moves of the loop that write nothing.
LEMMA LoopMovesUnmerged ==
    ASSUME CompactInv, AllCover, Unmerged, FirstCompaction, dropped \subseteq dropped',
           CompactNothing \/ CompactFailed \/ CompactExit \/ CompactStart
    PROVE  AllCover' /\ Unmerged'
<1>1. disk' = disk /\ blocks' = blocks /\ phase' = phase
    BY DEF CompactNothing, CompactFailed, CompactExit, CompactStart, storeVars
<1>2. Elems(blocks)' = Elems(blocks)
    BY <1>1 DEF Elems
<1>3. /\ MergedDropped => MergedDropped'
      /\ PlainNames' <=> PlainNames
      /\ \A d \in DOMAIN disk' : d[1] = "c" /\ disk'[d].meta = {} =>
            \A x \in disk'[d].data : x \subseteq dropped'
      /\ \A b \in Elems(blocks)' : b.dir[1] = "c" /\ b.dir \in DOMAIN disk' =>
            \A x \in disk'[b.dir].data : x \subseteq b.data
    BY <1>1, <1>2 DEF MergedDropped, PlainNames, Unmerged
<1>4. AllCover'
    BY <1>1, <1>2 DEF AllCover
<1>5. TypeInv /\ Len(blocks) \in Nat
    BY DEF CompactInv, TypeInv
<1>6. CASE CompactNothing
  <2>1. job'["compact"].pc = "retain" /\ Len(blocks) < 2 /\ phase # "down"
      BY <1>5, <1>6 DEF CompactNothing, TypeInv, Writer, JobRec
  <2> QED BY <1>1, <1>3, <1>4, <1>5, <2>1 DEF Unmerged
<1>7. CASE CompactFailed
  <2>1. job'["compact"].pc = "retain" /\ job["compact"].pc = "failed"
      BY <1>5, <1>7 DEF CompactFailed, TypeInv, Writer, JobRec
  <2> QED BY <1>1, <1>3, <1>4, <2>1 DEF Unmerged
<1>8. CASE CompactExit
  <2>1. job'["compact"].pc = "idle" /\ job["compact"].pc = "wait"
      BY <1>5, <1>8 DEF CompactExit, TypeInv, Writer, JobRec
  <2> QED BY <1>1, <1>3, <1>4, <2>1 DEF Unmerged
<1>9. CASE CompactStart
  <2>1. /\ job["compact"].pc = "wait" /\ phase # "down" /\ Len(blocks) >= 2
        /\ job'["compact"].pc = "createMeta"
      BY <1>5, <1>9, CompactStartType DEF CompactStart
  <2>2. PlainNames
      BY <2>1 DEF FirstCompaction, PlainNames
  <2>3. MergedDropped
      BY <2>1, <2>2 DEF Unmerged
  <2> QED BY <1>1, <1>3, <1>4, <2>1, <2>3 DEF Unmerged
<1> QED BY <1>6, <1>7, <1>8, <1>9

\* The times are written before the data, over a directory in which no data is
\* but what was dropped.
LEMMA CompactWriteStepUnmerged ==
    ASSUME CompactInv, AllCover, Unmerged, CompactWrite, dropped \subseteq dropped',
           NEW fs, WriteStepOf("compact", fs), SetFiles(job["compact"].blk.dir, fs)
    PROVE  AllCover' /\ Unmerged'
<1> DEFINE J == job["compact"]
           B == J.blk
           F == FilesOf(B.dir)
           M == [mint |-> B.mint, maxt |-> B.maxt]
<1>0. J.pc \in {"createMeta", "encodeMeta", "createData", "encodeData"} /\ TypeInv
    BY DEF WriteStepOf, CompactInv
<1>1. blocks' = blocks /\ phase' = phase /\ Elems(blocks)' = Elems(blocks)
    BY DEF CompactWrite, storeVars, Elems
<1>2. B.dir[1] = "c" /\ Covers(B) /\ PlainNames /\ MergedDropped
    BY <1>0 DEF CompactInv, MergeState, Unmerged, PlainNames
<1>3. fs \in FileRec /\ B \in Block /\ B.dir \in Dir /\ OneFile(fs)
    BY <1>0, WriteStepType DEF TypeInv, Writer
<1>4. /\ DOMAIN disk' = DOMAIN disk \cup {B.dir}
      /\ disk'[B.dir] = fs
      /\ \A d \in DOMAIN disk : d # B.dir => disk'[d] = disk[d]
    BY <1>0, <1>3, SetFilesOK DEF TypeInv
<1>5. F \in FileRec /\ \A x \in F.data : x \subseteq dropped
  <2>1. F \in FileRec
      BY <1>0, FilesOfType DEF TypeInv
  <2> QED BY <1>2, <2>1 DEF FilesOf, NoFiles, MergedDropped
<1>6. /\ J.pc = "createMeta" => job'["compact"].pc = "encodeMeta" /\ fs = [F EXCEPT !.meta = {}]
      /\ J.pc = "encodeMeta" => job'["compact"].pc = "createData" /\ fs = [F EXCEPT !.meta = {M}]
      /\ J.pc = "createData" => job'["compact"].pc = "encodeData" /\ fs = [F EXCEPT !.data = {}]
      /\ J.pc = "encodeData" => job'["compact"].pc = "written" /\ fs = [F EXCEPT !.data = {B.data}]
    BY <1>0 DEF WriteStepOf, TypeInv, Writer, JobRec
<1>7. J.pc = "encodeData" => F.meta = {M}
    BY DEF CompactInv, MergeState, FilesOf
<1>8. \/ /\ job'["compact"].pc \in {"encodeMeta", "createData", "encodeData"}
         /\ \A x \in fs.data : x \subseteq dropped
      \/ /\ job'["compact"].pc = "written"
         /\ fs.data = {B.data} /\ fs.meta = {M}
  <2> HIDE DEF J, B, F, M
  <2> QED BY <1>0, <1>5, <1>6, <1>7 DEF FileRec
<1>9. \A x \in fs.data : \A m \in fs.meta : \A y \in x \ dropped : m.mint =< y.t /\ y.t =< m.maxt
  <2>1. \A y \in B.data : M.mint =< y.t /\ y.t =< M.maxt
      BY <1>2 DEF Covers
  <2> HIDE DEF J, B, F, M
  <2> QED BY <1>8, <2>1
<1> HIDE DEF B, F, M
<1>10. AllCover'
    BY <1>1, <1>4, <1>9 DEF AllCover
<1>10a. \A b \in Elems(blocks)' : b.dir[1] # "c"
    BY <1>1, <1>2 DEF PlainNames
<1>11. CASE /\ job'["compact"].pc \in {"encodeMeta", "createData", "encodeData"}
            /\ \A x \in fs.data : x \subseteq dropped
  <2>1. MergedDropped'
      BY <1>2, <1>4, <1>11 DEF MergedDropped
  <2>2. /\ \A d \in DOMAIN disk' : d[1] = "c" /\ disk'[d].meta = {} =>
              \A x \in disk'[d].data : x \subseteq dropped'
        /\ job'["compact"].pc \notin {"failed", "retain"}
      BY <1>11, <2>1 DEF MergedDropped
  <2> QED BY ONLY <1>10, <1>10a, <2>1, <2>2 DEF Unmerged
<1>12. CASE job'["compact"].pc = "written" /\ fs.data = {B.data} /\ fs.meta = {M}
  <2>1. ASSUME NEW d \in DOMAIN disk', d[1] = "c", disk'[d].meta = {}, NEW x \in disk'[d].data
        PROVE  x \subseteq dropped'
    <3>1. d # B.dir
        BY <1>4, <1>12, <2>1
    <3> QED BY <1>2, <1>4, <2>1, <3>1 DEF MergedDropped
  <2>2. job'["compact"].pc = "written"
      BY <1>12
  <2>3. \A d \in DOMAIN disk' : d[1] = "c" /\ disk'[d].meta = {} =>
           \A x \in disk'[d].data : x \subseteq dropped'
      BY <2>1
  <2> QED BY ONLY <1>10, <1>10a, <2>2, <2>3 DEF Unmerged
<1> QED BY <1>8, <1>10, <1>11, <1>12

LEMMA CompactWriteUnmerged ==
    ASSUME CompactInv, AllCover, Unmerged, CompactWrite, dropped \subseteq dropped'
    PROVE  AllCover' /\ Unmerged'
<1>1. CASE \E fs : WriteStepOf("compact", fs) /\ SetFiles(job["compact"].blk.dir, fs)
    BY <1>1, CompactWriteStepUnmerged
<1>2. CASE WriteFails("compact")
  <2>1. disk' = disk /\ blocks' = blocks /\ phase' = phase
      BY <1>2 DEF CompactWrite, storeVars, WriteFails
  <2>2. /\ job'["compact"].pc = "failed"
        /\ job["compact"].pc \in {"createMeta", "encodeMeta", "createData", "encodeData"}
      BY <1>2 DEF WriteFails, CompactInv, TypeInv, Writer, JobRec, WritePC
  <2>3. Elems(blocks)' = Elems(blocks)
      BY <2>1 DEF Elems
  <2>4. (MergedDropped => MergedDropped') /\ (PlainNames' <=> PlainNames)
      BY <2>1, <2>3 DEF MergedDropped, PlainNames
  <2>5. PlainNames /\ MergedDropped
      BY <2>2 DEF CompactInv, MergeState, Unmerged, PlainNames
  <2>6. AllCover'
      BY <2>1, <2>3 DEF AllCover
  <2> QED BY <2>1, <2>2, <2>3, <2>4, <2>5, <2>6 DEF Unmerged
<1>3. "compact" \in Writer /\ writeBlock("compact")
    BY DEF Writer, CompactWrite
<1> QED BY <1>1, <1>2, <1>3, WriteBlockCases

\* What is removed after a merge is a block that is no merged one itself.
LEMMA CompactRemoveUnmerged ==
    ASSUME CompactInv, AllCover, Unmerged, CompactRemove, dropped \subseteq dropped'
    PROVE  AllCover' /\ Unmerged'
<1> DEFINE J == job["compact"]
<1>1. /\ blocks' = blocks /\ phase' = phase /\ J.pc = "written" /\ J.dirs # << >>
      /\ RemoveAll({Head(J.dirs)})
    BY DEF CompactRemove, storeVars
<1>2. Head(J.dirs)[1] = "b"
  <2>1. \A i \in 1 .. Len(J.dirs) : J.dirs[i][1] = "b"
      BY <1>1 DEF CompactInv, MergeState
  <2>2. J.dirs \in Seq(Dir)
      BY DEF CompactInv, TypeInv, JobRec, Writer
  <2>3. Head(J.dirs) = J.dirs[1] /\ 1 \in 1 .. Len(J.dirs)
    <3> DEFINE D == J.dirs
    <3>1. D \in Seq(Dir) /\ D # << >>
        BY <1>1, <2>2
    <3> HIDE DEF D
    <3>2. Head(D) = D[1] /\ 1 \in 1 .. Len(D)
        BY <3>1
    <3> QED BY <3>2 DEF D
  <2> HIDE DEF J
  <2> QED BY <2>1, <2>3
<1>3. Removed({Head(J.dirs)})
    BY <1>1, RemoveAllOK DEF CompactInv, TypeInv, Removed
<1>4. J'.pc = "written"
    BY <1>1 DEF CompactRemove, CompactInv, TypeInv, Writer, JobRec
<1>5. Elems(blocks)' = Elems(blocks)
    BY <1>1 DEF Elems
<1>6. ASSUME NEW d \in DOMAIN disk'
      PROVE  /\ d \in DOMAIN disk
             /\ disk'[d].meta \subseteq disk[d].meta /\ disk'[d].data \subseteq disk[d].data
             /\ d[1] = "c" => disk'[d] = disk[d]
    BY <1>2, <1>3 DEF Removed
<1>7. AllCover'
    BY <1>5, <1>6 DEF AllCover
<1>8. Unmerged'
    BY <1>1, <1>4, <1>5, <1>6 DEF Unmerged
<1> QED BY <1>7, <1>8

\* The merged block takes the place of all others.
LEMMA CompactPublishUnmerged ==
    ASSUME CompactInv, AllCover, Unmerged, CompactPublish, dropped \subseteq dropped'
    PROVE  AllCover' /\ Unmerged'
<1> DEFINE B == job["compact"].blk
<1>1. blocks' = <<B>> /\ phase' = phase /\ job["compact"].pc = "written" /\ disk' = disk
    BY DEF CompactPublish
<1>2. Covers(B) /\ OpenIn(disk, B)
    BY <1>1 DEF CompactInv, MergeState
<1>3. job'["compact"].pc = "retain"
    BY DEF CompactPublish, CompactInv, TypeInv, Writer, JobRec
<1> HIDE DEF B
<1>4. Elems(blocks)' = {B} /\ Len(blocks') = 1
    BY <1>1 DEF Elems
<1>5. \A x \in disk[B.dir].data : x \subseteq B.data
  <2>1. B.dir \in DOMAIN disk /\ B.data \in disk[B.dir].data
      BY <1>2 DEF OpenIn
  <2>2. OneFile(disk[B.dir])
      BY <2>1 DEF CompactInv, TypeInv, DiskOK
  <2> QED BY <2>1, <2>2 DEF OneFile
<1>6. AllCover'
    BY <1>1, <1>2, <1>4 DEF AllCover, Covers
<1>7. Unmerged'
    BY <1>1, <1>3, <1>4, <1>5 DEF Unmerged
<1> QED BY <1>6, <1>7

\* What a removal leaves of a directory was in a block that is dropped.
LEMMA ApplyRetentionUnmerged ==
    ASSUME CompactInv, AllCover, Unmerged, ApplyRetention, dropped \subseteq dropped',
           \A b \in Elems(blocks) : b \in Elems(blocks') \/ b.data \subseteq dropped'
    PROVE  AllCover' /\ Unmerged'
<1>0. TypeInv /\ DistinctDirs /\ job["compact"].pc = "retain"
    BY DEF CompactInv, ApplyRetention
<1>1. /\ Elems(blocks') \subseteq Elems(blocks) /\ Elems(blocks)' = Elems(blocks')
      /\ blocks' \in Seq(Block)
      /\ job'["compact"] = IdleJobs["compact"]
    BY <1>0, ApplyRetentionType DEF Elems
<1>2. job'["compact"].pc \in {"idle", "wait"}
    BY <1>1 DEF IdleJobs, Writer
<1>3. /\ \A i, j \in 1 .. Len(blocks') : i # j => blocks'[i].dir # blocks'[j].dir
    BY <1>0, RetentionKeeps
<1>3a. PICK gone \in SUBSET Dir :
          /\ Removed(gone)
          /\ \A d \in gone : \E b \in Elems(blocks) : b.dir = d /\ b \notin Elems(blocks')
    BY <1>0, RetentionKeeps
<1>3b. ASSUME NEW d \in DOMAIN disk'
       PROVE  /\ d \in DOMAIN disk
              /\ disk'[d].meta \subseteq disk[d].meta /\ disk'[d].data \subseteq disk[d].data
              /\ d \notin gone => disk'[d] = disk[d]
    BY <1>3a DEF Removed
<1>4. AllCover'
    BY <1>1, <1>3b DEF AllCover
<1>4a. ASSUME NEW d \in DOMAIN disk', d[1] = "c", disk'[d].meta = {}, NEW x \in disk'[d].data
       PROVE  x \subseteq dropped'
  <2>1. CASE d \in gone
    <3>1. PICK b \in Elems(blocks) : b.dir = d /\ b \notin Elems(blocks')
        BY <1>3a, <2>1
    <3>2. x \subseteq b.data
        BY <1>3b, <1>4a, <3>1 DEF Unmerged
    <3> QED BY <3>1, <3>2
  <2>2. CASE d \notin gone
      BY <1>3b, <1>4a, <2>2 DEF Unmerged
  <2> QED BY <2>1, <2>2
<1>4b. ASSUME NEW b \in Elems(blocks'), b.dir[1] = "c", b.dir \in DOMAIN disk'
       PROVE  \A x \in disk'[b.dir].data : x \subseteq b.data
    BY <1>1, <1>3b, <1>4b DEF Unmerged
<1>5. ASSUME Len(blocks) < 2 PROVE Len(blocks') < 2
  <2> SUFFICES ASSUME Len(blocks') >= 2 PROVE FALSE
      BY <1>1
  <2>1. 1 \in 1 .. Len(blocks') /\ 2 \in 1 .. Len(blocks')
      BY <1>1
  <2>2. blocks'[1] \in Elems(blocks) /\ blocks'[2] \in Elems(blocks)
      BY <1>1, <2>1 DEF Elems
  <2>3. \A i \in 1 .. Len(blocks) : i = 1
      BY <1>0, <1>5 DEF TypeInv
  <2>4. \A x, y \in Elems(blocks) : x = y
      BY <2>3 DEF Elems
  <2> QED BY <1>3, <2>1, <2>2, <2>4
<1>6. MergedDropped => MergedDropped'
    BY <1>3b DEF MergedDropped
<1>7. \/ Len(blocks') < 2
      \/ MergedDropped'
    BY <1>0, <1>5, <1>6 DEF Unmerged
<1>8. Len(blocks') \in Nat
    BY <1>1
<1>9. Unmerged'
    BY <1>1, <1>2, <1>4a, <1>4b, <1>7, <1>8 DEF Unmerged
<1> QED BY <1>4, <1>9

LEMMA ServerNextSelectInv ==
    ASSUME WholeWrites, FreshBatches, SelectInv, [ServerNext /\ FirstCompaction]_vars
    PROVE  SelectInv'
<1> USE DEF SelectInv
<1>0. CompactInv' /\ TypeInv /\ WALSafe /\ FromFlushed
    BY ServerNextCompactInv DEF CompactInv
<1>1. CASE UNCHANGED vars
  <2>1. /\ disk' = disk /\ job' = job /\ blocks' = blocks /\ phase' = phase /\ mem' = mem
        /\ files' = files /\ log' = log /\ rd' = rd /\ must' = must /\ dropped' = dropped
      BY <1>1 DEF vars, storeVars, blockVars, walVars
  <2>2. Replayed' = Replayed
      BY <2>1, SameFiles
  <2>3. Apart'
      BY <2>1, <2>2 DEF Apart, Elems
  <2>4. AllCover' /\ Unmerged'
      BY <2>1, QuietUnmerged
  <2>5. Reading'
      BY <2>1, SameBlocks DEF Reading
  <2> QED BY <1>0, <2>3, <2>4, <2>5
<1>2. CASE ServerNext /\ FirstCompaction
  <2>1. ServerStep /\ Track
      BY <1>2 DEF ServerNext
  <2>2. Apart'
      BY <1>0, <2>1, ServerStepApart
  <2>3. AllCover' /\ Unmerged'
    <3>0. dropped \subseteq dropped'
        BY <2>1 DEF Track
    <3>1. CASE NewFSStore \/ Crash
        BY <3>0, <3>1, StartUnmerged, CrashUnmerged
    <3>2a. CASE ApplyRetention
      <4>1. phase' # "down" /\ job["compact"].pc = "retain"
          BY <3>2a DEF ApplyRetention, CompactInv, MergeState
      <4>2. Dropping = Elems(blocks) \ Elems(blocks')
          BY <4>1 DEF Dropping
      <4>3. dropped' = dropped \cup UNION {b.data : b \in Elems(blocks) \ Elems(blocks')}
          BY <2>1, <4>2 DEF Track
      <4>4. \A b \in Elems(blocks) : b \in Elems(blocks') \/ b.data \subseteq dropped'
          BY <4>3
      <4> QED BY <3>0, <3>2a, <4>4, ApplyRetentionUnmerged
    <3>2. CASE compactionLoop
        BY <1>2, <3>0, <3>2, <3>2a, LoopMovesUnmerged, CompactWriteUnmerged, CompactRemoveUnmerged,
           CompactPublishUnmerged DEF compactionLoop, compact
    <3>3. CASE ~ NewFSStore /\ ~ Crash /\ ~ compactionLoop
      <4>1. disk' = disk /\ job' = job /\ blocks' = blocks /\ (phase' = "down" <=> phase = "down")
          BY <2>1, <3>3 DEF ServerStep, NewFSStoreErr, Close, CloseWAL, Tick, Select, LabelNames, ReadMem, ReadBlocks,
                 Commit, CommitStart, CommitLog, CommitMem, CommitErr, blockVars, storeVars
      <4> QED BY <3>0, <4>1, QuietUnmerged
    <3> QED BY <3>1, <3>2, <3>3
  <2>4. Reading'
    <3>1. CASE rd' = rd
        BY <1>0, <2>1, <2>2, <3>1, StepReading
    <3>2. CASE rd'.pc = "idle"
        BY <3>2, IdleReading
    <3>3. ASSUME NEW op, ReadMem(op) PROVE Reading'
        BY <2>1, <3>3, ReadMemReading
    <3>4. ASSUME ~ (rd' = rd), ~ (rd'.pc = "idle") PROVE \E op : ReadMem(op)
      <4>1. CASE Select \/ LabelNames
          BY <3>4, <4>1 DEF Select, LabelNames, ReadBlocks, NoRead
      <4>2. CASE Crash
          BY <3>4, <4>2 DEF Crash, NoRead
      <4>3. CASE compactionLoop
          BY <3>4, <4>3 DEF compactionLoop, compact, CompactNothing, CompactStart, CompactWrite, CompactFailed,
                 CompactRemove, CompactPublish, ApplyRetention, CompactExit, storeVars
      <4>4. CASE NewFSStore \/ NewFSStoreErr \/ Close \/ CloseWAL \/ Tick \/ \E c \in Caller : Commit(c)
          BY <3>4, <4>4 DEF NewFSStore, NewFSStoreErr, Close, CloseWAL, Tick,
                 Commit, CommitStart, CommitLog, CommitMem, CommitErr, storeVars
      <4> QED BY <2>1, <4>1, <4>2, <4>3, <4>4 DEF ServerStep
    <3> QED BY <3>1, <3>2, <3>3, <3>4
  <2> QED BY <1>0, <2>2, <2>3, <2>4
<1> QED BY <1>1, <1>2

LEMMA SelectInvHolds ==
    ASSUME WholeWrites, FreshBatches
    PROVE  FirstCompactionSpec => []SelectInv
<1>1. FlushedInit => SelectInv
    BY FlushedInitSelectInv
<1>2. SelectInv /\ [ServerNext /\ FirstCompaction]_vars => SelectInv'
    BY ServerNextSelectInv
<1> QED BY <1>1, <1>2, PTL DEF FirstCompactionSpec

(***************************************************************************)
(* Select reads the head and then the blocks, and between the two a merged *)
(* block may take the place of its sources, or retention drop some: every  *)
(* sample in its range that was visible all the time is in its result, but *)
(* for those that retention had dropped once and that came back from a     *)
(* directory of which os.RemoveAll left the data.  The proof carries that  *)
(* nothing else can be under times that are not its own: a merge writes    *)
(* its times over no data, or over data that was dropped.                  *)
(***************************************************************************)
THEOREM CompactionSelectComplete ==
    ASSUME WholeWrites, FreshBatches
    PROVE  FirstCompactionSpec => SelectComplete
<1>1. FirstCompactionSpec => []SelectInv
    BY SelectInvHolds
<1>2. SelectInv => [ReadBlocks("select") => must \ dropped \subseteq SelectResult]_vars
    BY ReadingComplete DEF SelectInv, CompactInv, AllCover, ReadBlocks
<1> QED BY <1>1, <1>2, PTL DEF SelectComplete

(***************************************************************************)
(* Nor do LabelNames and LabelValues miss a series that had a sample in    *)
(* the range all the time, one that retention had not dropped.             *)
(***************************************************************************)
THEOREM CompactionLabelsComplete ==
    ASSUME WholeWrites, FreshBatches
    PROVE  FirstCompactionSpec => LabelsComplete
<1>1. FirstCompactionSpec => []SelectInv
    BY SelectInvHolds
<1>2. SelectInv
        => [ReadBlocks("labels") => {s.series : s \in must \ dropped} \subseteq LabelsResult]_vars
    BY ReadingComplete DEF SelectInv, CompactInv, AllCover, ReadBlocks
<1> QED BY <1>1, <1>2, PTL DEF LabelsComplete

-----------------------------------------------------------------------------
(* Sums over finite sets *)

\* A claim about the subsets of a finite set holds of all of them if it holds
\* of each one that is empty or of which all sets with one element less satisfy
\* it.
LEMMA FiniteSubsets ==
    ASSUME NEW S, IsFiniteSet(S), NEW Z, {} \in Z,
           \A T \in SUBSET S : T # {} /\ (\A x \in T : T \ {x} \in Z) => T \in Z
    PROVE  \A T \in SUBSET S : T \in Z
<1> DEFINE N == {Cardinality(T) : T \in {U \in SUBSET S : U \notin Z}}
<1>1. \A T \in SUBSET S : IsFiniteSet(T) /\ Cardinality(T) \in Nat
    BY FS_Subset, FS_CardinalityType
<1>2. SUFFICES ASSUME N # {} PROVE FALSE
    OBVIOUS
<1>3. PICK n \in N : \A m \in N : n =< m
  <2>1. N \subseteq Nat
      BY <1>1
  <2> HIDE DEF N
  <2> QED BY <1>2, <2>1, LeastNat
<1>4. PICK T \in SUBSET S : T \notin Z /\ n = Cardinality(T)
    OBVIOUS
<1>5. ASSUME NEW x \in T PROVE T \ {x} \in Z
  <2>1. T \ {x} \in SUBSET S /\ Cardinality(T \ {x}) = n - 1 /\ n \in Nat
      BY <1>1, <1>4, FS_RemoveElement
  <2>2. n - 1 \notin N
      BY <1>3, <2>1
  <2> QED BY <2>1, <2>2
<1> QED BY <1>4, <1>5

\* f is the function that MapThenSumSet computes the sum of w over S by.
SumsBySet(S, w, f) ==
    f = [s \in SUBSET S |->
           IF s = {} THEN 0
           ELSE w[CHOOSE x \in s : TRUE] + f[s \ {CHOOSE x \in s : TRUE}]]

Weights(S, w) == \A x \in S : w[x] \in Nat

LEMMA SumExists ==
    ASSUME NEW S, IsFiniteSet(S), NEW w, Weights(S, w)
    PROVE  \E f : SumsBySet(S, w, f)
<1> DEFINE one(s) == CHOOSE x \in s : TRUE
           Upto(k, f) ==
              /\ f \in [SUBSET S -> Nat]
              /\ \A s \in SUBSET S : Cardinality(s) =< k =>
                    f[s] = IF s = {} THEN 0 ELSE w[one(s)] + f[s \ {one(s)}]
           N == {k \in Nat : ~ \E f : Upto(k, f)}
<1>0. \A s \in SUBSET S : IsFiniteSet(s) /\ Cardinality(s) \in Nat /\ Cardinality(s) =< Cardinality(S)
    BY FS_Subset, FS_CardinalityType
<1>1. \A s \in SUBSET S : s # {} => one(s) \in s
    OBVIOUS
<1>2. \A s \in SUBSET S : s # {} => /\ s \ {one(s)} \in SUBSET S
                                    /\ Cardinality(s \ {one(s)}) = Cardinality(s) - 1
    BY <1>0, <1>1, FS_RemoveElement
<1>3. \A s \in SUBSET S : s # {} => w[one(s)] \in Nat
    BY <1>1 DEF Weights
<1>4. ASSUME N # {} PROVE FALSE
  <2>1. PICK k \in N : \A y \in N : k =< y
    <3>1. N \subseteq Nat
        OBVIOUS
    <3> HIDE DEF N
    <3> QED BY <1>4, <3>1, LeastNat
  <2>2. k \in Nat /\ ~ \E f : Upto(k, f)
      OBVIOUS
  <2>3. CASE k = 0
    <3> DEFINE z == [s \in SUBSET S |-> 0]
    <3>1. \A s \in SUBSET S : Cardinality(s) =< 0 => s = {}
        BY <1>0, FS_EmptySet
    <3>2. z \in [SUBSET S -> Nat] /\ \A s \in SUBSET S : z[s] = 0
        OBVIOUS
    <3> HIDE DEF z, one
    <3>3. Upto(k, z)
        BY <2>3, <3>1, <3>2
    <3> HIDE DEF Upto
    <3> QED BY <2>2, <3>3
  <2>4. CASE k # 0
    <3>1. k - 1 \in Nat /\ ~ (k =< k - 1)
        BY <2>2, <2>4
    <3>2. PICK f : Upto(k - 1, f)
      <4> HIDE DEF Upto
      <4> QED BY <2>1, <3>1
    <3> HIDE DEF one
    <3> DEFINE g == [s \in SUBSET S |-> IF s = {} THEN 0 ELSE w[one(s)] + f[s \ {one(s)}]]
    <3>3. g \in [SUBSET S -> Nat]
      <4>1. \A s \in SUBSET S : s # {} => f[s \ {one(s)}] \in Nat
          BY <1>2, <3>2
      <4>2. \A s \in SUBSET S : (IF s = {} THEN 0 ELSE w[one(s)] + f[s \ {one(s)}]) \in Nat
          BY <1>3, <4>1
      <4> QED BY <4>2
    <3>4. ASSUME NEW s \in SUBSET S, Cardinality(s) =< k - 1 PROVE g[s] = f[s]
        BY <3>2, <3>4
    <3>5. ASSUME NEW s \in SUBSET S, Cardinality(s) =< k, s # {}
          PROVE  g[s] = w[one(s)] + g[s \ {one(s)}]
      <4>1. /\ s \ {one(s)} \in SUBSET S
            /\ Cardinality(s \ {one(s)}) = Cardinality(s) - 1
            /\ Cardinality(s) \in Nat
          BY <1>0, <1>2, <3>5
      <4>2. Cardinality(s \ {one(s)}) =< k - 1
          BY <2>2, <3>5, <4>1
      <4>3. g[s \ {one(s)}] = f[s \ {one(s)}]
          BY <3>4, <4>1, <4>2
      <4>4. g[s] = w[one(s)] + f[s \ {one(s)}]
          BY <3>5
      <4> HIDE DEF g
      <4> QED BY <4>3, <4>4
    <3>6. g[{}] = 0
        OBVIOUS
    <3> HIDE DEF g
    <3>7. Upto(k, g)
        BY <3>3, <3>5, <3>6
    <3> HIDE DEF Upto
    <3> QED BY <2>2, <3>7
  <2> QED BY <2>3, <2>4
<1>5. PICK f : Upto(Cardinality(S), f)
  <2>1. Cardinality(S) \in Nat
      BY FS_CardinalityType
  <2> HIDE DEF Upto
  <2> QED BY <1>4, <2>1
<1>6. \A s \in SUBSET S : f[s] = IF s = {} THEN 0 ELSE w[one(s)] + f[s \ {one(s)}]
    BY <1>0, <1>5
<1>7. f \in [SUBSET S -> Nat]
    BY <1>5
<1>8. SumsBySet(S, w, f)
    BY <1>6, <1>7 DEF SumsBySet
<1> QED BY <1>8

LEMMA SumFacts ==
    ASSUME NEW S, IsFiniteSet(S), NEW w, Weights(S, w), NEW f, SumsBySet(S, w, f)
    PROVE  /\ f[{}] = 0
           /\ \A s \in SUBSET S : f[s] \in Nat
           /\ \A s \in SUBSET S : \A x \in s : f[s] = w[x] + f[s \ {x}]
<1> DEFINE one(s) == CHOOSE x \in s : TRUE
           Z == {s \in SUBSET S :
                   f[s] \in Nat /\ \A x \in s : f[s \ {x}] \in Nat /\ f[s] = w[x] + f[s \ {x}]}
<1>1. \A s \in SUBSET S : s # {} => one(s) \in s
    OBVIOUS
<1>2. f[{}] = 0 /\ \A s \in SUBSET S : s # {} => f[s] = w[one(s)] + f[s \ {one(s)}]
  <2>1. \A s \in SUBSET S : f[s] = IF s = {} THEN 0 ELSE w[one(s)] + f[s \ {one(s)}]
      BY DEF SumsBySet
  <2>2. {} \in SUBSET S
      OBVIOUS
  <2> HIDE DEF one
  <2> QED BY <2>1, <2>2
<1> HIDE DEF one
<1>3. {} \in Z
    BY <1>2
<1>4. ASSUME NEW s \in SUBSET S, s # {}, \A x \in s : s \ {x} \in Z
      PROVE  s \in Z
  <2> DEFINE c == one(s)
  <2>1. c \in s /\ w[c] \in Nat /\ f[s] = w[c] + f[s \ {c}] /\ f[s \ {c}] \in Nat
      BY <1>1, <1>2, <1>4 DEF Weights
  <2>2. f[s] \in Nat
      BY <2>1
  <2>3. ASSUME NEW x \in s, x # c PROVE f[s] = w[x] + f[s \ {x}]
    <3>1. s \ {c} \in Z /\ s \ {x} \in Z /\ x \in s \ {c} /\ c \in s \ {x}
        BY <1>4, <2>1, <2>3
    <3>2. f[s \ {c}] = w[x] + f[(s \ {c}) \ {x}]
        BY <3>1
    <3>3. f[s \ {x}] = w[c] + f[(s \ {x}) \ {c}]
        BY <3>1
    <3>4. (s \ {c}) \ {x} = (s \ {x}) \ {c} /\ (s \ {c}) \ {x} \in SUBSET S
        OBVIOUS
    <3>5. f[(s \ {c}) \ {x}] \in Nat
        BY <3>1
    <3> DEFINE r == f[(s \ {c}) \ {x}]
    <3>6. w[x] \in Nat /\ w[c] \in Nat
        BY <2>1 DEF Weights
    <3>7. f[s] = w[c] + (w[x] + r) /\ f[s \ {x}] = w[c] + r /\ r \in Nat
        BY <2>1, <3>2, <3>3, <3>4, <3>5
    <3> HIDE DEF r
    <3> QED BY <3>6, <3>7
  <2>4. \A x \in s : f[s \ {x}] \in Nat
      BY <1>4
  <2> HIDE DEF c
  <2> QED BY <2>1, <2>2, <2>3, <2>4
<1>5. \A s \in SUBSET S : s \in Z
  <2> HIDE DEF Z
  <2> QED BY <1>3, <1>4, FiniteSubsets
<1> QED BY <1>2, <1>5

\* The sum of w over S.
Total(S, w) == (CHOOSE f : SumsBySet(S, w, f))[S]

\* The sum over a subset is the same whichever set it is computed in.
LEMMA SumsAgree ==
    ASSUME NEW S, IsFiniteSet(S), NEW w, NEW T \in SUBSET S, NEW v,
           \A x \in T : v[x] = w[x], NEW f, SumsBySet(S, w, f), NEW g, SumsBySet(T, v, g)
    PROVE  g[T] = f[T]
<1> DEFINE Z == {s \in SUBSET T : g[s] = f[s]}
<1>1. IsFiniteSet(T)
    BY FS_Subset
<1>2. \A s \in SUBSET S :
         f[s] = IF s = {} THEN 0
                ELSE w[CHOOSE x \in s : TRUE] + f[s \ {CHOOSE x \in s : TRUE}]
    BY DEF SumsBySet
<1>3. \A s \in SUBSET T :
         g[s] = IF s = {} THEN 0
                ELSE v[CHOOSE x \in s : TRUE] + g[s \ {CHOOSE x \in s : TRUE}]
    BY DEF SumsBySet
<1>4. {} \in Z
    BY <1>2, <1>3
<1>5. ASSUME NEW s \in SUBSET T, s # {}, \A x \in s : s \ {x} \in Z
      PROVE  s \in Z
  <2> DEFINE c == CHOOSE x \in s : TRUE
  <2>1. c \in s
      BY <1>5
  <2>2. f[s] = w[c] + f[s \ {c}] /\ g[s] = v[c] + g[s \ {c}]
      BY <1>2, <1>3, <1>5
  <2>3. v[c] = w[c] /\ g[s \ {c}] = f[s \ {c}]
      BY <1>5, <2>1
  <2> HIDE DEF c
  <2> QED BY <2>2, <2>3
<1>6. T \in Z
  <2> HIDE DEF Z
  <2> QED BY <1>1, <1>4, <1>5, FiniteSubsets
<1> QED BY <1>6

\* Any function that MapThenSumSet may use gives the total.
LEMMA TotalIs ==
    ASSUME NEW S, IsFiniteSet(S), NEW w, Weights(S, w)
    PROVE  /\ Total(S, w) \in Nat
           /\ \A f : SumsBySet(S, w, f) => f[S] = Total(S, w)
           /\ \A f : SumsBySet(S, w, f) => \A T \in SUBSET S : f[T] = Total(T, w)
<1>1. \A T \in SUBSET S : IsFiniteSet(T) /\ Weights(T, w)
    BY FS_Subset DEF Weights
<1>2. ASSUME NEW T \in SUBSET S
      PROVE  \E g : SumsBySet(T, w, g) /\ g[T] = Total(T, w)
  <2>1. \E g : SumsBySet(T, w, g)
      BY <1>1, SumExists
  <2> QED BY <2>1 DEF Total
<1>3. ASSUME NEW f, SumsBySet(S, w, f), NEW T \in SUBSET S PROVE f[T] = Total(T, w)
  <2>1. PICK g : SumsBySet(T, w, g) /\ g[T] = Total(T, w)
      BY <1>2
  <2>2. g[T] = f[T]
      BY <1>3, <2>1, SumsAgree
  <2> QED BY <2>1, <2>2
<1>4. Total(S, w) \in Nat
  <2>1. PICK g : SumsBySet(S, w, g) /\ g[S] = Total(S, w)
      BY <1>2
  <2>2. g[S] \in Nat
      BY <2>1, SumFacts
  <2> QED BY <2>1, <2>2
<1> QED BY <1>3, <1>4

LEMMA TotalSteps ==
    ASSUME NEW S, IsFiniteSet(S), NEW w, Weights(S, w)
    PROVE  /\ Total({}, w) = 0
           /\ Total(S, w) \in Nat
           /\ \A T \in SUBSET S : \A x \in T : Total(T, w) = w[x] + Total(T \ {x}, w)
<1>1. PICK f : SumsBySet(S, w, f)
    BY SumExists
<1>2. \A T \in SUBSET S : f[T] = Total(T, w)
    BY <1>1, TotalIs
<1>3. f[{}] = 0 /\ \A s \in SUBSET S : \A x \in s : f[s] = w[x] + f[s \ {x}]
    BY <1>1, SumFacts
<1>4. {} \in SUBSET S /\ \A T \in SUBSET S : \A x \in T : T \ {x} \in SUBSET S
    OBVIOUS
<1>5. Total(S, w) \in Nat
    BY TotalIs
<1>6. Total({}, w) = 0
    BY <1>2, <1>3, <1>4
<1> QED BY <1>2, <1>3, <1>4, <1>5, <1>6

\* A sum is that of a part and that of the rest.
LEMMA TotalSplits ==
    ASSUME NEW S, IsFiniteSet(S), NEW w, Weights(S, w), NEW T \in SUBSET S
    PROVE  /\ Total(T, w) \in Nat /\ Total(S \ T, w) \in Nat
           /\ Total(S, w) = Total(T, w) + Total(S \ T, w)
<1> DEFINE Z == {U \in SUBSET S : Total(S, w) = Total(U, w) + Total(S \ U, w)}
<1>1. \A U \in SUBSET S : IsFiniteSet(U) /\ Weights(U, w)
    BY FS_Subset DEF Weights
<1>2. \A U \in SUBSET S : Total(U, w) \in Nat
    BY <1>1, TotalIs
<1>3. Total({}, w) = 0 /\ \A U \in SUBSET S : \A x \in U : Total(U, w) = w[x] + Total(U \ {x}, w)
    BY TotalSteps
<1>4. {} \in Z
  <2>1. S \ {} = S /\ Total(S, w) \in Nat
      BY <1>2
  <2> QED BY <1>3, <2>1
<1>5. ASSUME NEW U \in SUBSET S, U # {}, \A x \in U : U \ {x} \in Z
      PROVE  U \in Z
  <2>1. PICK x \in U : TRUE
      BY <1>5
  <2>2. Total(S, w) = Total(U \ {x}, w) + Total(S \ (U \ {x}), w)
      BY <1>5
  <2>3. Total(U, w) = w[x] + Total(U \ {x}, w)
      BY <1>3
  <2>4. (S \ (U \ {x})) \ {x} = S \ U /\ x \in S \ (U \ {x}) /\ S \ (U \ {x}) \in SUBSET S
        /\ S \ U \in SUBSET S /\ U \ {x} \in SUBSET S
      OBVIOUS
  <2>5. Total(S \ (U \ {x}), w) = w[x] + Total(S \ U, w)
      BY <1>3, <2>4
  <2>6. w[x] \in Nat /\ Total(U \ {x}, w) \in Nat /\ Total(S \ U, w) \in Nat
      BY <1>2, <2>4 DEF Weights
  <2>7. Total(S, w) = Total(U, w) + Total(S \ U, w)
      BY <2>2, <2>3, <2>5, <2>6
  <2> QED BY <2>7
<1>6. T \in Z
  <2> HIDE DEF Z
  <2> QED BY <1>4, <1>5, FiniteSubsets
<1>7. S \ T \in SUBSET S
    OBVIOUS
<1> QED BY <1>2, <1>6, <1>7

\* D holds the images of the indices I, a different one of each.
OneToOne(I, h, D) ==
    /\ \A i, j \in I : h[i] = h[j] => i = j
    /\ \A i \in I : h[i] \in D
    /\ \A x \in D : \E i \in I : x = h[i]

\* Summing over the images of different indices is summing over the indices.
LEMMA TotalOfImages ==
    ASSUME NEW I, IsFiniteSet(I), NEW h, NEW D, OneToOne(I, h, D),
           NEW w, Weights(D, w), NEW v, \A i \in I : v[i] = w[h[i]]
    PROVE  Total(I, v) = Total(D, w)
<1> USE DEF OneToOne
<1> DEFINE Z == {J \in SUBSET I : Total(J, v) = Total({h[i] : i \in J}, w)}
<1>1. IsFiniteSet(D)
  <2>1. [i \in I |-> h[i]] \in Surjection(I, D)
      BY DEF Surjection
  <2> QED BY <2>1, FS_Surjection
<1>2. Weights(I, v)
    BY DEF Weights
<1>3. /\ Total({}, v) = 0 /\ Total({}, w) = 0
      /\ \A J \in SUBSET I : \A i \in J : Total(J, v) = v[i] + Total(J \ {i}, v)
      /\ \A U \in SUBSET D : \A x \in U : Total(U, w) = w[x] + Total(U \ {x}, w)
  <2>1. /\ Total({}, v) = 0
        /\ \A J \in SUBSET I : \A i \in J : Total(J, v) = v[i] + Total(J \ {i}, v)
      BY <1>2, TotalSteps
  <2>2. /\ Total({}, w) = 0
        /\ \A U \in SUBSET D : \A x \in U : Total(U, w) = w[x] + Total(U \ {x}, w)
      BY <1>1, TotalSteps
  <2> QED BY <2>1, <2>2
<1>5. {} \in Z
  <2>1. {h[i] : i \in {}} = {}
      OBVIOUS
  <2> QED BY <1>3, <2>1
<1>6. ASSUME NEW J \in SUBSET I, J # {}, \A i \in J : J \ {i} \in Z
      PROVE  J \in Z
  <2>1. PICK i \in J : TRUE
      BY <1>6
  <2>2. Total(J \ {i}, v) = Total({h[k] : k \in J \ {i}}, w)
      BY <1>6
  <2>3. {h[k] : k \in J} \ {h[i]} = {h[k] : k \in J \ {i}}
      OBVIOUS
  <2>4. {h[k] : k \in J} \in SUBSET D /\ h[i] \in {h[k] : k \in J}
      OBVIOUS
  <2>5. Total({h[k] : k \in J}, w) = w[h[i]] + Total({h[k] : k \in J \ {i}}, w)
      BY <1>3, <2>3, <2>4
  <2>6. Total(J, v) = w[h[i]] + Total(J \ {i}, v)
      BY <1>3
  <2> QED BY <2>2, <2>5, <2>6
<1>7. I \in Z
  <2>1. IsFiniteSet(I) /\ I \in SUBSET I
      OBVIOUS
  <2> HIDE DEF Z
  <2> QED BY ONLY <1>5, <1>6, <2>1, FiniteSubsets
<1>8. {h[i] : i \in I} = D
    OBVIOUS
<1> QED BY <1>7, <1>8

-----------------------------------------------------------------------------
(* What blocks take on disk *)

SizeIn(dk, dir) == Cardinality(UNION (IF dir \in DOMAIN dk THEN dk[dir] ELSE NoFiles).data)

DirsSum(dk, D) == MapThenSumSet(LAMBDA dir : SizeIn(dk, dir), D)

PlacesSum(dk, bs) == MapThenSumSet(LAMBDA i : SizeIn(dk, bs[i].dir), DOMAIN bs)

LEMMA SizesIn ==
    /\ \A D : MapThenSumSet(blockDiskSize, D) = DirsSum(disk, D)
    /\ \A D : MapThenSumSet(blockDiskSize, D)' = DirsSum(disk', D)
    /\ \A bs, k : SizeAfter(bs, k) = PlacesSum(disk, bs) - DirsSum(disk, {bs[i].dir : i \in 1 .. k})
BY DEF MapThenSumSet, MapThenFoldSet, blockDiskSize, FilesOf, DirsSum, PlacesSum, SizeIn, SizeAfter

LEMMA DirsSumChosen ==
    ASSUME NEW dk, NEW D
    PROVE  DirsSum(dk, D) =
             (CHOOSE f : f = [s \in SUBSET D |->
                IF s = {} THEN 0
                ELSE SizeIn(dk, CHOOSE x \in s : TRUE) + f[s \ {CHOOSE x \in s : TRUE}]])[D]
BY DEF DirsSum, MapThenSumSet, MapThenFoldSet

LEMMA PlacesSumChosen ==
    ASSUME NEW dk, NEW bs
    PROVE  PlacesSum(dk, bs) =
             (CHOOSE f : f = [s \in SUBSET DOMAIN bs |->
                IF s = {} THEN 0
                ELSE SizeIn(dk, bs[CHOOSE x \in s : TRUE].dir)
                       + f[s \ {CHOOSE x \in s : TRUE}]])[DOMAIN bs]
BY DEF PlacesSum, MapThenSumSet, MapThenFoldSet

LEMMA DirsSumIs ==
    ASSUME NEW dk, NEW D, IsFiniteSet(D), NEW w, \A d \in D : w[d] = SizeIn(dk, d) /\ w[d] \in Nat
    PROVE  DirsSum(dk, D) = Total(D, w)
<1> DEFINE Q(f) == f = [s \in SUBSET D |->
                          IF s = {} THEN 0
                          ELSE SizeIn(dk, CHOOSE x \in s : TRUE) + f[s \ {CHOOSE x \in s : TRUE}]]
<1>1. ASSUME NEW f PROVE Q(f) <=> SumsBySet(D, w, f)
  <2>1. \A s \in SUBSET D : s # {} => w[CHOOSE x \in s : TRUE] = SizeIn(dk, CHOOSE x \in s : TRUE)
    <3>1. \A s \in SUBSET D : s # {} => (CHOOSE x \in s : TRUE) \in D
        OBVIOUS
    <3> QED BY <3>1
  <2>2. \A s \in SUBSET D :
           (IF s = {} THEN 0
            ELSE SizeIn(dk, CHOOSE x \in s : TRUE) + f[s \ {CHOOSE x \in s : TRUE}])
         = (IF s = {} THEN 0
            ELSE w[CHOOSE x \in s : TRUE] + f[s \ {CHOOSE x \in s : TRUE}])
      BY <2>1
  <2> QED BY <2>2 DEF SumsBySet
<1>2. Weights(D, w)
    BY DEF Weights
<1>3. \E f : Q(f)
  <2>1. PICK f : SumsBySet(D, w, f)
      BY <1>2, SumExists
  <2> HIDE DEF Q
  <2> QED BY <1>1, <2>1
<1> DEFINE f == CHOOSE f : Q(f)
<1>4. Q(f)
  <2> HIDE DEF Q
  <2> QED BY <1>3
<1>5. DirsSum(dk, D) = f[D]
    BY DirsSumChosen
<1> HIDE DEF f, Q
<1>6. SumsBySet(D, w, f)
    BY <1>1, <1>4
<1> QED BY <1>2, <1>5, <1>6, TotalIs

LEMMA PlacesSumIs ==
    ASSUME NEW dk, NEW bs, IsFiniteSet(DOMAIN bs), NEW w,
           \A i \in DOMAIN bs : w[i] = SizeIn(dk, bs[i].dir) /\ w[i] \in Nat
    PROVE  PlacesSum(dk, bs) = Total(DOMAIN bs, w)
<1> DEFINE Q(f) == f = [s \in SUBSET DOMAIN bs |->
                          IF s = {} THEN 0
                          ELSE SizeIn(dk, bs[CHOOSE x \in s : TRUE].dir)
                                 + f[s \ {CHOOSE x \in s : TRUE}]]
<1>1. ASSUME NEW f PROVE Q(f) <=> SumsBySet(DOMAIN bs, w, f)
  <2>1. \A s \in SUBSET DOMAIN bs :
           s # {} => w[CHOOSE x \in s : TRUE] = SizeIn(dk, bs[CHOOSE x \in s : TRUE].dir)
    <3>1. \A s \in SUBSET DOMAIN bs : s # {} => (CHOOSE x \in s : TRUE) \in DOMAIN bs
        OBVIOUS
    <3> QED BY <3>1
  <2>2. \A s \in SUBSET DOMAIN bs :
           (IF s = {} THEN 0
            ELSE SizeIn(dk, bs[CHOOSE x \in s : TRUE].dir) + f[s \ {CHOOSE x \in s : TRUE}])
         = (IF s = {} THEN 0
            ELSE w[CHOOSE x \in s : TRUE] + f[s \ {CHOOSE x \in s : TRUE}])
      BY <2>1
  <2> QED BY <2>2 DEF SumsBySet
<1>2. Weights(DOMAIN bs, w)
    BY DEF Weights
<1>3. \E f : Q(f)
  <2>1. PICK f : SumsBySet(DOMAIN bs, w, f)
      BY <1>2, SumExists
  <2> HIDE DEF Q
  <2> QED BY <1>1, <2>1
<1> DEFINE f == CHOOSE f : Q(f)
<1>4. Q(f)
  <2> HIDE DEF Q
  <2> QED BY <1>3
<1>5. PlacesSum(dk, bs) = f[DOMAIN bs]
    BY PlacesSumChosen
<1> HIDE DEF f, Q
<1>6. SumsBySet(DOMAIN bs, w, f)
    BY <1>1, <1>4
<1> QED BY <1>2, <1>5, <1>6, TotalIs

-----------------------------------------------------------------------------
(***************************************************************************)
(* The limit on the size of the blocks, for a store that starts on the     *)
(* blocks Flushed, through all the compactions it goes through.            *)
(***************************************************************************)

\* What is stored is finite.
FiniteDataIn(dk) == \A d \in DOMAIN dk : \A x \in dk[d].data : IsFiniteSet(x)

LEMMA SizeInNat ==
    ASSUME NEW dk, DiskOKIn(dk), FiniteDataIn(dk), NEW d
    PROVE  SizeIn(dk, d) \in Nat
<1> DEFINE data == (IF d \in DOMAIN dk THEN dk[d] ELSE NoFiles).data
<1>1. (\A x, y \in data : x = y) /\ \A x \in data : IsFiniteSet(x)
  <2>1. CASE d \in DOMAIN dk
      BY <2>1 DEF DiskOKIn, OneFile, FiniteDataIn
  <2>2. CASE d \notin DOMAIN dk
    <3>1. data = {}
        BY <2>2 DEF NoFiles
    <3> HIDE DEF data
    <3> QED BY <3>1
  <2> QED BY <2>1, <2>2
<1> HIDE DEF data
<1>2. CASE data = {}
  <2>1. UNION data = {}
      BY <1>2
  <2> QED BY <2>1, FS_EmptySet DEF SizeIn, data
<1>3. CASE data # {}
  <2>1. PICK x \in data : TRUE
      BY <1>3
  <2>2. UNION data = x /\ IsFiniteSet(x)
      BY <1>1, <2>1
  <2>3. Cardinality(UNION data) \in Nat
      BY <2>2, FS_CardinalityType
  <2> QED BY <2>3 DEF SizeIn, data
<1> QED BY <1>2, <1>3

DirsFrom(bs, i, j) == {bs[l].dir : l \in i .. j}

\* SizeAfter is what the younger blocks take.
LEMMA SizeAfterIs ==
    ASSUME DiskOKIn(disk), FiniteDataIn(disk), NEW bs \in Seq(Block), NEW k \in 0 .. Len(bs),
           \A i, j \in 1 .. Len(bs) : bs[i].dir = bs[j].dir => i = j
    PROVE  /\ SizeAfter(bs, k) = DirsSum(disk, DirsFrom(bs, k + 1, Len(bs)))
           /\ DirsSum(disk, DirsFrom(bs, k + 1, Len(bs))) \in Nat
<1> DEFINE n == Len(bs)
           D == DirsFrom(bs, 1, n)
           E == DirsFrom(bs, 1, k)
           F == DirsFrom(bs, k + 1, n)
           w == [d \in D |-> SizeIn(disk, d)]
           h == [i \in 1 .. n |-> bs[i].dir]
<1>0. n \in Nat /\ DOMAIN bs = 1 .. n /\ IsFiniteSet(1 .. n)
    BY FS_Interval
<1>1. \A i \in 1 .. n : h[i] = bs[i].dir
    OBVIOUS
<1>2. {h[i] : i \in 1 .. n} = D
    BY <1>1 DEF DirsFrom
<1>3. \A i, j \in 1 .. n : h[i] = h[j] => i = j
    BY <1>1
<1>4. \A d : SizeIn(disk, d) \in Nat
    BY SizeInNat
<1>5. \A d \in D : w[d] = SizeIn(disk, d) /\ w[d] \in Nat
    BY <1>4
<1>6. IsFiniteSet(D)
  <2>1. [i \in 1 .. n |-> bs[i].dir] \in Surjection(1 .. n, D)
      BY DEF Surjection, DirsFrom
  <2> QED BY <1>0, <2>1, FS_Surjection
<1>7. E \in SUBSET D /\ F \in SUBSET D /\ D \ E = F
  <2>1. \A i \in 1 .. n : i \in 1 .. k \/ i \in k + 1 .. n
      OBVIOUS
  <2>2. \A i \in 1 .. k : i \in 1 .. n
      OBVIOUS
  <2>3. \A i \in k + 1 .. n : i \in 1 .. n /\ i \notin 1 .. k
      OBVIOUS
  <2>4. \A i \in 1 .. k, j \in k + 1 .. n : bs[i].dir # bs[j].dir
      BY <2>2, <2>3
  <2> HIDE DEF n, w, h
  <2> QED BY <2>1, <2>2, <2>3, <2>4 DEF DirsFrom
<1> HIDE DEF D, E, F, w
<1>8. IsFiniteSet(E) /\ IsFiniteSet(F)
    BY <1>6, <1>7, FS_Subset
<1>9. DirsSum(disk, E) = Total(E, w) /\ DirsSum(disk, F) = Total(F, w)
    BY <1>5, <1>7, <1>8, DirsSumIs
<1>10. PlacesSum(disk, bs) = Total(D, w)
  <2> DEFINE v == [i \in 1 .. n |-> w[h[i]]]
  <2>1. \A i \in 1 .. n : h[i] \in D
      BY <1>2
  <2>2. \A i \in 1 .. n : w[h[i]] \in Nat /\ w[h[i]] = SizeIn(disk, bs[i].dir)
      BY <1>1, <1>5, <2>1
  <2> HIDE DEF h, n
  <2>3. Total(1 .. n, v) = Total(D, w)
    <3>1. OneToOne(1 .. n, h, D)
        BY <1>2, <1>3 DEF OneToOne
    <3>2. Weights(D, w)
        BY <1>5 DEF Weights
    <3>3. \A i \in 1 .. n : v[i] = w[h[i]]
        OBVIOUS
    <3> HIDE DEF v
    <3>4. IsFiniteSet(1 .. n)
        BY <1>0
    <3> DEFINE P == 1 .. n
    <3>5. IsFiniteSet(P) /\ OneToOne(P, h, D) /\ \A i \in P : v[i] = w[h[i]]
        BY <3>1, <3>3, <3>4
    <3> HIDE DEF P
    <3>6. Total(P, v) = Total(D, w)
        BY ONLY <3>2, <3>5, TotalOfImages
    <3> QED BY <3>6 DEF P
  <2>4. \A i \in DOMAIN bs : v[i] = SizeIn(disk, bs[i].dir) /\ v[i] \in Nat
      BY <1>0, <2>2
  <2> HIDE DEF v
  <2>5. PlacesSum(disk, bs) = Total(1 .. n, v)
      BY <1>0, <2>4, PlacesSumIs
  <2> QED BY <2>3, <2>5
<1>11. Total(D, w) = Total(E, w) + Total(F, w) /\ Total(E, w) \in Nat /\ Total(F, w) \in Nat
  <2>1. Weights(D, w)
      BY <1>5 DEF Weights
  <2> QED BY <1>6, <1>7, <2>1, TotalSplits
<1>12. SizeAfter(bs, k) = PlacesSum(disk, bs) - DirsSum(disk, E)
    BY SizesIn DEF E, DirsFrom
<1> QED BY <1>9, <1>10, <1>11, <1>12 DEF F

\* With the blocks sorted by their first time, in distinct directories.
Sorted(bs) ==
    \A i, j \in 1 .. Len(bs) : i < j => bs[i].dir # bs[j].dir /\ bs[i].mint =< bs[j].mint

SizeInv ==
    /\ TypeInv
    /\ job["flush"].pc = "idle"
    /\ FiniteDataIn(disk)
    /\ \A b \in Elems(blocks) : IsFiniteSet(b.data)
    /\ IsFiniteSet(job["compact"].blk.data)
    /\ Sorted(blocks)

\* What retention keeps and drops is sorted too.
LEMMA KeptSorted ==
    ASSUME NEW bs \in Seq(Block), Sorted(bs), NEW I \in SUBSET (1 .. Len(bs)), NEW kept \in InOrder(bs, I)
    PROVE  kept \in Seq(Block) /\ Sorted(kept) /\ Elems(kept) = {bs[i] : i \in I}
<1>0. bs \in Seq(Block) /\ I \in SUBSET (1 .. Len(bs)) /\ kept \in InOrder(bs, I)
    OBVIOUS
<1>1. kept \in Seq(Block) /\ Elems(kept) = {bs[i] : i \in I}
    BY ONLY <1>0, InOrderFacts
<1>2. PICK at \in [1 .. Len(kept) -> I] :
            /\ \A j \in 1 .. Len(kept) : kept[j] = bs[at[j]]
            /\ \A i, j \in 1 .. Len(kept) : i < j => at[i] < at[j]
    BY ONLY <1>0, InOrderFacts
<1>3. \A j \in 1 .. Len(kept) : at[j] \in 1 .. Len(bs)
    OBVIOUS
<1> QED BY <1>1, <1>2, <1>3 DEF Sorted

LEMMA SortedDistinct ==
    ASSUME NEW bs \in Seq(Block), Sorted(bs)
    PROVE  \A i, j \in 1 .. Len(bs) : bs[i].dir = bs[j].dir => i = j
BY DEF Sorted

LEMMA ElemsOfSuffix ==
    ASSUME NEW S, NEW s \in Seq(S), NEW k \in 0 .. Len(s)
    PROVE  Elems(SubSeq(s, k + 1, Len(s))) = {s[i] : i \in k + 1 .. Len(s)}
<1> DEFINE u == SubSeq(s, k + 1, Len(s))
<1>1. Len(u) = Len(s) - k /\ \A j \in 1 .. Len(s) - k : u[j] = s[j + k]
    OBVIOUS
<1> HIDE DEF u
<1>2. ASSUME NEW x \in Elems(u) PROVE x \in {s[i] : i \in k + 1 .. Len(s)}
  <2>1. PICK j \in 1 .. Len(s) - k : x = u[j]
      BY <1>1 DEF Elems
  <2>2. j + k \in k + 1 .. Len(s) /\ x = s[j + k]
      BY <1>1, <2>1
  <2> QED BY <2>2
<1>3. ASSUME NEW i \in k + 1 .. Len(s) PROVE s[i] \in Elems(u)
  <2>1. i - k \in 1 .. Len(s) - k /\ (i - k) + k = i
      OBVIOUS
  <2>2. s[i] = u[i - k]
      BY <1>1, <2>1
  <2> QED BY <1>1, <2>1, <2>2 DEF Elems
<1> QED BY <1>2, <1>3 DEF u

LEMMA RemovedOthers ==
    ASSUME DiskOK, NEW X, RemoveAll(X), NEW d, d \notin X
    PROVE  SizeIn(disk', d) = SizeIn(disk, d)
<1>1. DOMAIN disk' = DOMAIN disk /\ \A y \in DOMAIN disk : y \notin X => disk'[y] = disk[y]
    BY RemoveAllOK
<1>2. CASE d \in DOMAIN disk
  <2>1. d \in DOMAIN disk' /\ disk'[d] = disk[d]
      BY <1>1, <1>2
  <2> QED BY ONLY <1>2, <2>1 DEF SizeIn
<1>3. CASE d \notin DOMAIN disk
  <2>1. d \notin DOMAIN disk'
      BY <1>1, <1>3
  <2> QED BY ONLY <1>3, <2>1 DEF SizeIn
<1> QED BY <1>2, <1>3

\* applyRetention keeps the limit, and does no more than that takes.
LEMMA RetentionTight ==
    ASSUME SizeInv, ApplyRetention
    PROVE  /\ RetentionMaxSize > 0 => DiskSize(Elems(blocks))' =< RetentionMaxSize
           /\ \A b \in Elems(blocks) \ Elems(blocks') :
                 ~ Expired(b) =>
                    /\ RetentionMaxSize > 0
                    /\ DiskSize({x \in Elems(blocks) : ~ Expired(x) /\ x.mint >= b.mint})
                          > RetentionMaxSize
<1> DEFINE I == {i \in DOMAIN blocks : ~ Expired(blocks[i])}
<1>0. /\ blocks \in Seq(Block) /\ Sorted(blocks) /\ DOMAIN blocks = 1 .. Len(blocks)
      /\ DiskOKIn(disk) /\ FiniteDataIn(disk) /\ RetentionMaxSize \in Int
    BY OpenableIn, FSStoreAssumption DEF SizeInv, TypeInv
<1> DEFINE Retains(kept, k) ==
              /\ Oversize(kept, k)
              /\ blocks' = SubSeq(kept, k + 1, Len(kept))
              /\ RemoveAll({b.dir : b \in {b \in Elems(blocks) : Expired(b)}}
                              \cup {kept[i].dir : i \in 1 .. k})
<1>1a. PICK kept \in InOrder(blocks, I) : \E k \in 0 .. Len(kept) : Retains(kept, k)
    BY DEF ApplyRetention
<1>1. PICK k \in 0 .. Len(kept) : Retains(kept, k)
    BY <1>1a
<1>2. kept \in Seq(Block) /\ Sorted(kept) /\ Elems(kept) = {blocks[i] : i \in I}
  <2>1. I \in SUBSET (1 .. Len(blocks))
      BY <1>0
  <2> HIDE DEF I
  <2> QED BY <1>0, <2>1, KeptSorted
<1> DEFINE n == Len(kept)
           R == DirsFrom(kept, k + 1, n)
<1>3. n \in Nat /\ k \in Nat /\ k =< n /\ \A i, j \in 1 .. n : kept[i].dir = kept[j].dir => i = j
    BY <1>2, SortedDistinct
<1>4. ASSUME NEW j \in 0 .. n
      PROVE  /\ SizeAfter(kept, j) = DirsSum(disk, DirsFrom(kept, j + 1, n))
             /\ DirsSum(disk, DirsFrom(kept, j + 1, n)) \in Nat
    BY <1>0, <1>2, <1>3, SizeAfterIs
<1>5. Elems(blocks') = {kept[i] : i \in k + 1 .. n}
    BY <1>1, <1>2, ElemsOfSuffix
<1>6. RetentionMaxSize > 0 => DiskSize(Elems(blocks))' =< RetentionMaxSize
  <2> SUFFICES ASSUME RetentionMaxSize > 0 PROVE DiskSize(Elems(blocks))' =< RetentionMaxSize
      OBVIOUS
  <2>1. DiskSize(Elems(blocks))' = DirsSum(disk', R)
    <3>1. {b.dir : b \in Elems(blocks)}' = R
        BY <1>5 DEF DirsFrom, Elems
    <3>2. DiskSize(Elems(blocks))' = DirsSum(disk', {b.dir : b \in Elems(blocks)}')
        BY SizesIn DEF DiskSize
    <3> QED BY <3>1, <3>2
  <2>2. \A d \in R : SizeIn(disk', d) = SizeIn(disk, d)
    <3>1. ASSUME NEW i \in k + 1 .. n
          PROVE  /\ kept[i].dir \notin {b.dir : b \in {b \in Elems(blocks) : Expired(b)}}
                 /\ kept[i].dir \notin {kept[j].dir : j \in 1 .. k}
      <4>1. i \in 1 .. n /\ i \notin 1 .. k /\ \A j \in 1 .. k : j \in 1 .. n
          BY <1>3
      <4>2. kept[i].dir \notin {kept[j].dir : j \in 1 .. k}
          BY <1>3, <4>1
      <4>3. PICK a \in I : kept[i] = blocks[a]
        <5>1. kept[i] \in Elems(kept)
            BY <4>1 DEF Elems
        <5> QED BY <1>2, <5>1
      <4>4. a \in 1 .. Len(blocks) /\ ~ Expired(blocks[a])
          BY <1>0
      <4>5. ASSUME NEW b \in Elems(blocks), Expired(b), kept[i].dir = b.dir PROVE FALSE
        <5>1. PICK c \in 1 .. Len(blocks) : b = blocks[c]
            BY DEF Elems
        <5>2. a = c
            BY <1>0, <4>3, <4>4, <4>5, <5>1, SortedDistinct
        <5> QED BY <4>4, <4>5, <5>1, <5>2
      <4> QED BY <4>2, <4>5
    <3>2. ASSUME NEW d \in R PROVE SizeIn(disk', d) = SizeIn(disk, d)
      <4>1. d \notin {b.dir : b \in {b \in Elems(blocks) : Expired(b)}} \cup {kept[j].dir : j \in 1 .. k}
          BY <3>1 DEF DirsFrom
      <4> HIDE DEF R
      <4>2. DiskOK
          BY DEF SizeInv, TypeInv
      <4> QED BY <1>1, <4>1, <4>2, RemovedOthers
    <3> QED BY <3>2
  <2>3. DirsSum(disk', R) = DirsSum(disk, R)
    <3> DEFINE w == [d \in R |-> SizeIn(disk, d)]
    <3>1. \A d : SizeIn(disk, d) \in Nat
        BY <1>0, SizeInNat
    <3>2. IsFiniteSet(R)
      <4>1. [i \in k + 1 .. n |-> kept[i].dir] \in Surjection(k + 1 .. n, R)
          BY DEF Surjection, DirsFrom
      <4>2. IsFiniteSet(k + 1 .. n)
          BY <1>3, FS_Interval
      <4> HIDE DEF R
      <4> QED BY <4>1, <4>2, FS_Surjection
    <3> HIDE DEF R
    <3>3. \A d \in R : w[d] = SizeIn(disk, d) /\ w[d] = SizeIn(disk', d) /\ w[d] \in Nat
        BY <2>2, <3>1
    <3> HIDE DEF w
    <3>4. DirsSum(disk, R) = Total(R, w)
        BY <3>2, <3>3, DirsSumIs
    <3>5. DirsSum(disk', R) = Total(R, w)
        BY <3>2, <3>3, DirsSumIs
    <3> QED BY <3>4, <3>5
  <2>4. CASE k < n
    <3>1. SizeAfter(kept, k) =< RetentionMaxSize
        BY <1>1, <2>4 DEF Oversize
    <3>2. SizeAfter(kept, k) = DirsSum(disk, R)
        BY <1>3, <1>4
    <3> QED BY <2>1, <2>3, <3>1, <3>2
  <2>5. CASE k = n
    <3>1. R = {}
        BY <1>3, <2>5 DEF DirsFrom
    <3>2. DirsSum(disk, R) = Total({}, [d \in {} |-> 0])
        BY <3>1, FS_EmptySet, DirsSumIs
    <3>3. Total({}, [d \in {} |-> 0]) = 0
        BY FS_EmptySet, TotalSteps DEF Weights
    <3> QED BY <1>0, <2>1, <2>3, <3>2, <3>3
  <2> QED BY <1>3, <2>4, <2>5
<1>7. ASSUME NEW b \in Elems(blocks) \ Elems(blocks'), ~ Expired(b)
      PROVE  /\ RetentionMaxSize > 0
             /\ DiskSize({x \in Elems(blocks) : ~ Expired(x) /\ x.mint >= b.mint}) > RetentionMaxSize
  <2> DEFINE U == {x \in Elems(blocks) : ~ Expired(x) /\ x.mint >= b.mint}
             UD == {x.dir : x \in U}
  <2>1. PICK j \in 1 .. n : kept[j] = b
    <3>1. PICK i \in 1 .. Len(blocks) : b = blocks[i]
        BY DEF Elems
    <3>2. b \in Elems(kept)
        BY <1>0, <1>2, <1>7, <3>1
    <3> QED BY <3>2 DEF Elems
  <2>2. j =< k
    <3>1. j \notin k + 1 .. n
        BY <1>5, <1>7, <2>1
    <3> QED BY <1>3, <3>1
  <2>3. RetentionMaxSize > 0
      BY <1>0, <1>1, <1>3, <2>1, <2>2 DEF Oversize
  <2>4. SizeAfter(kept, j - 1) > RetentionMaxSize
    <3>1. j - 1 \in 0 .. k - 1
        BY <1>3, <2>1, <2>2
    <3> QED BY <1>1, <2>3, <3>1 DEF Oversize
  <2> DEFINE F == DirsFrom(kept, j, n)
  <2>5. SizeAfter(kept, j - 1) = DirsSum(disk, F) /\ DirsSum(disk, F) \in Nat
    <3>1. j - 1 \in 0 .. n /\ (j - 1) + 1 = j
        BY <1>3, <2>1
    <3> QED BY <1>4, <3>1
  <2>6. F \in SUBSET UD
    <3>1. ASSUME NEW i \in j .. n PROVE kept[i] \in U
      <4>1. i \in 1 .. n /\ (i = j \/ j < i) /\ kept[i] \in Block /\ b \in Block
          BY <1>2, <1>3, <2>1
      <4>2. kept[i].mint >= b.mint
          BY <1>2, <2>1, <4>1 DEF Sorted, Block
      <4>3. kept[i] \in Elems(kept)
          BY <4>1 DEF Elems
      <4>4. kept[i] \in Elems(blocks) /\ ~ Expired(kept[i])
          BY <1>0, <1>2, <4>3 DEF Elems
      <4> QED BY <4>2, <4>4
    <3> HIDE DEF U
    <3> QED BY <3>1 DEF DirsFrom
  <2>7. IsFiniteSet(UD)
    <3>1. IsFiniteSet(Elems(blocks)) /\ U \in SUBSET Elems(blocks)
        BY <1>0, FiniteElems
    <3>2. IsFiniteSet(U)
        BY <3>1, FS_Subset
    <3>3. [x \in U |-> x.dir] \in Surjection(U, UD)
        BY DEF Surjection
    <3> HIDE DEF U
    <3> QED BY <3>2, <3>3, FS_Surjection
  <2>8. DiskSize(U) = DirsSum(disk, UD)
      BY SizesIn DEF DiskSize
  <2> HIDE DEF U, UD, F
  <2>9. DirsSum(disk, F) =< DirsSum(disk, UD) /\ DirsSum(disk, UD) \in Nat
    <3> DEFINE w == [d \in UD |-> SizeIn(disk, d)]
    <3>1. \A d : SizeIn(disk, d) \in Nat
        BY <1>0, SizeInNat
    <3>2. \A d \in UD : w[d] = SizeIn(disk, d) /\ w[d] \in Nat
        BY <3>1
    <3>3. IsFiniteSet(F) /\ \A d \in F : w[d] = SizeIn(disk, d) /\ w[d] \in Nat
        BY <2>6, <2>7, <3>2, FS_Subset
    <3> HIDE DEF w
    <3>4. DirsSum(disk, UD) = Total(UD, w)
        BY <2>7, <3>2, DirsSumIs
    <3>5. DirsSum(disk, F) = Total(F, w)
        BY <3>3, DirsSumIs
    <3>6. /\ Total(F, w) \in Nat /\ Total(UD \ F, w) \in Nat
          /\ Total(UD, w) = Total(F, w) + Total(UD \ F, w)
        BY <2>6, <2>7, <3>2, TotalSplits DEF Weights
    <3> QED BY <3>4, <3>5, <3>6
  <2>10. DiskSize(U) > RetentionMaxSize
      BY <1>0, <2>4, <2>5, <2>8, <2>9
  <2> QED BY <2>3, <2>10 DEF U
<1> QED BY <1>6, <1>7

LEMMA FlushedInitSizeInv == FlushedInit => SizeInv
<1> SUFFICES ASSUME FlushedInit PROVE SizeInv
    OBVIOUS
<1>1. TypeInv /\ job["flush"].pc = "idle"
    BY FlushedInitCompactInv DEF CompactInv
<1>2. FiniteDataIn(disk)
  <2>1. ASSUME NEW d \in {b.dir : b \in Flushed}, NEW x \in disk[d].data PROVE IsFiniteSet(x)
    <3>1. disk[d].data = {b.data : b \in {y \in Flushed : y.dir = d}}
        BY DEF FlushedInit
    <3> QED BY <2>1, <3>1, FlushedAssumption
  <2> QED BY <2>1 DEF FlushedInit, FiniteDataIn
<1>3. blocks = << >> /\ IsFiniteSet(job["compact"].blk.data)
    BY FS_EmptySet DEF FlushedInit, IdleJobs, NoBlock, Writer
<1> QED BY <1>1, <1>2, <1>3 DEF SizeInv, Sorted, Elems

\* openBlocks sorts the blocks.
LEMMA StartSizeInv ==
    ASSUME SizeInv, TypeInv', NewFSStore
    PROVE  SizeInv'
<1> USE DEF SizeInv
<1>0. DiskOK /\ disk' = disk /\ job' = job /\ DiskOKIn(disk)
    BY OpenableIn DEF TypeInv, NewFSStore, blockVars
<1>1. /\ blocks' \in Seq(Block) /\ Elems(blocks') = OpenableBlocks
      /\ \A i, j \in DOMAIN blocks' : i < j => blocks'[i] # blocks'[j] /\ blocks'[i].mint =< blocks'[j].mint
  <2>1. PICK bs \in [1 .. Cardinality(OpenableBlocks) -> OpenableBlocks] : openBlocks(bs) /\ blocks' = bs
      BY DEF NewFSStore
  <2> QED BY <1>0, <2>1, openBlocksFacts DEF openBlocks
<1>2. \A b \in Elems(blocks') : OpenIn(disk, b)
    BY <1>0, <1>1, OpenableIn, OpenMember
<1>3. \A b \in Elems(blocks') : IsFiniteSet(b.data)
    BY <1>2 DEF OpenIn, FiniteDataIn
<1>4. ASSUME NEW i \in 1 .. Len(blocks'), NEW j \in 1 .. Len(blocks'), i < j
      PROVE  blocks'[i].dir # blocks'[j].dir /\ blocks'[i].mint =< blocks'[j].mint
  <2>1. i \in DOMAIN blocks' /\ j \in DOMAIN blocks'
      BY <1>1
  <2>2. OpenIn(disk, blocks'[i]) /\ OpenIn(disk, blocks'[j])
      BY <1>2 DEF Elems
  <2> QED BY <1>0, <1>1, <1>4, <2>1, <2>2, OpenUnique
<1>5. Sorted(blocks')
    BY <1>4 DEF Sorted
<1>6. \A b \in Elems(blocks)' : IsFiniteSet(b.data)
    BY <1>3 DEF Elems
<1> QED BY <1>0, <1>5, <1>6

\* A merge of finitely many finite blocks is finite.
LEMMA CompactStartSizeInv ==
    ASSUME SizeInv, TypeInv', CompactStart
    PROVE  SizeInv'
<1> USE DEF SizeInv
<1>1. /\ job'["flush"] = job["flush"]
      /\ job'["compact"].blk.data \subseteq UNION {x.data : x \in Elems(blocks)}
    BY CompactStartType
<1>2. IsFiniteSet(UNION {x.data : x \in Elems(blocks)})
  <2> DEFINE E == Elems(blocks)
             U == {x.data : x \in E}
  <2>1. IsFiniteSet(E)
      BY FiniteElems DEF TypeInv
  <2>2. [x \in E |-> x.data] \in Surjection(E, U)
      BY DEF Surjection
  <2>3. \A T \in U : IsFiniteSet(T)
      OBVIOUS
  <2> HIDE DEF E, U
  <2>4. IsFiniteSet(U)
      BY <2>1, <2>2, FS_Surjection
  <2>5. IsFiniteSet(UNION U)
      BY <2>3, <2>4, FS_UNION
  <2> QED BY <2>5 DEF E, U
<1>3. IsFiniteSet(job'["compact"].blk.data)
    BY <1>1, <1>2, FS_Subset
<1>4. disk' = disk /\ blocks' = blocks
    BY DEF CompactStart, storeVars
<1> QED BY <1>1, <1>3, <1>4 DEF Elems

LEMMA CompactWriteSizeInv ==
    ASSUME SizeInv, TypeInv', CompactWrite
    PROVE  SizeInv'
<1> USE DEF SizeInv
<1> DEFINE B == job["compact"].blk
<1>0. /\ "compact" \in Writer /\ writeBlock("compact") /\ blocks' = blocks
      /\ DiskOK /\ job \in [Writer -> JobRec]
    BY DEF Writer, CompactWrite, storeVars, TypeInv
<1>1. CASE WriteFails("compact")
  <2>1. disk' = disk /\ job'["flush"] = job["flush"] /\ job'["compact"].blk = B
      BY <1>0, <1>1 DEF WriteFails, Writer, JobRec
  <2> QED BY <1>0, <2>1 DEF Elems
<1>2. CASE \E fs : WriteStepOf("compact", fs) /\ SetFiles(B.dir, fs)
  <2>1. PICK fs : WriteStepOf("compact", fs) /\ SetFiles(B.dir, fs)
      BY <1>2
  <2>2. /\ fs \in FileRec /\ OneFile(fs) /\ B.dir \in Dir
        /\ job'["compact"].blk = B /\ job'["flush"].pc = job["flush"].pc
      BY <1>0, <2>1, WriteStepType DEF Writer
  <2>3. /\ DOMAIN disk' = DOMAIN disk \cup {B.dir}
        /\ disk'[B.dir] = fs
        /\ \A d \in DOMAIN disk : d # B.dir => disk'[d] = disk[d]
      BY <1>0, <2>1, <2>2, SetFilesOK
  <2>4. fs.data \subseteq FilesOf(B.dir).data \cup {B.data}
    <3>1. FilesOf(B.dir) \in FileRec
        BY <1>0, FilesOfType
    <3> QED BY <2>1, <3>1 DEF WriteStepOf, FileRec
  <2>5. \A x \in FilesOf(B.dir).data : IsFiniteSet(x)
      BY DEF FilesOf, NoFiles, FiniteDataIn
  <2>6. \A x \in fs.data : IsFiniteSet(x)
      BY <2>4, <2>5
  <2> HIDE DEF B
  <2>7. FiniteDataIn(disk')
      BY <2>3, <2>6 DEF FiniteDataIn
  <2> QED BY <1>0, <2>2, <2>7 DEF Elems, B
<1> QED BY <1>0, <1>1, <1>2, WriteBlockCases

LEMMA LoopSizeInv ==
    ASSUME SizeInv, TypeInv', compactionLoop
    PROVE  SizeInv'
<1> USE DEF SizeInv
<1>0. DiskOK /\ job \in [Writer -> JobRec] /\ blocks \in Seq(Block)
    BY DEF TypeInv
<1>1. CASE CompactNothing \/ CompactFailed \/ CompactExit
  <2>1. /\ disk' = disk /\ blocks' = blocks
        /\ job'["flush"] = job["flush"] /\ job'["compact"].blk = job["compact"].blk
      BY <1>0, <1>1 DEF CompactNothing, CompactFailed, CompactExit, storeVars, Writer, JobRec
  <2> QED BY <2>1 DEF Elems
<1>2. CASE CompactStart
    BY <1>2, CompactStartSizeInv
<1>3. CASE CompactWrite
    BY <1>3, CompactWriteSizeInv
<1>4. CASE CompactRemove
  <2>1. /\ blocks' = blocks
        /\ job'["flush"] = job["flush"] /\ job'["compact"].blk = job["compact"].blk
      BY <1>0, <1>4 DEF CompactRemove, storeVars, Writer, JobRec
  <2>2. \A d \in DOMAIN disk' : d \in DOMAIN disk /\ disk'[d].data \in {{}, disk[d].data}
      BY <1>0, <1>4, RemoveAllOK DEF CompactRemove
  <2>3. FiniteDataIn(disk')
      BY <2>2 DEF FiniteDataIn
  <2> QED BY <2>1, <2>3 DEF Elems
<1>5. CASE CompactPublish
  <2> DEFINE B == job["compact"].blk
  <2>1. /\ disk' = disk /\ blocks' = <<B>>
        /\ job'["flush"] = job["flush"] /\ job'["compact"].blk = B
      BY <1>0, <1>5 DEF CompactPublish, Writer, JobRec
  <2> HIDE DEF B
  <2>2. Elems(blocks)' = {B} /\ Len(blocks') = 1
      BY <2>1 DEF Elems
  <2>3. Sorted(blocks')
      BY <2>2 DEF Sorted
  <2> QED BY <2>1, <2>2, <2>3 DEF B
<1>6. CASE ApplyRetention
  <2>1. PICK kept \in InOrder(blocks, {i \in DOMAIN blocks : ~ Expired(blocks[i])}) :
           \E k \in 0 .. Len(kept) :
              /\ blocks' = SubSeq(kept, k + 1, Len(kept))
              /\ \E dirs : RemoveAll(dirs)
      BY <1>6 DEF ApplyRetention
  <2>2. PICK k \in 0 .. Len(kept) : blocks' = SubSeq(kept, k + 1, Len(kept)) /\ \E dirs : RemoveAll(dirs)
      BY <2>1
  <2>3. {i \in DOMAIN blocks : ~ Expired(blocks[i])} \in SUBSET (1 .. Len(blocks))
      BY <1>0
  <2>4. /\ kept \in Seq(Block) /\ Sorted(kept)
        /\ Elems(kept) = {blocks[i] : i \in {i \in DOMAIN blocks : ~ Expired(blocks[i])}}
      BY <1>0, <2>1, <2>3, KeptSorted
  <2>5. Len(blocks') = Len(kept) - k /\ \A j \in 1 .. Len(kept) - k : blocks'[j] = kept[j + k]
      BY <2>2, <2>4
  <2>6. Sorted(blocks')
    <3>1. \A j \in 1 .. Len(kept) - k : j + k \in 1 .. Len(kept)
        BY <2>4
    <3>2. ASSUME NEW i \in 1 .. Len(blocks'), NEW j \in 1 .. Len(blocks'), i < j
          PROVE  blocks'[i].dir # blocks'[j].dir /\ blocks'[i].mint =< blocks'[j].mint
      <4>1. i + k \in 1 .. Len(kept) /\ j + k \in 1 .. Len(kept) /\ i + k < j + k
          BY <2>5, <3>1, <3>2
      <4>2. blocks'[i] = kept[i + k] /\ blocks'[j] = kept[j + k]
          BY <2>5
      <4> QED BY <2>4, <4>1, <4>2 DEF Sorted
    <3> QED BY <3>2 DEF Sorted
  <2>7. Elems(blocks') \subseteq Elems(blocks)
      BY <1>6, ApplyRetentionType
  <2>8. \A b \in Elems(blocks)' : IsFiniteSet(b.data)
      BY <2>7 DEF Elems
  <2>9. \A d \in DOMAIN disk' : d \in DOMAIN disk /\ disk'[d].data \in {{}, disk[d].data}
      BY <1>0, <2>2, RemoveAllOK
  <2>10. FiniteDataIn(disk')
      BY <2>9 DEF FiniteDataIn
  <2>11. job'["flush"] = job["flush"] /\ job'["compact"] = IdleJobs["compact"]
      BY <1>6, ApplyRetentionType
  <2>12. IsFiniteSet(IdleJobs["compact"].blk.data)
      BY FS_EmptySet DEF IdleJobs, Writer, NoBlock
  <2> QED BY <2>6, <2>8, <2>10, <2>11, <2>12
<1> QED BY <1>1, <1>2, <1>3, <1>4, <1>5, <1>6 DEF compactionLoop, compact

LEMMA ServerNextSizeInv == SizeInv /\ [ServerNext]_vars => SizeInv'
<1> SUFFICES ASSUME SizeInv, [ServerNext]_vars PROVE SizeInv'
    OBVIOUS
<1> USE DEF SizeInv
<1>1. TypeInv'
    BY NextTypeInv DEF ServerNext, Next
<1>2. ASSUME disk' = disk, job' = job, blocks' = blocks PROVE SizeInv'
    BY <1>1, <1>2 DEF Elems
<1>3. CASE UNCHANGED vars
    BY <1>2, <1>3 DEF vars, blockVars, storeVars
<1>4. CASE NewFSStore
    BY <1>1, <1>4, StartSizeInv
<1>5. CASE Crash
  <2>1. disk' = disk /\ job' = IdleJobs /\ blocks' = << >>
      BY <1>5 DEF Crash
  <2>2. job'["flush"].pc = "idle" /\ IsFiniteSet(job'["compact"].blk.data)
      BY <2>1, FS_EmptySet DEF IdleJobs, Writer, NoBlock
  <2>3. Elems(blocks)' = {} /\ Sorted(blocks')
      BY <2>1 DEF Elems, Sorted
  <2> QED BY <1>1, <2>1, <2>2, <2>3
<1>6. CASE compactionLoop
    BY <1>1, <1>6, LoopSizeInv
<1>7. CASE ServerStep /\ ~ NewFSStore /\ ~ Crash /\ ~ compactionLoop
  <2>1. disk' = disk /\ job' = job /\ blocks' = blocks
      BY <1>7 DEF ServerStep, NewFSStoreErr, Close, CloseWAL, Tick, Select, LabelNames, ReadMem, ReadBlocks,
             Commit, CommitStart, CommitLog, CommitMem, CommitErr, blockVars, storeVars
  <2> QED BY <1>2, <2>1
<1> QED BY <1>3, <1>4, <1>5, <1>6, <1>7 DEF ServerNext

\* The limit on the size of blocks is kept and no more is dropped for it than
\* that takes, whatever is committed, compacted, removed or left behind by a
\* crash: the open blocks stay sorted by their first time and in directories of
\* their own, and what the oldest ones take is the difference of two sums.
THEOREM RetentionIsTight == FlushedSpec => SizeLimitTight
<1>1. FlushedInit => SizeInv
    BY FlushedInitSizeInv
<1>2. SizeInv /\ [ServerNext]_vars => SizeInv'
    BY ServerNextSizeInv
<1>3. SizeInv /\ [ServerNext]_vars =>
        [ApplyRetention =>
           /\ RetentionMaxSize > 0 => DiskSize(Elems(blocks))' =< RetentionMaxSize
           /\ \A b \in Elems(blocks) \ Elems(blocks') :
                 ~ Expired(b) =>
                    /\ RetentionMaxSize > 0
                    /\ DiskSize({x \in Elems(blocks) : ~ Expired(x) /\ x.mint >= b.mint})
                          > RetentionMaxSize]_vars
    BY RetentionTight
<1> QED BY <1>1, <1>2, <1>3, PTL DEF FlushedSpec, SizeLimitTight

=============================================================================
