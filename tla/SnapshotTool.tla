---------------------------- MODULE SnapshotTool ----------------------------
(***************************************************************************)
(* The tool from its input to its output: SnapshotReadWriter::read loads   *)
(* the functions of a snapshot into the heap of the engine and lists them  *)
(* with the functions in their literal pools, Optimizer::run gives each of *)
(* them to each pass, and SnapshotReadWriter::write emits them one by one  *)
(* into new blocks and serialises the outermost ones into output_buffer.   *)
(*                                                                         *)
(* A compiled function is a block of the heap.  Of its contents the model  *)
(* keeps the literals that point to other compiled functions: emitting a   *)
(* function frees its block, and whoever pointed there must learn where    *)
(* the new one is.  The heap, the loader and the serialiser of the engine  *)
(* are external.                                                           *)
(***************************************************************************)
EXTENDS Integers, Sequences, FiniteSets

CONSTANTS
    Functions,  \* compiled functions
    Heap,       \* how many blocks the heap has
    Units,      \* the 4-byte units of output_buffer
    Free,       \* a block of the heap that is not allocated
    Snapshots   \* the input files the tool may be given

(* A snapshot: its functions, the function literals of each one's pool     *)
(* (one of them may be the function itself, else each is in one pool       *)
(* only), and the bytes that the serialised tree of an outermost function  *)
(* takes.                                                                  *)
IsSnapshot(s) ==
    /\ s.roots \in Seq(Functions) /\ Len(s.roots) > 0
    /\ s.subs \in [Functions -> Seq(Functions)]
    /\ s.size \in [Functions -> Nat \ {0}]

Unique(seq) == \A i, j \in 1..Len(seq) : seq[i] = seq[j] => i = j

(* But for its own entry, a function is in one pool, once; an outermost    *)
(* one is in none.                                                         *)
IsForest(s) ==
    /\ Unique(s.roots)
    /\ \A f, g \in Functions : \A i \in 1..Len(s.subs[f]), j \in 1..Len(s.subs[g]) :
          s.subs[f][i] = s.subs[g][j] /\ s.subs[f][i] \notin {f, g} => f = g /\ i = j
    /\ \A f \in Functions : \A i \in 1..Len(s.subs[f]), m \in 1..Len(s.roots) :
          s.subs[f][i] = s.roots[m] => s.roots[m] = f

(* The functions are nested so deep, from those without any in their pool  *)
(* outwards: what ends the recursion of readSubFunctions.                  *)
IsDepth(s, depth) ==
    \A f \in Functions : \A i \in 1..Len(s.subs[f]) :
        s.subs[f][i] # f => depth[s.subs[f][i]] < depth[f]

Addresses == 1..Heap

(* The engine ends the process when it finds no free block. *)
ASSUME SizesAssumption ==
    /\ Heap \in Nat /\ Units \in Nat
    /\ IsFiniteSet(Functions) /\ Cardinality(Functions) <= Heap
    /\ Free \notin [fn : Functions, pool : Seq(Addresses)]
ASSUME SnapshotsAssumption ==
    \A s \in Snapshots :
        /\ IsSnapshot(s) /\ IsForest(s)
        /\ \E depth \in [Functions -> 0..Heap] : IsDepth(s, depth)

None == 0

VARIABLES
    file,       \* the snapshot being processed
    pc,         \* what the tool is doing
    loaded,     \* the functions of file read so far
    heap,       \* Addresses -> Free or [fn, pool]
    code,       \* Bytecode::compiled_code_
    poolAt,     \* the block LiteralPool::literal_start_ points into
    list,       \* the BytecodeList
    at,         \* the position in list
    pass,       \* the position in passes_
    mask,       \* Optimizer::run_passes_, as the set of its bits
    ran,        \* the <<function, pass>> pairs that ran
    stray,      \* a pool entry was written outside the pool it is meant for
    bufferAt,   \* buffer_p, in units from output_buffer
    bufferSize, \* buffer_size
    written,    \* snapshot_buffers and snapshot_sizes
    output      \* the outermost functions of the file written

files == <<file, loaded, heap, code, poolAt, list>>
passes == <<pass, mask, ran>>
buffers == <<bufferAt, bufferSize, written, output>>
vars == <<files, pc, at, passes, stray, buffers>>

-----------------------------------------------------------------------------
(* Reading. *)
IsRoot(f) == \E i \in 1..Len(file.roots) : file.roots[i] = f

(* Below(s, order, f)[k] is what readSubFunctions lists for the first k    *)
(* entries of the pool of f, if order[g] is what it lists for a function g *)
(* and those below: the entry for f itself is skipped.                     *)
Below(s, order, f) ==
    LET below[k \in 0..Len(s.subs[f])] ==
            IF k = 0 THEN <<>>
            ELSE IF s.subs[f][k] = f THEN below[k - 1]
            ELSE below[k - 1] \o order[s.subs[f][k]]
    IN  below

(* Mutant: a function comes before the functions in its pool. *)
FunctionsOfParentFirst(s) ==
    LET order[f \in Functions] == <<f>> \o Below(s, order, f)[Len(s.subs[f])]
    IN  order

(* readFunctions and readSubFunctions: each function after those that its  *)
(* pool refers to.                                                         *)
FunctionsOf(s) ==
    LET order[f \in Functions] == Append(Below(s, order, f)[Len(s.subs[f])], f)
    IN  order

(* parent_ and parent_literal_pool_index_. *)
ParentOf(f) ==
    CHOOSE p \in UNION { {<<g, k>> : k \in 1..Len(file.subs[g])} : g \in Functions \ {f} } :
        file.subs[p[1]][p[2]] = f

(* jerry_load_function_snapshot copies the next function and those below   *)
(* it into the heap, and readFunctions lists them.                         *)
Load ==
    /\ pc = "read"
    /\ loaded < Len(file.roots)
    /\ LET new   == FunctionsOf(file)[file.roots[loaded + 1]]
           block == [i \in 1..Len(new) |-> Len(list) + i]
           to    == [f \in Functions |->
                        IF \E i \in 1..Len(new) : new[i] = f
                        THEN block[CHOOSE i \in 1..Len(new) : new[i] = f] ELSE code[f]]
       IN  /\ code' = to
           /\ poolAt' = to
           /\ heap' = [a \in Addresses |->
                          IF \E i \in 1..Len(new) : block[i] = a
                          THEN LET f == new[CHOOSE i \in 1..Len(new) : block[i] = a]
                               IN  [fn |-> f, pool |-> [k \in 1..Len(file.subs[f]) |->
                                                           to[file.subs[f][k]]]]
                          ELSE heap[a]]
           /\ list' = list \o new
    /\ loaded' = loaded + 1
    /\ UNCHANGED <<file, pc, at, passes, stray, buffers>>

(* The engine refuses the function: read() returns the error, main stops. *)
LoadFails ==
    /\ pc = "read"
    /\ loaded < Len(file.roots)
    /\ pc' = "failed"
    /\ UNCHANGED <<files, at, passes, stray, buffers>>

EndRead ==
    /\ pc = "read"
    /\ loaded = Len(file.roots)
    /\ pc' = "optimize"
    /\ UNCHANGED <<files, at, passes, stray, buffers>>

-----------------------------------------------------------------------------
(* Optimizing. *)
CFA == "control flow"  DOM == "dominators"  LIV == "liveness"  REG == "regalloc"

(* Mutant: allocation comes before the liveness it relies on. *)
PassesSwapped == <<CFA, DOM, REG, LIV>>

Passes == <<CFA, DOM, LIV, REG>>

(* enum PassKind counts 1, 2, 3, 4: these are the bits that are set. *)
Bits(p) == CASE p = CFA -> {0} [] p = DOM -> {1} [] p = LIV -> {0, 1} [] p = REG -> {2}

(* The pass that a pass asserts to have succeeded. *)
Requires(p) == CASE p = CFA -> {} [] p = DOM -> {CFA} [] p = LIV -> {DOM} [] p = REG -> {LIV}

(* Mutant: the mask is compared with the kind. *)
IsSucceededExactly(p) == mask = Bits(p)

IsSucceeded(p) == mask \cap Bits(p) # {}

(* Mutant: the next function goes on where the last one ended. *)
FirstPassKept == pass

FirstPass == 1

(* One turn of the inner loop of Optimizer::run; every pass returns true. *)
RunPass ==
    /\ pc = "optimize"
    /\ at <= Len(list)
    /\ pass <= Len(Passes)
    /\ LET p == Passes[pass] IN
       IF \A q \in Requires(p) : IsSucceeded(q)
       THEN /\ ran' = ran \cup {<<list[at], p>>}
            /\ mask' = mask \cup Bits(p)
            /\ pass' = pass + 1
            /\ pc' = pc
       ELSE /\ pc' = "aborted"
            /\ UNCHANGED passes
    /\ UNCHANGED <<files, at, stray, buffers>>

NextFunction ==
    /\ pc = "optimize"
    /\ at <= Len(list)
    /\ pass > Len(Passes)
    /\ at' = at + 1
    /\ pass' = FirstPass
    /\ UNCHANGED <<files, pc, mask, ran, stray, buffers>>

EndOptimize ==
    /\ pc = "optimize"
    /\ at > Len(list)
    /\ pc' = "write"
    /\ at' = 1
    /\ UNCHANGED <<files, passes, stray, buffers>>

-----------------------------------------------------------------------------
(* Writing. *)

(* Mutant: a function is linked to the slot before its own. *)
LinkedBefore(h, p, a) ==
    [h EXCEPT ![poolAt[p[1]]].pool[IF p[2] > 1 THEN p[2] - 1 ELSE p[2]] = a]

(* The parent's pool entry now points to block a. *)
Linked(h, p, a) == [h EXCEPT ![poolAt[p[1]]].pool[p[2]] = a]

(* Bytecode::emit: the instructions and the pool are copied out of the     *)
(* block, the block is freed and one is allocated anew, perhaps the same.  *)
(* The parent's entry, or the function object, is set to it.               *)
Emit ==
    /\ pc = "write"
    /\ at <= Len(list)
    /\ LET f     == list[at]
           freed == [heap EXCEPT ![code[f]] = Free]
       IN  \E a \in { b \in Addresses : freed[b] = Free } :
             LET copied == [freed EXCEPT ![a] = [fn |-> f, pool |-> heap[poolAt[f]].pool]]
             IN  /\ code' = [code EXCEPT ![f] = a]
                 /\ IF IsRoot(f)
                    THEN heap' = copied /\ stray' = stray /\ pc' = "snapshot" /\ at' = at
                    ELSE LET p == ParentOf(f) IN
                         /\ pc' = pc /\ at' = at + 1
                         /\ IF copied[poolAt[p[1]]] # Free /\ copied[poolAt[p[1]]].fn = p[1]
                            THEN heap' = Linked(copied, p, a) /\ stray' = stray
                            ELSE heap' = copied /\ stray' = TRUE
    /\ UNCHANGED <<file, loaded, poolAt, list, passes, buffers>>

(* Mutant: the bytes are converted to units, rounding down. *)
AdvanceUnits(bytes) == bufferAt + bytes \div 4

(* Mutant: units are converted to bytes once more. *)
AdvanceFourfold(bytes) == bufferAt + 4 * bytes

(* buffer_p += res *)
Advance(bytes) == bufferAt + bytes

(* writeSnapshot of the outermost function just emitted. *)
WriteSnapshot ==
    /\ pc = "snapshot"
    /\ LET f == list[at] IN
       /\ file.size[f] <= bufferSize
       /\ written' = Append(written, [fn |-> f, start |-> bufferAt, bytes |-> file.size[f]])
       /\ bufferAt' = Advance(file.size[f])
       /\ bufferSize' = bufferSize - file.size[f]
    /\ at' = at + 1
    /\ pc' = "write"
    /\ UNCHANGED <<files, passes, stray, output>>

(* It returns 0, as the tree does not fit or holds what the engine cannot  *)
(* serialise; write() and main report it.                                  *)
WriteFails ==
    /\ pc = "snapshot"
    /\ pc' = "failed"
    /\ UNCHANGED <<files, at, passes, stray, buffers>>

(* The bytes that jerry_merge_snapshots needs for what has been written. *)
Total(snapshots) ==
    LET sum[k \in 0..Len(snapshots)] ==
            IF k = 0 THEN 0 ELSE sum[k - 1] + snapshots[k].bytes
    IN  sum[Len(snapshots)]

(* Mutant: the first snapshot is written, however many there are. *)
FinalFirst == {written[1].fn}

(* The functions in the file written: those of all snapshots merged behind *)
(* them in the buffer, where there is more than one, or nothing if they do *)
(* not fit; the error of the merge is not looked at.                       *)
Final ==
    IF Len(written) = 1 THEN {written[1].fn}
    ELSE IF Total(written) <= bufferSize THEN { written[i].fn : i \in 1..Len(written) }
    ELSE {}

EndWrite ==
    /\ pc = "write"
    /\ at > Len(list)
    /\ output' = Final
    /\ pc' = "done"
    /\ UNCHANGED <<files, at, passes, stray, bufferAt, bufferSize, written>>

-----------------------------------------------------------------------------
Init ==
    /\ file \in Snapshots
    /\ pc = "read"
    /\ loaded = 0
    /\ heap = [a \in Addresses |-> Free]
    /\ code = [f \in Functions |-> None]
    /\ poolAt = [f \in Functions |-> None]
    /\ list = <<>>
    /\ at = 1
    /\ pass = 1
    /\ mask = {}
    /\ ran = {}
    /\ stray = FALSE
    /\ bufferAt = 0
    /\ bufferSize = Units
    /\ written = <<>>
    /\ output = {}

Next ==
    \/ Load \/ LoadFails \/ EndRead
    \/ RunPass \/ NextFunction \/ EndOptimize
    \/ Emit \/ WriteSnapshot \/ WriteFails \/ EndWrite

Spec == Init /\ [][Next]_vars

(* The tool is one thread that never waits. *)
FairSpec == Spec /\ WF_vars(Next)

-----------------------------------------------------------------------------
(* The type invariant.  pc is never "aborted": no assertion of a pass fails. *)
TypeOK ==
    /\ pc \in {"read", "optimize", "write", "snapshot", "done", "failed"}
    /\ loaded \in 0..Len(file.roots)
    /\ \A a \in Addresses :
          heap[a] # Free => heap[a].fn \in Functions /\ heap[a].pool \in Seq(Addresses)
    /\ code \in [Functions -> Addresses \cup {None}]
    /\ poolAt \in [Functions -> Addresses \cup {None}]
    /\ list \in Seq(Functions)
    /\ at \in 1..(Len(list) + 1)
    /\ pass \in 1..(Len(Passes) + 1)
    /\ mask \subseteq 0..2
    /\ stray \in BOOLEAN
    /\ bufferAt \in 0..Units /\ bufferSize \in 0..Units
    /\ output \subseteq Functions

Tree(f) == { FunctionsOf(file)[f][i] : i \in 1..Len(FunctionsOf(file)[f]) }

(* Bytecode::emit writes the parent's pool entry while the parent's block  *)
(* is still the one its literal pool was read from, so that when a         *)
(* function is serialised, every function below it is reached through pool *)
(* entries that point to its emitted block: none leads to a freed block or *)
(* to one that another function was put in since.  Only a pool's entry for *)
(* its own function is left behind: it still holds the address the         *)
(* function was read from.                                                 *)
PoolsResolve ==
    /\ ~ stray
    /\ pc = "snapshot" =>
        \A g \in Tree(list[at]) :
            /\ code[g] # None /\ heap[code[g]] # Free /\ heap[code[g]].fn = g
            /\ \A k \in 1..Len(file.subs[g]) :
                  heap[code[g]].pool[k] =
                      IF file.subs[g][k] = g THEN poolAt[g] ELSE code[file.subs[g][k]]

(* A pass starts on a function only after the pass it relies on is through *)
(* with that very function, and the function is emitted after all of them, *)
(* though run_passes_ neither is reset between functions nor tells         *)
(* LIVENESS_ANALYSIS from the two passes before it.                        *)
InTurn ==
    /\ \A fp \in ran' \ ran : \A q \in Requires(fp[2]) : <<fp[1], q>> \in ran
    /\ pc = "write" /\ (at' # at \/ pc' = "snapshot") =>
           \A k \in 1..Len(Passes) : <<list[at], Passes[k]>> \in ran

PrerequisitesRan == [][InTurn]_vars

(* The snapshots lie in output_buffer without overlapping each other or    *)
(* the part the merged snapshot goes to (a unit has four bytes).           *)
BuffersApart ==
    /\ \A i, j \in 1..Len(written) :
          i < j => written[i].start * 4 + written[i].bytes <= written[j].start * 4
    /\ \A i \in 1..Len(written) : written[i].start * 4 + written[i].bytes <= bufferAt * 4
    /\ bufferAt * 4 + bufferSize <= Units * 4

(* "Created snapshot file": when write() reports success the file holds    *)
(* all the functions of the input.  For several functions this needs room  *)
(* for all of them twice, for the merge's failure is not noticed.          *)
OutputComplete ==
    pc = "done" /\ (Len(written) = 1 \/ 2 * Total(written) <= Units)
        => output = { file.roots[i] : i \in 1..Len(file.roots) }

(* "Maximum size for emitted snapshots" (output_buffer): the tool refuses  *)
(* no snapshot of one function that output_buffer has room for.            *)
MaximumHolds ==
    pc = "snapshot" /\ Len(file.roots) = 1 /\ file.size[list[at]] <= Units * 4
        => file.size[list[at]] <= bufferSize

(* The tool ends, with or without an error. *)
Terminates == <>(pc \in {"done", "failed"})
=============================================================================
