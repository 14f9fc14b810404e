--------------------------- MODULE MemoryTransfers ---------------------------
(***************************************************************************)
(* The queue that clears new memory and writes mapped textures (memory.c):  *)
(* transfers are listed when memory is allocated, submitted before the next *)
(* ExecuteCommandLists, and waited for by what every VkQueue submits after  *)
(* that. Memory that is given back is taken from the list, or is waited for.*)
(*                                                                         *)
(* The objects are suballocations of one chunk, the chunk, and allocations  *)
(* with memory of their own.                                               *)
(***************************************************************************)
EXTENDS Integers, Sequences, FiniteSets, Functions, MemoryChunk

CONSTANTS
  Subs,         \* suballocations
  SizeOf, AlignmentOf, \* their memory requirements
  Chunk, ChunkSize,    \* the chunk
  Dedicated,    \* allocations with their own memory
  Textures,     \* resources for WriteToSubresource
  Queues,       \* VkQueues of command queues
  Kinds,        \* whether memory must be zeroed: a set of BOOLEAN
  Buffers,      \* VKD3D_MEMORY_TRANSFER_COMMAND_BUFFER_COUNT
  MaxPending,   \* VKD3D_MEMORY_TRANSFER_QUEUE_MAX_PENDING_BYTES, in allocations
  MaxAllocs, MaxWrites, MaxWorks, MaxFails \* bounds on the calls and failures

ASSUME SizesAssumption ==
  /\ ChunkSize \in Nat \ {0} /\ Buffers \in Nat \ {0}
  /\ SizeOf \in [Subs -> Nat \ {0}] /\ AlignmentOf \in [Subs -> Nat \ {0}]

ASSUME NamesAssumption ==
  /\ Subs \cap Dedicated = {} /\ Chunk \notin Subs \cup Dedicated
  /\ \A d \in Dedicated : d \notin 0 .. ChunkSize - 1  \* both name memory

ASSUME KindsAssumption == Kinds \subseteq BOOLEAN

Allocs  == Subs \cup Dedicated
Objects == Allocs \cup {Chunk}
Nobody  == "nobody"

VARIABLES
  pc,        \* pc[o]: what the thread that owns o does
  clear,     \* clear[o]: clear_semaphore_value, 0 if never listed
  until,     \* until[o]: the value that the thread waits for
  zeroed,    \* zeroed[a]: without D3D12_HEAP_FLAG_CREATE_NOT_ZEROED
  free_ranges, \* chunk->free_ranges
  offset,    \* offset[a]: where suballocation a is in the chunk
  content,   \* content[m]: what the GPU has done to the memory m
  work,      \* work[a]: a command list that uses a
  mutex,     \* queue->mutex, with what its holder has left of a flush
  flusher,   \* the object whose call flushes
  todo,      \* the queues that were not told of the flush
  transfers, \* queue->transfers
  pending,   \* num_bytes_pending
  next,      \* next_signal_value
  withdrawn, \* history: a clear was taken from the list since the last flush
  buffer,    \* command_buffer_index
  sem, onGpu,\* vk_semaphore, submissions of transfers that are not finished
  waits,     \* waits[q]: value in vkd3d_queue->wait_semaphores, 0 for none
  gpuQueue,  \* submissions of q that are not finished
  tracked,   \* queue->tracked_resources
  batch,     \* the tracking thread's list
  mine,      \* mine[r]: the application's reference
  refs,      \* refs[r]: references of the tracking thread
  calls      \* how many allocations, writes, works and failures there were

chunkVars == <<free_ranges, offset>>
objVars   == <<pc, clear, until, zeroed, content, work, chunkVars>>
flushVars == <<mutex, flusher, todo>>
listVars  == <<transfers, pending, next, buffer, withdrawn>>
gpuVars   == <<sem, onGpu>>
queueVars == <<waits, gpuQueue>>
trackVars == <<tracked, batch, mine, refs>>
vars == <<objVars, flushVars, listVars, gpuVars, queueVars, trackVars, calls>>

\* Memory: the cells of the chunk, and that of each dedicated allocation.
Memories == (0 .. ChunkSize - 1) \cup Dedicated
MemoryOf(a) == IF a \in Subs THEN Cells(offset[a], SizeOf[a]) ELSE {a}

Clear(o) == [op |-> "clear", of |-> o]
Write(r) == [op |-> "write", of |-> r]
Count(k, max) == calls[k] < max /\ calls' = [calls EXCEPT ![k] = @ + 1]
At(o, p) == pc' = [pc EXCEPT ![o] = p]

Init ==
  /\ pc = [o \in Objects |-> "none"] /\ clear = [o \in Objects |-> 0]
  /\ until = [o \in Objects |-> 0]
  /\ zeroed = [a \in Allocs |-> FALSE] /\ content = [m \in Memories |-> "old"]
  /\ work = [a \in Allocs |-> "none"]
  /\ free_ranges = <<>> /\ offset = [a \in Subs |-> 0]
  /\ mutex = "free" /\ flusher = Nobody /\ todo = {}
  /\ transfers = <<>> /\ pending = 0 /\ next = Buffers + 1 /\ buffer = 0
  /\ withdrawn = FALSE
  /\ sem = Buffers /\ onGpu = <<>>
  /\ waits = [q \in Queues |-> 0] /\ gpuQueue = [q \in Queues |-> <<>>]
  /\ tracked = <<>> /\ batch = <<>>
  /\ mine = [r \in Textures |-> TRUE] /\ refs = [r \in Textures |-> 0]
  /\ calls = [k \in {"allocs", "writes", "works", "fails"} |-> 0]

-----------------------------------------------------------------------------
(* Allocating and writing                                                  *)

\* The allocator's mutex is free: nobody destroys the chunk.
AllocatorFree == pc[Chunk] \in {"none", "live"}

\* A range of the chunk, which is created when there is none: the slice copies
\* the allocation of the chunk. (A chunk that is full is not followed by another.)
Suballocate(a, z) ==
  LET ranges == IF pc[Chunk] = "none" THEN <<[offset |-> 0, length |-> ChunkSize]>> ELSE free_ranges
      picked == PickOffset(ranges, SizeOf[a], AlignmentOf[a]) IN
  /\ pc[a] = "none" /\ a \in Subs /\ AllocatorFree
  /\ Fitting(ranges, SizeOf[a], AlignmentOf[a]) # {}
  /\ Count("allocs", MaxAllocs)
  /\ free_ranges' = AllocateRange(ranges, SizeOf[a], AlignmentOf[a])
  /\ offset' = [offset EXCEPT ![a] = picked]
  /\ pc' = [pc EXCEPT ![a] = IF z THEN "taken" ELSE "live", ![Chunk] = "live"]
  /\ clear' = [clear EXCEPT ![a] = clear[Chunk]]
  /\ zeroed' = [zeroed EXCEPT ![a] = z]
  /\ content' = [m \in Memories |-> IF m \in Cells(picked, SizeOf[a]) THEN "old" ELSE content[m]]
  /\ UNCHANGED <<until, work, flushVars, listVars, gpuVars, queueVars, trackVars>>

Allocate(a, z) ==
  /\ pc[a] = "none" /\ a \in Dedicated
  /\ Count("allocs", MaxAllocs)
  /\ At(a, IF z THEN "taken" ELSE "live")
  /\ clear' = [clear EXCEPT ![a] = 0]
  /\ zeroed' = [zeroed EXCEPT ![a] = z]
  /\ content' = [content EXCEPT ![a] = "old"]
  /\ UNCHANGED <<until, work, chunkVars, flushVars, listVars, gpuVars, queueVars, trackVars>>

\* execute_transfer_locked: too much that is pending is flushed at once.
Execute(t, bytes, who) ==
  /\ mutex = "free"
  /\ transfers' = Append(transfers, t)
  /\ pending' = pending + bytes
  /\ IF pending' >= MaxPending THEN mutex' = "submit" /\ flusher' = who
                               ELSE UNCHANGED <<mutex, flusher>>
  /\ UNCHANGED <<todo, next, buffer, withdrawn>>

\* fill_allocation, with 0.
FillAllocation(a) ==
  /\ pc[a] = "taken"
  /\ Execute(Clear(a), 1, a)
  /\ clear' = [o \in Objects |-> IF o = a \/ (o = Chunk /\ a \in Subs) THEN next ELSE clear[o]]
  /\ At(a, IF mutex' = "free" THEN "live" ELSE "flushes")
  /\ UNCHANGED <<chunkVars, until, zeroed, content, work, gpuVars, queueVars, trackVars, calls>>

WriteSubresource(r) ==
  /\ mine[r]
  /\ Count("writes", MaxWrites)
  /\ Execute(Write(r), 0, Nobody)
  /\ UNCHANGED <<objVars, gpuVars, queueVars, trackVars>>

\* A write in the list is a plain pointer, and nobody looks for it.
ReleaseTexture(r) ==
  /\ mine[r]
  /\ mine' = [mine EXCEPT ![r] = FALSE]
  /\ UNCHANGED <<objVars, flushVars, listVars, gpuVars, queueVars, tracked, batch, refs, calls>>

-----------------------------------------------------------------------------
(* ExecuteCommandLists and flushing                                        *)

\* Faulty variant: nothing is flushed.
ExecuteCommandLists_NoFlush(a) ==
  /\ pc[a] = "live" /\ work[a] = "none" /\ mutex = "free"
  /\ Count("works", MaxWorks)
  /\ work' = [work EXCEPT ![a] = "queued"]
  /\ UNCHANGED <<chunkVars, pc, clear, until, zeroed, content, flushVars, listVars, gpuVars, queueVars, trackVars>>

ExecuteCommandLists(a) ==
  /\ pc[a] = "live" /\ work[a] = "none" /\ mutex = "free"
  /\ Count("works", MaxWorks)
  /\ IF transfers = <<>>
     THEN /\ work' = [work EXCEPT ![a] = "queued"]
          /\ UNCHANGED flushVars
     ELSE /\ work' = [work EXCEPT ![a] = "flushes"]
          /\ mutex' = "submit" /\ flusher' = a
          /\ UNCHANGED todo
  /\ UNCHANGED <<chunkVars, pc, clear, until, zeroed, content, listVars, gpuVars, queueVars, trackVars>>

\* The writes of the list, in their order.
WritesIn(list) ==
  LET upTo[n \in 0 .. Len(list)] ==
        IF n = 0 THEN <<>>
        ELSE IF list[n].op = "write" THEN Append(upTo[n - 1], list[n]) ELSE upTo[n - 1]
  IN  upTo[Len(list)]

Writes == WritesIn(transfers)

\* track_resource_locked for every write: a reference, and the value to wait for.
TrackWrites ==
  /\ tracked' = tracked \o [i \in DOMAIN Writes |-> [of |-> Writes[i].of, value |-> next]]
  /\ refs' = [r \in Textures |-> refs[r] + Cardinality({i \in DOMAIN Writes : Writes[i].of = r})]
  /\ UNCHANGED <<batch, mine>>

\* Faulty variant: the command buffer may still be in use.
BufferIsIdle_Assumed == TRUE

BufferIsIdle == sem >= next - Buffers

Submit ==
  /\ mutex = "submit" /\ BufferIsIdle
  /\ TrackWrites
  /\ onGpu' = Append(onGpu, [value |-> next, buffer |-> buffer, ops |-> transfers,
                          cells |-> UNION {MemoryOf(t.of) : t \in {u \in Range(transfers) : u.op = "clear"}}])
  /\ mutex' = "waits" /\ todo' = Queues
  /\ UNCHANGED <<objVars, flusher, listVars, sem, queueVars, calls>>

\* The caller of a flush goes on.
Resume(ok) ==
  /\ pc' = [o \in Objects |-> IF o = flusher /\ pc[o] = "flushes" THEN "live" ELSE pc[o]]
  /\ work' = [a \in Allocs |-> IF a = flusher /\ work[a] = "flushes"
                               THEN (IF ok THEN "queued" ELSE "none") ELSE work[a]]
  /\ mutex' = "free" /\ flusher' = Nobody
  /\ UNCHANGED <<clear, until, zeroed, content, chunkVars, todo>>

\* Faulty variant: the list is dropped when a flush fails.
FlushFails_Drops(recorded) ==
  /\ mutex = "submit" /\ BufferIsIdle
  /\ Count("fails", MaxFails)
  /\ IF recorded THEN TrackWrites ELSE UNCHANGED trackVars
  /\ transfers' = <<>> /\ pending' = 0
  /\ Resume(FALSE)
  /\ UNCHANGED <<next, buffer, withdrawn, gpuVars, queueVars>>

\* A call of Vulkan fails, before or after the writes are tracked: the list stays.
FlushFails(recorded) ==
  /\ mutex = "submit" /\ BufferIsIdle
  /\ Count("fails", MaxFails)
  /\ IF recorded THEN TrackWrites ELSE UNCHANGED trackVars
  /\ Resume(FALSE)
  /\ UNCHANGED <<listVars, gpuVars, queueVars>>

\* add_wait_to_all_queues, one mutex after the other.
AddWait(q) ==
  /\ mutex = "waits" /\ q \in todo
  /\ waits' = [waits EXCEPT ![q] = next]
  /\ todo' = todo \ {q}
  /\ UNCHANGED <<objVars, mutex, flusher, listVars, gpuVars, gpuQueue, trackVars, calls>>

\* Faulty variant: num_bytes_pending goes on growing.
FlushEnds_KeepsBytes ==
  /\ mutex = "waits" /\ todo = {}
  /\ next' = next + 1
  /\ transfers' = <<>>
  /\ buffer' = (buffer + 1) % Buffers /\ withdrawn' = FALSE
  /\ Resume(TRUE)
  /\ UNCHANGED <<pending, gpuVars, queueVars, trackVars, calls>>

FlushEnds ==
  /\ mutex = "waits" /\ todo = {}
  /\ next' = next + 1
  /\ pending' = 0 /\ transfers' = <<>>
  /\ buffer' = (buffer + 1) % Buffers /\ withdrawn' = FALSE
  /\ Resume(TRUE)
  /\ UNCHANGED <<gpuVars, queueVars, trackVars, calls>>

\* The submission thread of a command queue of q takes over the waits of q.
SubmitWork(a, q) ==
  /\ work[a] = "queued"
  /\ work' = [work EXCEPT ![a] = "submitted"]
  /\ gpuQueue' = [gpuQueue EXCEPT ![q] = Append(@, [of |-> a, wait |-> waits[q]])]
  /\ waits' = [waits EXCEPT ![q] = 0]
  /\ UNCHANGED <<chunkVars, pc, clear, until, zeroed, content, flushVars, listVars, gpuVars, trackVars, calls>>

-----------------------------------------------------------------------------
(* The GPU and the tracking thread                                         *)

\* "zero" is right for memory that was not used yet, "spoilt" is never right.
GpuTransfers ==
  /\ onGpu # <<>>
  /\ sem' = Head(onGpu).value
  /\ onGpu' = Tail(onGpu)
  /\ content' = [m \in Memories |-> IF m \notin Head(onGpu).cells THEN content[m]
                                    ELSE IF content[m] \in {"data", "spoilt"} THEN "spoilt" ELSE "zero"]
  /\ UNCHANGED <<chunkVars, pc, clear, until, zeroed, work, flushVars, listVars, queueVars, trackVars, calls>>

GpuWork(q) ==
  LET job == Head(gpuQueue[q])
      a   == job.of IN
  /\ gpuQueue[q] # <<>> /\ sem >= job.wait
  /\ gpuQueue' = [gpuQueue EXCEPT ![q] = Tail(@)]
  /\ work' = [work EXCEPT ![a] = "none"]
  /\ content' = [m \in Memories |-> IF m \notin MemoryOf(a) THEN content[m]
                                    ELSE IF content[m] = "spoilt" \/ (zeroed[a] /\ content[m] = "old")
                                    THEN "spoilt" ELSE "data"]
  /\ UNCHANGED <<chunkVars, pc, clear, until, zeroed, flushVars, listVars, gpuVars, waits, trackVars, calls>>

TakeBatch ==
  /\ batch = <<>> /\ tracked # <<>> /\ mutex = "free"
  /\ batch' = tracked /\ tracked' = <<>>
  /\ UNCHANGED <<objVars, flushVars, listVars, gpuVars, queueVars, mine, refs, calls>>

\* Faulty variant: the reference is given back without waiting.
ReleaseTracked_AtOnce ==
  /\ batch # <<>>
  /\ refs' = [refs EXCEPT ![Head(batch).of] = @ - 1]
  /\ batch' = Tail(batch)
  /\ UNCHANGED <<objVars, flushVars, listVars, gpuVars, queueVars, tracked, mine, calls>>

ReleaseTracked ==
  /\ batch # <<>> /\ sem >= Head(batch).value
  /\ refs' = [refs EXCEPT ![Head(batch).of] = @ - 1]
  /\ batch' = Tail(batch)
  /\ UNCHANGED <<objVars, flushVars, listVars, gpuVars, queueVars, tracked, mine, calls>>

-----------------------------------------------------------------------------
(* Giving memory back                                                      *)

FreeMemory(a) ==
  /\ pc[a] = "live" /\ work[a] = "none"
  /\ At(a, IF clear[a] = 0 THEN "returns" ELSE "check")
  /\ UNCHANGED <<chunkVars, clear, until, zeroed, content, work, flushVars, listVars, gpuVars, queueVars, trackVars, calls>>

\* wait_allocation: nothing to do when the GPU is done with the clear ...
CheckDone(o) ==
  /\ pc[o] = "check"
  /\ At(o, IF sem >= clear[o] THEN "returns" ELSE "search")
  /\ UNCHANGED <<chunkVars, clear, until, zeroed, content, work, flushVars, listVars, gpuVars, queueVars, trackVars, calls>>

Remove(i) == [j \in 1 .. Len(transfers) - 1 |-> transfers[IF j = i THEN Len(transfers) ELSE j]]

\* Faulty variant: a clear in the list is left there.
TakeFromList_Leaves(o) ==
  /\ pc[o] = "search" /\ mutex = "free"
  /\ Clear(o) \in Range(transfers)
  /\ At(o, "returns")
  /\ UNCHANGED <<chunkVars, clear, until, zeroed, content, work, flushVars, listVars, gpuVars, queueVars, trackVars, calls>>

\* ... or when it can be taken from the list ...
TakeFromList(o) ==
  /\ pc[o] = "search" /\ mutex = "free"
  /\ \E i \in DOMAIN transfers :
       /\ transfers[i] = Clear(o)
       /\ \A j \in 1 .. i - 1 : transfers[j] # Clear(o)
       /\ transfers' = Remove(i)
  /\ pending' = pending - 1 /\ withdrawn' = TRUE
  /\ At(o, "returns")
  /\ UNCHANGED <<chunkVars, clear, until, zeroed, content, work, flushVars, next, buffer, gpuVars, queueVars, trackVars, calls>>

\* Faulty variant: wait for the value as it is.
NotInList_AsIs(o) ==
  /\ pc[o] = "search" /\ mutex = "free" /\ Clear(o) \notin Range(transfers)
  /\ At(o, IF o \in Subs THEN "returns" ELSE "blocked")
  /\ until' = [until EXCEPT ![o] = IF o \in Subs THEN 0 ELSE clear[o]]
  /\ UNCHANGED <<chunkVars, clear, zeroed, content, work, flushVars, listVars, gpuVars, queueVars, trackVars, calls>>

\* ... or is left to the chunk. The value of a chunk may never be signalled when
\* its last suballocation was taken from the list.
NotInList(o) ==
  /\ pc[o] = "search" /\ mutex = "free" /\ Clear(o) \notin Range(transfers)
  /\ At(o, IF o \in Subs THEN "returns" ELSE "blocked")
  /\ until' = [until EXCEPT ![o] = IF o \in Subs THEN 0
                                   ELSE IF clear[o] = next THEN next - 1 ELSE clear[o]]
  /\ UNCHANGED <<chunkVars, clear, zeroed, content, work, flushVars, listVars, gpuVars, queueVars, trackVars, calls>>

Waited(o) ==
  /\ pc[o] = "blocked" /\ sem >= until[o]
  /\ At(o, "returns")
  /\ until' = [until EXCEPT ![o] = 0]
  /\ UNCHANGED <<chunkVars, clear, zeroed, content, work, flushVars, listVars, gpuVars, queueVars, trackVars, calls>>

\* Faulty variant: the chunk is freed without waiting.
ReturnRange_AtOnce(a) ==
  LET ranges == FreeRange(free_ranges, offset[a], SizeOf[a]) IN
  /\ a \in Subs /\ pc[a] = "returns" /\ AllocatorFree
  /\ free_ranges' = ranges
  /\ pc' = [pc EXCEPT ![a] = "none", ![Chunk] = IF IsFree(ranges, ChunkSize) THEN "returns" ELSE "live"]
  /\ UNCHANGED <<offset, clear, until, zeroed, content, work, flushVars, listVars, gpuVars, queueVars, trackVars, calls>>

\* The range is free again; a chunk with nothing but free ranges is destroyed
\* under the allocator's mutex.
ReturnRange(a) ==
  LET ranges == FreeRange(free_ranges, offset[a], SizeOf[a]) IN
  /\ a \in Subs /\ pc[a] = "returns" /\ AllocatorFree
  /\ free_ranges' = ranges
  /\ pc' = [pc EXCEPT ![a] = "none",
                      ![Chunk] = IF ~IsFree(ranges, ChunkSize) THEN "live"
                                 ELSE IF clear[Chunk] = 0 THEN "returns" ELSE "check"]
  /\ UNCHANGED <<offset, clear, until, zeroed, content, work, flushVars, listVars, gpuVars, queueVars, trackVars, calls>>

\* vkFreeMemory.
ReturnMemory(o) ==
  /\ o \notin Subs /\ pc[o] = "returns"
  /\ At(o, "none")
  /\ clear' = [clear EXCEPT ![o] = 0]
  /\ free_ranges' = IF o = Chunk THEN <<>> ELSE free_ranges
  /\ UNCHANGED <<offset, until, zeroed, content, work, flushVars, listVars, gpuVars, queueVars, trackVars, calls>>

-----------------------------------------------------------------------------

Gpu == GpuTransfers \/ \E q \in Queues : GpuWork(q)
Flush == Submit \/ (\E recorded \in BOOLEAN : FlushFails(recorded)) \/ (\E q \in Queues : AddWait(q)) \/ FlushEnds
Track == TakeBatch \/ ReleaseTracked
Free(o) == CheckDone(o) \/ TakeFromList(o) \/ NotInList(o) \/ Waited(o) \/ ReturnRange(o) \/ ReturnMemory(o)

Next ==
  \/ \E a \in Allocs :
       \/ \E z \in Kinds : Suballocate(a, z) \/ Allocate(a, z)
       \/ FillAllocation(a) \/ ExecuteCommandLists(a) \/ FreeMemory(a)
       \/ \E q \in Queues : SubmitWork(a, q)
  \/ \E r \in Textures : WriteSubresource(r) \/ ReleaseTexture(r)
  \/ Gpu \/ Flush \/ Track
  \/ \E o \in Objects : Free(o)

Spec == Init /\ [][Next]_vars

\* The VkQueues and the threads run. Weak fairness is enough for the mutexes: with
\* the calls bounded, they are free for good in the end.
FairSpec ==
  /\ Spec
  /\ WF_vars(Gpu) /\ WF_vars(Flush) /\ WF_vars(TakeBatch) /\ WF_vars(ReleaseTracked)
  /\ \A o \in Objects : WF_vars(Free(o))
  /\ \A a \in Allocs : WF_vars(\E q \in Queues : SubmitWork(a, q))

-----------------------------------------------------------------------------
(* Properties                                                              *)

\* Types of all variables, with the owners of the mutex.
TypeOK ==
  /\ pc \in [Objects -> {"none", "taken", "flushes", "live", "check", "search", "blocked", "returns"}]
  /\ clear \in [Objects -> 0 .. next] /\ until \in [Objects -> 0 .. next]
  /\ zeroed \in [Allocs -> BOOLEAN]
  /\ content \in [Memories -> {"old", "zero", "data", "spoilt"}]
  /\ offset \in [Subs -> 0 .. ChunkSize - 1]
  /\ work \in [Allocs -> {"none", "flushes", "queued", "submitted"}]
  /\ mutex \in {"free", "submit", "waits"} /\ flusher \in Objects \cup {Nobody} /\ todo \subseteq Queues
  /\ (mutex = "free") => (flusher = Nobody /\ todo = {})
  /\ \A i \in DOMAIN transfers :
       transfers[i] \in {Clear(a) : a \in Allocs} \cup {Write(r) : r \in Textures}
  /\ pending \in Nat /\ next \in Nat /\ buffer \in 0 .. Buffers - 1 /\ sem \in 0 .. next
  /\ withdrawn \in BOOLEAN
  /\ waits \in [Queues -> 0 .. next]
  /\ mine \in [Textures -> BOOLEAN] /\ refs \in [Textures -> Nat]

Listed(o) == mutex # "waits" /\ Clear(o) \in Range(transfers)
Running(o) == \E i \in DOMAIN onGpu : Clear(o) \in Range(onGpu[i].ops)
Memory(o) == IF o \in Subs THEN Chunk ELSE o

\* A clear that is listed, or that the GPU has not finished, has memory to write:
\* vkd3d_free_memory and the destruction of a chunk remove the one and wait for
\* the other. A suballocation may be given back before its clear is done; its
\* chunk may not.
ClearsHaveMemory ==
  \A a \in Allocs :
    /\ Listed(a) => pc[a] \in {"flushes", "live", "check", "search"}
    /\ Running(a) => pc[Memory(a)] # "none"

\* New memory that must read as zero does so when a command list uses it, and no
\* clear hits memory that was used, also not the one of an earlier owner of the
\* same range: what ExecuteCommandLists flushes comes first on every queue.
NothingIsSpoilt == \A m \in Memories : content[m] # "spoilt"

\* wait_allocation never waits for a value that nobody signals, also when the
\* clear that gave a chunk its value was taken from the list.
WaitIsSubmitted == \A o \in Objects : pc[o] = "blocked" => until[o] < next

\* num_bytes_pending is the size of the clears in the list: what is removed or
\* flushed is subtracted.
PendingIsListed == pending = Cardinality({i \in DOMAIN transfers : transfers[i].op = "clear"})

\* A command buffer is recorded again only when the GPU is done with it.
CommandBuffersDiffer ==
  \A i, j \in DOMAIN onGpu : i # j => onGpu[i].buffer # onGpu[j].buffer

\* A texture with a write that is submitted and not finished is kept alive by the
\* tracking thread, however often it was written, flushed and waited for, after
\* flushes that failed, and when the application has released it.
WrittenTexturesLive ==
  \A i \in DOMAIN onGpu : \A t \in Range(onGpu[i].ops) : t.op = "write" => refs[t.of] > 0

\* So is one with a write that is listed: nobody but the application keeps it
\* (memory.c:560-575). Fails (MemoryListed.cfg).
ListedTexturesLive ==
  \A t \in Range(transfers) : t.op = "write" => mine[t.of] \/ refs[t.of] > 0

\* vkd3d_memory_transfer_queue_poll_allocation_idle, which Release asks for any
\* allocation with a clear_semaphore_value, its own or that of the chunk.
PollsIdle(a) == pc[a] = "live" /\ clear[a] # 0 /\ clear[a] = next
InUse(a) == work[a] \in {"queued", "submitted"}

\* Memory that is polled idle is not in use, so that Release may free it at once:
\* always when it was to be zeroed, and with an inherited value as long as no clear
\* was taken from the list. (Then ExecuteCommandLists may find nothing to flush, and
\* next_signal_value stays what it was, memory.c:595-598.)
PolledIdleMeansUnused ==
  \A a \in Allocs : PollsIdle(a) /\ InUse(a) => ~zeroed[a] /\ withdrawn

\* Without exceptions, as memory.c:595-598 has it. Fails (MemoryInherited.cfg).
NothingInUseIsIdle == \A a \in Allocs : ~(PollsIdle(a) /\ InUse(a))

\* What the GPU touches exists: the memory of every clear, the command buffers and
\* the textures of the transfer queue (memory.c).
GpuAccessIsSafe == TypeOK /\ ClearsHaveMemory /\ CommandBuffersDiffer /\ WrittenTexturesLive

\* The list of transfers, its byte count and its semaphore values say what they are
\* relied on to say: by the memory's first use, by who frees it and by Release.
ListIsReliable == NothingIsSpoilt /\ WaitIsSubmitted /\ PendingIsListed /\ PolledIdleMeansUnused

\* A chunk with room for more ranges than the instance has suballocations.
AllocatorIsRight == RangesAreRight(2 * ChunkSize)

\* The suballocations that somebody holds are apart and aligned, and the free
\* ranges are the rest of the chunk, in whatever order memory came and went.
ChunkIsPartitioned ==
  LET held == {a \in Subs : pc[a] # "none"} IN
  /\ \A a \in held : offset[a] % AlignmentOf[a] = 0 /\ MemoryOf(a) \subseteq 0 .. ChunkSize - 1
  /\ \A a, b \in held : a # b => MemoryOf(a) \cap MemoryOf(b) = {}
  /\ pc[Chunk] # "none" => free_ranges = FreeRanges((0 .. ChunkSize - 1) \ UNION {MemoryOf(a) : a \in held})

\* The allocator hands out memory that is free, and does not lose any, here and
\* with any other free cells (memory.c:1604, memory.c:1691).
RangesAreKept == ChunkIsPartitioned /\ AllocatorIsRight

\* vkd3d_free_memory returns, and so does the destruction of the chunk.
FreeReturns == \A o \in Objects : pc[o] \in {"check", "search", "blocked"} ~> pc[o] \in {"returns", "none"}

\* The tracking thread gives back every reference. (After a failed flush it waits
\* for a flush that succeeds, which may never come.)
TrackedReleased ==
  (tracked # <<>> \/ batch # <<>>) ~> ((tracked = <<>> /\ batch = <<>>) \/ calls["fails"] > 0)

\* Freeing memory and tracking textures come to an end (memory.c:622, memory.c:37).
EveryoneGetsThrough == FreeReturns /\ TrackedReleased
=============================================================================
