------------------------------ MODULE DiskCache ------------------------------
(***************************************************************************)
(* The on-disk cache of pipelines and SPIR-V (cache.c): an archive that is  *)
(* only read, one that is only written, and a merge of the two by the disk  *)
(* thread when a device is created.  Processes are killed, devices are      *)
(* destroyed while the merge runs, and two instances of an application may  *)
(* run at once, with nothing but renames between them.                      *)
(***************************************************************************)
EXTENDS Integers, Sequences, FiniteSets, Functions, SequencesExt

CONSTANTS
  Processes,     \* instances of the application, each with one device
  Pipelines, Code,
  CodeOf,        \* CodeOf[x]: the SPIR-V that pipeline x links to
  None,          \* no file
  MaxSessions,   \* bound: devices created
  MaxCrashes,    \* bound: processes killed
  MaxBuilds      \* bound: builds of vkd3d that are used, one after the other

ASSUME CacheAssumption ==
  /\ IsFiniteSet(Processes) /\ IsFiniteSet(Code) /\ Pipelines \cap Code = {}
  /\ CodeOf \in [Pipelines -> SUBSET Code]
  /\ MaxBuilds \in Nat \ {0}

VARIABLES
  path,       \* path[n]: the file with name n
  data,       \* data[f]: what is in file f
  proc,       \* proc[p]: the disk cache of process p
  build,      \* the build of vkd3d
  calls,      \* sessions and crashes so far
  promised,   \* history: what the next session has to find
  lost,       \* history: SPIR-V of the archives that cut-off merges took away
  disturbed   \* history: two processes ran at the same time

vars == <<path, data, proc, build, calls, promised, lost, disturbed>>

Names == {"read", "write", "merge"}
Files == 1 .. 3 + Cardinality(Processes)

\* The first entry of an archive; the others are pipelines and SPIR-V. An entry
\* that is not written completely, or is overwritten, ends what can be read.
Header(b) == <<"header", b>>
Torn == <<"torn">>
Whole(s) == SubSeq(s, 1, Min({k \in DOMAIN s : s[k] = Torn} \cup {Len(s) + 1}) - 1)
IsValid(s) == s # <<>> /\ s[1] = Header(build)

ASSUME NamesAssumption ==
  /\ None \notin Files
  /\ Torn \notin Pipelines \cup Code
  /\ \A b \in 1 .. MaxBuilds : Header(b) \notin Pipelines \cup Code

Off == [pc |-> "off", closing |-> FALSE, items |-> <<>>, library |-> {},
        attempted |-> FALSE, file |-> None, written |-> 0, buffer |-> <<>>,
        write_map |-> <<>>, map |-> {},
        created |-> {}, alone |-> FALSE, setup |-> FALSE]

Init ==
  /\ path = [n \in Names |-> None] /\ data = [f \in Files |-> <<>>]
  /\ proc = [p \in Processes |-> Off]
  /\ build = 1 /\ calls = [sessions |-> 0, crashes |-> 0]
  /\ promised = {} /\ lost = {} /\ disturbed = FALSE

\* vkd3d_file_rename_no_replace, _rename_overwrite and _delete
CanRename(from, to) == path[from] # None /\ path[to] = None
Renamed(from, to) ==
  IF path[from] = None THEN path ELSE [path EXCEPT ![to] = path[from], ![from] = None]
Deleted(n) == [path EXCEPT ![n] = None]

\* Process p is at pc, and goes on somewhere else.
At(p, pc) == proc[p].pc = pc
Go(p, pc) == proc' = [proc EXCEPT ![p].pc = pc]
Running(p) == proc[p].pc # "off"
Alone(p) == \A q \in Processes \ {p} : ~Running(q)
history == <<build, calls, promised, lost, disturbed>>

-----------------------------------------------------------------------------
(* The application                                                         *)

\* A device is created, and the disk thread with it.
Start(p) ==
  /\ ~Running(p) /\ calls.sessions < MaxSessions
  /\ calls' = [calls EXCEPT !.sessions = @ + 1]
  /\ IF Alone(p)
     THEN /\ proc' = [proc EXCEPT ![p] = [Off EXCEPT !.pc = "promote", !.alone = TRUE]]
          /\ UNCHANGED <<promised, disturbed>>
     ELSE /\ proc' = [q \in Processes |-> IF q = p THEN [Off EXCEPT !.pc = "promote"]
                                          ELSE [proc[q] EXCEPT !.alone = FALSE]]
          /\ promised' = {} /\ disturbed' = TRUE
  /\ UNCHANGED <<path, data, build, lost>>

\* A pipeline that is not found is compiled and stored.
CreatePipeline(p, x) ==
  /\ Running(p) /\ ~proc[p].closing
  /\ x \notin proc[p].library /\ x \notin proc[p].created
  /\ proc' = [proc EXCEPT ![p].items = Append(@, x), ![p].created = @ \cup {x}]
  /\ UNCHANGED <<path, data, history>>

\* vkd3d_pipeline_library_flush_disk_cache: the device is destroyed.
FlushDiskCache(p) ==
  /\ Running(p) /\ ~proc[p].closing
  /\ proc' = [proc EXCEPT ![p].closing = TRUE]
  /\ UNCHANGED <<path, data, history>>

-----------------------------------------------------------------------------
(* vkd3d_pipeline_library_disk_cache_merge                                 *)

\* With no read-only archive, the other one takes its place.
Promote(p) ==
  /\ At(p, "promote")
  /\ IF CanRename("write", "read")
     THEN path' = Renamed("write", "read") /\ Go(p, "delete_write")
     ELSE path' = path /\ Go(p, "map_write")
  /\ UNCHANGED <<data, history>>

\* A write-only archive that is missing or out of date is not merged.
MapWrite(p) ==
  LET f == path["write"] IN
  /\ At(p, "map_write")
  /\ IF f # None /\ IsValid(data[f])
     THEN proc' = [proc EXCEPT ![p].pc = "take_read", ![p].write_map = Tail(Whole(data[f]))]
     ELSE Go(p, "delete_write")
  /\ UNCHANGED <<path, data, history>>

TakeRead(p) ==
  /\ At(p, "take_read")
  /\ IF CanRename("read", "merge")
     THEN path' = Renamed("read", "merge") /\ Go(p, "open_merge")
     ELSE path' = path /\ Go(p, "delete_write")
  /\ UNCHANGED <<data, history>>

\* The archive to append to, unless another process took it; one that is out of
\* date is replaced.
OpenMerge(p) ==
  LET f == path["merge"] IN
  /\ At(p, "open_merge")
  /\ IF f = None THEN Go(p, "delete_write")
     ELSE IF IsValid(data[f])
     THEN proc' = [proc EXCEPT ![p].pc = "parse", ![p].file = f]
     ELSE Go(p, "drop_read")
  /\ UNCHANGED <<path, data, history>>

DropRead(p) ==
  /\ At(p, "drop_read")
  /\ path' = Deleted("merge") /\ Go(p, "replace_read")
  /\ UNCHANGED <<data, history>>

ReplaceRead(p) ==
  /\ At(p, "replace_read")
  /\ path' = Renamed("write", "read") /\ Go(p, "delete_write")
  /\ UNCHANGED <<data, history>>

\* What is there is known; new entries go after the last one that is whole.
Parse(p) ==
  LET s == Whole(data[proc[p].file]) IN
  /\ At(p, "parse")
  /\ proc' = [proc EXCEPT ![p].pc = "append", ![p].map = Range(s), ![p].written = Len(s)]
  /\ UNCHANGED <<path, data, history>>

\* An entry of the write-only archive is appended, unless it is known.
MergeEntry(p) ==
  LET e == Head(proc[p].write_map) IN
  /\ At(p, "append") /\ proc[p].write_map # <<>>
  /\ proc' = [proc EXCEPT ![p].write_map = Tail(@), ![p].map = @ \cup {e},
                          ![p].buffer = IF e \in proc[p].map THEN @ ELSE Append(@, e)]
  /\ UNCHANGED <<path, data, history>>

\* A file after s was written at an offset: whatever else was there from that
\* offset on cannot be read any more.
FileWith(old, offset, s) ==
  LET n == offset + Len(s) IN
  IF s = <<>> THEN old
  ELSE [k \in 1 .. (IF Len(old) > n THEN Len(old) ELSE n) |->
          IF k <= offset THEN old[k] ELSE IF k <= n THEN s[k - offset] ELSE Torn]

\* What stdio has not written yet goes to the file, at the process's own offset.
Written(p, s) ==
  [data EXCEPT ![proc[p].file] = FileWith(@, proc[p].written, s)]

\* fclose
Close(p, pc) ==
  /\ data' = Written(p, proc[p].buffer)
  /\ proc' = [proc EXCEPT ![p].pc = pc, ![p].file = None, ![p].written = 0,
                          ![p].buffer = <<>>, ![p].write_map = <<>>, ![p].map = {}]

Merge(p) ==
  /\ At(p, "append") /\ proc[p].write_map = <<>>
  /\ Close(p, "replace")
  /\ UNCHANGED <<path, history>>

\* The device is being destroyed, which is looked at before each entry of either
\* archive: the file goes back, with what was appended.
CancelMerge(p) ==
  /\ proc[p].closing
  /\ \/ At(p, "parse") /\ Len(data[proc[p].file]) > 1
     \/ At(p, "append") /\ proc[p].write_map # <<>>
  /\ Close(p, "put_back")
  /\ UNCHANGED <<path, history>>

PutBack(p) ==
  /\ At(p, "put_back")
  /\ path' = Renamed("merge", "read") /\ Go(p, "load")
  /\ UNCHANGED <<data, history>>

Replace(p) ==
  /\ At(p, "replace")
  /\ path' = Renamed("merge", "read") /\ Go(p, "delete_write")
  /\ UNCHANGED <<data, history>>

DeleteWrite(p) ==
  /\ At(p, "delete_write")
  /\ path' = Deleted("write") /\ Go(p, "delete_merge")
  /\ UNCHANGED <<data, history>>

\* Faulty variant: a merge file of a process that was killed stays.
DeleteMerge_Not(p) ==
  /\ At(p, "delete_merge")
  /\ Go(p, "load")
  /\ UNCHANGED <<path, data, history>>

DeleteMerge(p) ==
  /\ At(p, "delete_merge")
  /\ path' = Deleted("merge") /\ Go(p, "load")
  /\ UNCHANGED <<data, history>>

\* read_blob_stream_format: the archive is mapped and parsed, until the end, an
\* entry that is not whole, or the destruction of the device.
Load(p) ==
  LET f == path["read"]
      s == IF f = None \/ ~IsValid(data[f]) THEN <<>> ELSE Tail(Whole(data[f])) IN
  /\ At(p, "load")
  /\ \E n \in (IF proc[p].closing THEN 0 ELSE Len(s)) .. Len(s) :
       proc' = [proc EXCEPT ![p].pc = "loop", ![p].setup = ~proc[p].closing,
                            ![p].library = Range(SubSeq(s, 1, n))]
  /\ UNCHANGED <<path, data, history>>

-----------------------------------------------------------------------------
(* vkd3d_pipeline_library_disk_thread_main                                 *)

\* Faulty variant: the pipeline is written before what it links to.
Blobs_PipelineFirst(p, x) ==
  IF x \in proc[p].library THEN <<>>
  ELSE <<x>> \o SetToSeq(CodeOf[x] \ proc[p].library)

\* save_pipeline_state: what is known is not written again; SPIR-V comes first.
Blobs(p, x) ==
  IF x \in proc[p].library THEN <<>>
  ELSE SetToSeq(CodeOf[x] \ proc[p].library) \o <<x>>

\* A file that no name and no process refers to.
FreeFile ==
  CHOOSE f \in Files : f \notin Range(path) /\ \A p \in Processes : f # proc[p].file

\* notify_blob_insert: the first blob creates the file, exclusively.
Save(p) ==
  LET item   == Head(proc[p].items)
      blobs  == Blobs(p, item)
      first  == blobs # <<>> /\ ~proc[p].attempted
      opens  == first /\ path["write"] = None
      target == IF opens THEN FreeFile ELSE proc[p].file IN
  /\ At(p, "loop") /\ proc[p].items # <<>>
  /\ path' = IF opens THEN [path EXCEPT !["write"] = target] ELSE path
  /\ data' = IF opens THEN [data EXCEPT ![target] = <<>>] ELSE data
  /\ proc' = [proc EXCEPT ![p].items = Tail(@), ![p].library = @ \cup Range(blobs),
                          ![p].attempted = @ \/ first, ![p].file = target,
                          ![p].buffer = IF target = None THEN @
                                        ELSE @ \o (IF opens THEN <<Header(build)>> ELSE <<>>) \o blobs]
  /\ UNCHANGED history

\* The buffer is full, or things have been quiet for a second: a part of the
\* buffer is written, or all of it.
WriteBuffer(p) ==
  /\ proc[p].pc \in {"append", "loop"} /\ proc[p].buffer # <<>>
  /\ \E n \in 0 .. Len(proc[p].buffer) : \E torn \in {<<>>, <<Torn>>} :
       /\ n = Len(proc[p].buffer) => torn = <<>>
       /\ n = 0 => torn # <<>>
       /\ data' = Written(p, SubSeq(proc[p].buffer, 1, n) \o torn)
       /\ proc' = [proc EXCEPT ![p].written = @ + n,
                               ![p].buffer = SubSeq(@, n + 1, Len(@))]
  /\ UNCHANGED <<path, history>>

\* What a session leaves to the next one, if nothing disturbed it.
Promise(p) ==
  IF proc[p].alone /\ proc[p].setup THEN proc[p].created ELSE {}

\* thread_active is FALSE: the last pipelines are saved, the file is closed, and
\* the thread is joined.
EndThread(p) ==
  /\ At(p, "loop") /\ proc[p].closing /\ proc[p].items = <<>>
  /\ data' = IF proc[p].file = None THEN data ELSE Written(p, proc[p].buffer)
  /\ proc' = [proc EXCEPT ![p] = Off]
  /\ promised' = promised \cup Promise(p)
  /\ UNCHANGED <<path, build, calls, lost, disturbed>>

DiskThread(p) ==
  \/ Promote(p) \/ MapWrite(p) \/ TakeRead(p) \/ OpenMerge(p) \/ DropRead(p) \/ ReplaceRead(p)
  \/ Parse(p) \/ MergeEntry(p) \/ Merge(p) \/ CancelMerge(p) \/ PutBack(p) \/ Replace(p)
  \/ DeleteWrite(p) \/ DeleteMerge(p) \/ Load(p) \/ Save(p) \/ WriteBuffer(p) \/ EndThread(p)

-----------------------------------------------------------------------------
(* What goes wrong                                                         *)

\* The process is killed; what it has not written is lost. A merge that is cut
\* off, between taking the read-only archive away and giving it back, costs what
\* was in that archive alone: nobody looks for it under the name of the merge.
Crash(p) ==
  /\ Running(p) /\ calls.crashes < MaxCrashes
  /\ calls' = [calls EXCEPT !.crashes = @ + 1]
  /\ proc' = [proc EXCEPT ![p] = Off]
  /\ IF path["read"] = None /\ path["merge"] # None /\ IsValid(data[path["merge"]])
     THEN /\ lost' = lost \cup (Code \cap Range(Whole(data[path["merge"]])))
          /\ promised' = IF path["write"] = None THEN {}
                         ELSE promised \cap Range(Whole(data[path["write"]]))
     ELSE UNCHANGED <<promised, lost>>
  /\ UNCHANGED <<path, data, build, disturbed>>

\* Another build of vkd3d is installed: it does not read what the last one wrote.
Upgrade ==
  /\ \A p \in Processes : ~Running(p)
  /\ build < MaxBuilds
  /\ build' = build + 1 /\ promised' = {}
  /\ UNCHANGED <<path, data, proc, calls, lost, disturbed>>

Next ==
  \/ \E p \in Processes :
       \/ Start(p) \/ FlushDiskCache(p) \/ Crash(p) \/ DiskThread(p)
       \/ \E x \in Pipelines : CreatePipeline(p, x)
  \/ Upgrade

Spec == Init /\ [][Next]_vars

-----------------------------------------------------------------------------
(* Properties                                                              *)

\* A file has one name, a process has written what it says, and only items that
\* were created wait for the disk thread.
TypeOK ==
  /\ path \in [Names -> Files \cup {None}]
  /\ \A m, n \in Names : m # n /\ path[m] # None => path[m] # path[n]
  /\ \A p \in Processes :
       /\ proc[p].library \subseteq Pipelines \cup Code
       /\ Range(proc[p].items) \subseteq proc[p].created
       /\ proc[p].file # None => proc[p].written <= Len(data[proc[p].file])

\* A pipeline that was compiled in a session that ended as it should is found
\* by every later one, whatever sessions were killed, cancelled or merged in
\* between, and whichever of the archives it is in: only a merge that was cut
\* off, another build, or a process that ran at the same time takes it away
\* (vkd3d_pipeline_library_disk_cache_merge, cache.c:3145-3153).
PromisesAreKept ==
  \A p \in Processes : proc[p].alone /\ proc[p].setup => promised \subseteq proc[p].library

\* A pipeline that is found finds the SPIR-V it links to, although the links
\* cross the archives and a session may be killed between any two writes and
\* renames: it misses only SPIR-V that lay in an archive which a merge that was
\* cut off took away (d3d12_pipeline_library_read_blob_stream_format,
\* cache.c:2994, 3153).
LibraryIsClosed ==
  ~disturbed =>
    \A p \in Processes : \A x \in proc[p].library \cap Pipelines :
      CodeOf[x] \subseteq proc[p].library \cup lost

\* The library of a process is what the archives promise.
LibraryIsWhole == TypeOK /\ LibraryIsClosed

\* Whatever becomes of a merge file that lies around, the archives are in a
\* consistent state afterwards: a pipeline is found with the SPIR-V it links to
\* (cache.c:2989-2992).
ArchivesAreConsistent ==
  \A p \in Processes : \A x \in proc[p].library \cap Pipelines : CodeOf[x] \subseteq proc[p].library
=============================================================================
