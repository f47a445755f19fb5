--------------------------- MODULE NvmLifecycles ----------------------------
(***************************************************************************)
(* Loading and unloading of the NVM reference drivers: pmbd, pcmsim and    *)
(* pmfs, and mounting and unmounting a pmfs.                               *)
(***************************************************************************)
EXTENDS Lifecycle

\* A check that may fail, and gets nothing.
Check(undo) == Step("", TRUE, undo, End)

-----------------------------------------------------------------------------
\* pmbd.  The parts of device i, and what the failure of one of them releases.

\* pmbd_buffer_create and its fail, pmbd_buffer_destroy.
PmbdBufferCreate(i, undo) ==
  LET r(x) == Dev(x, i)
      fail == FreeIf(<<r("sort"), r("bbi"), r("space"), r("buffer")>>) \o undo IN
  <<Take(r("buffer"), fail), Take(r("space"), fail), Take(r("bbi"), fail),
    Take(r("sort"), fail), Public(Take(r("syncer"), fail))>>
PmbdBufferDestroy(i) ==
  LET r(x) == Dev(x, i) IN FreeIf(<<r("syncer"), r("sort"), r("bbi"), r("space"), r("buffer")>>)

\* pmbd_buffer_space_alloc, pmbd_buffer_space_free.
PmbdBufferSpaceAlloc(i, undo) == <<Take(Dev("buffers", i), undo)>> \o PmbdBufferCreate(i, undo)
PmbdBufferSpaceFree(i) == PmbdBufferDestroy(i) \o Free(<<Dev("buffers", i)>>)

\* pmbd_checksum_space_alloc tries both parts before it fails; pmbd_checksum_space_free.
PmbdChecksumSpaceAlloc(i, undo) ==
  LET r(x) == Dev(x, i) IN
  <<Lax(r("checksum")), Lax(r("iomem_buf")), Need({{r("checksum")}, {r("iomem_buf")}}, undo)>>
PmbdChecksumSpaceFree(i) == FreeReset(<<Dev("checksum", i), Dev("iomem_buf", i)>>)

\* pmbd_pbi_space_alloc, pmbd_pbi_space_free.
PmbdPbiSpaceAlloc(i, undo) == <<Take(Dev("pbi", i), undo)>>
PmbdPbiSpaceFree(i) == FreeReset(<<Dev("pbi", i)>>)

\* pmbd_mem_space_alloc, pmbd_mem_space_free.
PmbdMemSpaceAlloc(i, undo) == <<Take(Dev("mem", i), undo)>>
PmbdMemSpaceFree(i) == FreeReset(<<Dev("mem", i)>>)

\* pmbd_stat_alloc forgets its error; pmbd_stat_free.
PmbdStatAlloc(i) == <<Lax(Dev("stat", i))>>
PmbdStatFree(i) == FreeReset(<<Dev("stat", i)>>)

\* pmbd_create leaves to its caller what it has got when it fails; pmbd_destroy.
PmbdCreate(i, undo) ==
  PmbdStatAlloc(i) \o PmbdMemSpaceAlloc(i, undo) \o PmbdBufferSpaceAlloc(i, undo)
    \o PmbdChecksumSpaceAlloc(i, undo) \o PmbdPbiSpaceAlloc(i, undo)
    \o <<Take(Dev("devstat", i), undo)>>
PmbdDestroy(i) ==
  Free(<<Dev("devstat", i)>>) \o PmbdBufferSpaceFree(i) \o PmbdPbiSpaceFree(i)
    \o PmbdChecksumSpaceFree(i) \o PmbdMemSpaceFree(i) \o PmbdStatFree(i)

\* pmbd_alloc, whose error path knows of the queue and the structure, and pmbd_free.
PmbdAlloc(i, undo) ==
  LET r(x) == Dev(x, i)
      fail == Free(<<r("queue"), r("pmbd")>>) \o undo IN
  <<Take(r("pmbd"), undo), Take(r("queue"), Free(<<r("pmbd")>>) \o undo), Take(r("disk"), fail)>>
    \o PmbdCreate(i, fail)
PmbdFree(i) ==
  Free(<<Dev("disk", i), Dev("queue", i)>>) \o PmbdDestroy(i) \o Free(<<Dev("pmbd", i)>>)

\* pmbd_proc_create, pmbd_proc_destroy.
PmbdProcCreate == <<Skip("proc", <<>>, 2), Skip("pmbdstat", <<>>, 1), Lax("pmbdcfg")>>
PmbdProcDestroy == FreeIf(<<"pmbdcfg", "pmbdstat", "proc">>)

\* pmbd_init and pmbd_exit, with the reserved high memory or not.
PmbdModule(n, high) ==
  LET undo(i) == ForEach(i - 1, PmbdFree) \o Free(<<"blkdev">>)
      memory == IF high THEN <<"highmem">> ELSE <<>> IN
  Driver(<<Have("pmap")>> \o [k \in DOMAIN memory |-> Take(memory[k], <<>>)]
           \o PmbdProcCreate \o <<Take("blkdev", <<>>)>>
           \o ForEach(n, LAMBDA i : PmbdAlloc(i, undo(i)))
           \o [i \in 1 .. n |-> Public(Have(Dev("added", i)))],
         ForEach(n, LAMBDA i : Free(<<Dev("added", i)>>) \o PmbdFree(i))
           \o FreeIf(memory) \o Free(<<"pmap", "blkdev">>) \o PmbdProcDestroy,
         UNION {{Dev("added", i)} \X {Dev(x, i) : x \in {"pmbd", "queue", "mem", "buffer", "pbi", "stat"}}
                  \cup {<<Dev("syncer", i), Dev("pmbd", i)>>} : i \in 1 .. n})

-----------------------------------------------------------------------------
\* pcmsim: pcm_model_allocate, pcm_model_free.
PcmModelAllocate(i, undo) ==
  LET r(x) == Dev(x, i) IN
  <<Take(r("model"), undo), Take(r("dirty"), Free(<<r("model")>>) \o undo)>>
PcmModelFree(i) == Free(<<Dev("dirty", i), Dev("model", i)>>)

\* pcmsim_alloc, pcmsim_free.
PcmsimAlloc(i, undo) ==
  LET r(x) == Dev(x, i)
      freeStruct == Free(<<r("pcmsim")>>) \o undo
      freeModel == PcmModelFree(i) \o freeStruct
      freeDev == Free(<<r("data")>>) \o freeModel IN
  <<Take(r("pcmsim"), undo)>> \o PcmModelAllocate(i, freeStruct)
    \o <<Take(r("data"), freeModel), Take(r("queue"), freeDev),
         Take(r("disk"), Free(<<r("queue")>>) \o freeDev)>>
PcmsimFree(i) ==
  LET r(x) == Dev(x, i) IN
  Free(<<r("disk"), r("queue")>>) \o PcmModelFree(i) \o FreeIf(<<r("data")>>) \o Free(<<r("pcmsim")>>)

\* pcmsim_init; pcmsim_exit, which calls pcmsim_del_one.
PcmsimModule(n) ==
  LET undo(i) == ForEach(i - 1, PcmsimFree) \o Free(<<"blkdev">>) IN
  Driver(<<Take("blkdev", <<>>)>> \o ForEach(n, LAMBDA i : PcmsimAlloc(i, undo(i)))
           \o [i \in 1 .. n |-> Public(Have(Dev("added", i)))] \o <<Public(Have("region"))>>,
         ForEach(n, LAMBDA i : Free(<<Dev("added", i)>>) \o PcmsimFree(i)) \o Free(<<"region", "blkdev">>),
         UNION {{Dev("added", i)} \X {Dev(x, i) : x \in {"pcmsim", "queue", "data", "model", "dirty"}}
                : i \in 1 .. n})

\* pcmsim_probe and pcmsim_init_one: opening a number without a device makes one.
PcmsimProbe(devices, i) == {devices \cup {i}} \cup (IF i \in devices THEN {} ELSE {devices})

-----------------------------------------------------------------------------
\* pmfs: init_pmfs_fs, exit_pmfs_fs.
PmfsModule ==
  LET out1 == Free(<<"blocknode_cache">>)
      out2 == Free(<<"transaction_cache">>) \o out1
      out3 == Free(<<"inode_cache">>) \o out2
      out4 == Free(<<"bdi">>) \o out3 IN
  Driver(<<Take("blocknode_cache", <<>>), Take("transaction_cache", out1), Take("inode_cache", out2),
           Take("bdi", out3), Public(Take("filesystem", out4))>>,
         Free(<<"filesystem", "bdi", "inode_cache", "blocknode_cache", "transaction_cache">>),
         {"filesystem"} \X {"blocknode_cache", "transaction_cache", "inode_cache", "bdi"})

\* pmfs_ioremap takes the region, then maps it; nothing gives the region back between.
PmfsIoremap(undo) == <<Take("region", undo), Take("map", undo)>>

\* pmfs_put_super, after the root has been put.
PmfsPutSuper == Free(<<"root">>) \o FreeIf(<<"cleaner">>) \o Free(<<"map", "region", "blocknodes", "sbi">>)

\* pmfs_fill_super, of a new file system (pmfs_init) or of one that is there, whose size
\* is read through a map of its first page; out.
PmfsMount(format) ==
  LET sbi == Free(<<"sbi">>)
      out == Under("map", <<"map", "region">>) \o sbi
      Cleaner == Public(Take("cleaner", out))
      created == PmfsIoremap(sbi) \o <<Check(out), Have("blocknodes"), Cleaner, Check(out)>>
      found == PmfsIoremap(sbi) \o <<Drop(FreeReset(<<"map", "region">>))>> \o PmfsIoremap(sbi)
                 \o <<Cleaner, Check(out), Check(out)>> IN
  Driver(<<Take("sbi", <<>>), Check(out)>> \o (IF format THEN created ELSE found)
           \o <<Check(out), Have("root")>> \o (IF format THEN <<>> ELSE <<Have("blocknodes")>>),
         PmfsPutSuper,
         {"cleaner"} \X {"sbi", "map"})
=============================================================================
