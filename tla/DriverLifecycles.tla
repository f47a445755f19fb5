-------------------------- MODULE DriverLifecycles --------------------------
(***************************************************************************)
(* Loading and unloading of the drivers under code/, two devices each      *)
(* where the driver has several.                                           *)
(***************************************************************************)
EXTENDS Lifecycle

\* The character drivers: a region of numbers, the memory of the n devices, and for
\* each of them a cdev and then what its handlers need; exit may release more.
CharDriver(n, needs, more) ==
  Driver(
    <<Take("chrdev", <<>>), Take("devp", Free(<<"chrdev">>))>>
      \o ForEach(n, LAMBDA i : <<Public(Lax(Dev("cdev", i)))>>
                                 \o [k \in DOMAIN needs |-> Have(Dev(needs[k], i))]),
    Free([i \in 1 .. n |-> Dev("cdev", i)]) \o more
      \o Free(FlattenSeq([i \in 1 .. n |-> [k \in DOMAIN needs |-> Dev(needs[k], i)]]))
      \o Free(<<"devp", "chrdev">>),
    UNION {{Dev("cdev", i)} \X ({"devp"} \cup {Dev(needs[k], i) : k \in DOMAIN needs}) : i \in 1 .. n})

\* tdlcd_init and tdlcd_exit, which deletes the cdev of the first device once more.
TdlcdFifoModule == CharDriver(2, <<"mutex", "r_wait", "w_wait">>, Free(<<"cdev1">>))
TdlcdModule == CharDriver(2, <<"mutex">>, Free(<<"cdev1">>))

\* globalmem_init and globalmem_exit, of ch6, of ch6 with several devices, of ch7.
GlobalmemModule == CharDriver(1, <<>>, <<>>)
MultiGlobalmemModule == CharDriver(2, <<>>, <<>>)
GlobalmemMutexModule == CharDriver(1, <<"mutex">>, <<>>)

\* globalfifo_init and globalfifo_exit, of ch8 and of ch9.
GlobalfifoModule8 == CharDriver(1, <<"mutex", "r_wait", "w_wait">>, <<>>)
GlobalfifoModule9 == CharDriver(1, <<"mutex", "r_wait", "w_wait">>, <<>>)

\* second_init and second_exit.
SecondModule == CharDriver(1, <<>>, <<>>)

\* globalfifo_probe and globalfifo_remove of ch12; devm_kzalloc's memory goes when
\* probe has failed and when remove has returned.
GlobalfifoPlatform ==
  Driver(<<Take("gl", <<>>), Have("mutex"), Have("r_wait"), Have("w_wait"),
           Public(Take("miscdev", Free(<<"w_wait", "r_wait", "mutex", "gl">>)))>>,
         Free(<<"miscdev", "w_wait", "r_wait", "mutex", "gl">>),
         {"miscdev"} \X {"gl", "mutex", "r_wait", "w_wait"})

\* globalfifodev_init and globalfifodev_exit.
GlobalfifoDevice ==
  Driver(<<Take("pdev", <<>>), Public(Take("added", Free(<<"pdev">>)))>>,
         Free(<<"added", "pdev">>), {"added"} \X {"pdev"})

-----------------------------------------------------------------------------
\* setup_device of the block drivers: after a failure the device is left half made, and
\* its store is freed but not forgotten.
SetupDevice(i) ==
  LET r(x) == Dev(x, i)
      Vfree == FreeIf(<<r("data")>>) IN
  <<Skip(r("data"), <<>>, 4), Have(r("lock")),
    Skip(r("queue"), Vfree, 2), Skip(r("gd"), Vfree, 1), Public(Have(r("added")))>>

\* Exit looks at the pointers; del_gendisk takes the disk away.
ExitDevice(i) ==
  LET r(x) == Dev(x, i) IN
  FreeIf(<<r("added"), r("gd"), r("queue"), r("lock"), r("data")>>)

BlockDriver(n) ==
  Driver(<<Take("blkdev", <<>>), Take("devices", Free(<<"blkdev">>))>> \o ForEach(n, SetupDevice),
         ForEach(n, ExitDevice) \o Free(<<"blkdev", "devices">>),
         UNION {{Dev("added", i)} \X {"devices", Dev("queue", i), Dev("data", i)} : i \in 1 .. n})

\* vmem_disk_init and vmem_disk_exit, of tdlbd and of vmem_disk.
TdlbdModule == BlockDriver(2)
VmemDiskModule == BlockDriver(2)

-----------------------------------------------------------------------------
\* nvm_alloc and nvm_free of device i.  In the reserved high memory hmalloc only moves
\* a mark, but the error path of nvm_alloc calls vfree with it.
NvmAlloc(i, high, undo) ==
  LET r(x) == Dev(x, i)
      data == IF high THEN r("highdata") ELSE r("data") IN
  <<Take(r("struct"), undo),
    Take(data, Free(<<r("struct")>>) \o undo),
    Take(r("queue"), Free(<<r("data"), r("struct")>>) \o undo),
    Take(r("disk"), Free(<<r("queue"), r("data"), r("struct")>>) \o undo)>>
NvmFree(i, high) ==
  LET r(x) == Dev(x, i) IN
  Free(<<r("disk"), r("queue"), IF high THEN r("highdata") ELSE r("data"), r("struct")>>)

\* nvm_init and nvm_exit, with the store in the reserved high memory or not.
NvmModule(n, high) ==
  LET Undo(i) == ForEach(i - 1, LAMBDA j : NvmFree(j, high)) \o Free(<<"blkdev">>) IN
  Driver((IF high THEN <<Take("highmem", <<>>)>> ELSE <<>>)
           \o <<Take("blkdev", <<>>)>>
           \o ForEach(n, LAMBDA i : NvmAlloc(i, high, Undo(i)))
           \o [i \in 1 .. n |-> Public(Have(Dev("added", i)))],
         ForEach(n, LAMBDA i : Free(<<Dev("added", i)>>) \o NvmFree(i, high))
           \o Free(<<"region", "blkdev">>),
         UNION {{Dev("added", i)} \X {Dev("struct", i), Dev("queue", i)} : i \in 1 .. n})
=============================================================================
