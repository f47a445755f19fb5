---------------------------- MODULE MCLifecycles ----------------------------
(***************************************************************************)
(* What loading and unloading each driver leaves behind, releases without  *)
(* holding it, or lets others use too early or too late: stated driver by  *)
(* driver, whatever step of init fails.                                    *)
(***************************************************************************)
EXTENDS DriverLifecycles, ExampleLifecycles, NvmLifecycles

Two(r) == {Dev(r, 1), Dev(r, 2)}
Pairs(r, rs) == UNION {{Dev(r, i)} \X {Dev(x, i) : x \in rs} : i \in 1 .. 2}

\* Nothing wrong, whatever fails: the platform driver and its device, pcmsim, the caches
\* of pmfs, the drivers of one registration and of entries in /proc.
ASSUME NothingWrong ==
  \A d \in {GlobalfifoPlatform, GlobalfifoDevice, PcmsimModule(2), PmfsModule, CompleteModule,
             SleepyModule, FaultyModule, JitModule, JiqModule, SeqModule} : Report(d) = Clean

\* The character drivers report a cdev that could not be added and delete it all the same;
\* those with a mutex or queues make the device public before these are initialised.
CdevOnly(cdevs, pairs) == [Clean EXCEPT !.bad = cdevs, !.early = pairs]
ASSUME CharacterDrivers ==
  /\ \A d \in {GlobalmemModule, SecondModule} : Report(d) = CdevOnly({"cdev1"}, {})
  /\ \A d \in {MultiGlobalmemModule, SimpleModule, ScullpModule, ScullvModule} :
       Report(d) = CdevOnly(Two("cdev"), {})
  /\ Report(GlobalmemMutexModule) = CdevOnly({"cdev1"}, {<<"cdev1", "mutex1">>})
  /\ \A d \in {GlobalfifoModule8, GlobalfifoModule9} :
       Report(d) = CdevOnly({"cdev1"}, {"cdev1"} \X {"mutex1", "r_wait1", "w_wait1"})
  /\ Report(TdlcdModule) = CdevOnly(Two("cdev"), Pairs("cdev", {"mutex"}))
  /\ Report(TdlcdFifoModule) = CdevOnly(Two("cdev"), Pairs("cdev", {"mutex", "r_wait", "w_wait"}))
  /\ Report(ScullcModule) = CdevOnly(Two("cdev"), Two("cdev") \X {"cache"})

\* Even when every step of loading succeeds, tdlcd deletes the cdev of device 0 twice.
ASSUME DeletedTwice ==
  \A d \in {TdlcdModule, TdlcdFifoModule} :
    LET loaded == FoldLeft(LAMBDA s, step : Acquired(d, s, step), CHOOSE s \in Start : TRUE, d.steps) IN
    Released(d, loaded, d.exit).bad = {"cdev1"}

\* scull: its cleanup takes the access devices for registered ones, always.
ASSUME Scull ==
  /\ Report(ScullModule) =
       [Clean EXCEPT !.bad = Two("cdev") \cup Two("p_cdev") \cup Two("a_cdev") \cup {"a_region"}]
  /\ Report(SculldModule) =
       [Clean EXCEPT !.bad = Two("cdev") \cup Two("ldev") \cup {"driver"}, !.leaks = {"driver"}]
  /\ Report(LddBus) = [Clean EXCEPT !.leaks = {"bus", "version"}]
  /\ Report(LddDriver) = [Clean EXCEPT !.leaks = {"driver"}]

\* The block drivers free a store twice when the queue or the disk cannot be had; the RAM
\* disk simulator vfrees an address of the reserved high memory, and never unmaps it.
ASSUME BlockDrivers ==
  /\ \A d \in {TdlbdModule, VmemDiskModule} : Report(d) = [Clean EXCEPT !.bad = Two("data")]
  /\ Report(SbullModule) = [Clean EXCEPT !.bad = Two("data") \cup Two("timer"), !.late = Pairs("added", {"timer"})]
  /\ Report(NvmModule(2, FALSE)) = [Clean EXCEPT !.bad = {"region"}]
  /\ Report(NvmModule(2, TRUE)) =
       [Clean EXCEPT !.bad = {"region"} \cup Two("data"), !.leaks = {"highmem"} \cup Two("highdata")]

\* pmbd: a device that fails in pmbd_create leaves everything behind that this has got, a
\* syncer that goes on with the freed device too; a failed statistics block is used.
ASSUME Pmbd ==
  \A high \in BOOLEAN :
    Report(PmbdModule(2, high)) =
      [leaks |-> UNION {Two(x) : x \in {"disk", "stat", "mem", "buffers", "buffer", "space", "bbi", "sort",
                                         "syncer", "checksum", "iomem_buf", "pbi"}}
                   \cup {"pmap", "proc", "pmbdstat", "pmbdcfg"} \cup (IF high THEN {"highmem"} ELSE {}),
       bad |-> {}, early |-> Pairs("added", {"stat"}), late |-> Pairs("syncer", {"pmbd"})]

\* pmfs: a mount that fails after the journal has started leaves the log cleaner running
\* on what is then unmapped and freed; a failed map keeps its region.
ASSUME PmfsMounts ==
  \A format \in BOOLEAN :
    Report(PmfsMount(format)) =
      [leaks |-> {"region", "cleaner"} \cup (IF format THEN {"blocknodes"} ELSE {}),
       bad |-> {}, early |-> {}, late |-> {"cleaner"} \X {"sbi", "map"}]

\* pcmsim: after a success the number has a device, and no other is touched.
ASSUME ProbeMakes ==
  \A D \in SUBSET (0 .. 2), i \in 0 .. 2 : \A after \in PcmsimProbe(D, i) : D \subseteq after /\ after \subseteq D \cup {i}

\* snull unregisters a device that was never registered when its twin cannot be had.
ASSUME Snull == Report(SnullModule) = [Clean EXCEPT !.bad = Two("netdev")]

\* The drivers of the parallel port: the regions, the buffers and what a handler finds.
ASSUME Ports ==
  /\ \A share, bh \in BOOLEAN :
       LET early == ({"chrdev", "irq"} \X {"buffer", "work"}) \ {<<"irq", "work">>}
           late == {<<"chrdev", "work">>} IN
       /\ Report(ShortModule(FALSE, share, bh)) = [Clean EXCEPT !.early = early, !.late = late]
       /\ Report(ShortModule(TRUE, share, bh)) =
            [leaks |-> {"memregion", "ioremap"}, bad |-> {"region", "ioremap"}, early |-> early, late |-> late]
  /\ Report(ShortprintModule) =
       [Clean EXCEPT !.bad = {"workqueue"},
         !.early = ({"chrdev", "irq"} \X {"in_buffer", "out_buffer", "workqueue"})
                     \cup ({"chrdev"} \X {"sem", "timer"})]
  /\ Report(SillyModule) =
       [Clean EXCEPT !.bad = {"ioremap"}, !.early = {<<"chrdev", "ioremap">>}, !.late = {<<"chrdev", "ioremap">>}]

\* The other examples.
ASSUME Others ==
  /\ Report(TinyTty) = [Clean EXCEPT !.leaks = {"driver"}, !.bad = Two("tty")]
  /\ Report(TinySerial) = [Clean EXCEPT !.leaks = {"driver", "port"}]
  /\ Report(UsbSkel) = [Clean EXCEPT !.late = {<<"minor", "intfdata">>}]
  /\ Report(SkullModule) = [Clean EXCEPT !.leaks = {"ioremap", "region1", "region2"}]
  /\ Report(PciSkel) = [Clean EXCEPT !.leaks = {"enabled"}]
=============================================================================
