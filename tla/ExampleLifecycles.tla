------------------------- MODULE ExampleLifecycles --------------------------
(***************************************************************************)
(* Loading and unloading of the drivers under code/examples, with two      *)
(* devices where a driver has several.                                     *)
(***************************************************************************)
EXTENDS Lifecycle

Devs(r) == <<Dev(r, 1), Dev(r, 2)>>

\* The scull drivers: the region, what comes before the devices, the memory of the
\* devices, their semaphores and cdevs, what comes after them.
ScullSteps(before, undo, each(_), after) ==
  <<Take("chrdev", <<>>)>> \o before \o <<Take("devices", undo)>> \o ForEach(2, each) \o after
ScullDev(i) == <<Have(Dev("sem", i)), Public(Lax(Dev("cdev", i)))>>
ScullUses(more) ==
  UNION {{Dev("cdev", i)} \X ({"devices", Dev("sem", i)} \cup more) : i \in 1 .. 2}

\* scull_p_init, which fails for itself alone, and scull_p_cleanup.
PipeInit ==
  <<Skip("p_region", <<>>, 9), Skip("p_devices", Free(<<"p_region">>), 8)>>
    \o ForEach(2, LAMBDA i : <<Have(Dev("inq", i)), Have(Dev("outq", i)), Have(Dev("p_sem", i)),
                               Public(Lax(Dev("p_cdev", i)))>>)
PipeCleanup ==
  Under("p_devices", Devs("p_cdev") \o Devs("inq") \o Devs("outq") \o Devs("p_sem")
                       \o <<"p_devices", "p_region">>)

\* scull_access_init, whose cdevs are put when they cannot be added, and
\* scull_access_cleanup, which looks at nothing.
AccessInit ==
  <<Skip("a_region", <<>>, 4)>>
    \o ForEach(2, LAMBDA i : <<Have(Dev("a_sem", i)), Public(Lax(Dev("a_cdev", i)))>>)
AccessCleanup == Free(Devs("a_cdev") \o <<"a_region">>) \o FreeIf(Devs("a_sem"))

\* scull_init_module; scull_cleanup_module serves the failure of the kmalloc too.
ScullModule ==
  LET cleanup == Under("devices", Devs("cdev") \o Devs("sem") \o <<"devices">>)
                   \o Free(<<"chrdev">>) \o PipeCleanup \o AccessCleanup IN
  Driver(ScullSteps(<<>>, cleanup, ScullDev, PipeInit \o AccessInit), cleanup,
         ScullUses({})
           \cup UNION {{Dev("p_cdev", i)} \X {"p_devices", Dev("inq", i), Dev("outq", i), Dev("p_sem", i)}
                       : i \in 1 .. 2}
           \cup {<<Dev("a_cdev", i), Dev("a_sem", i)>> : i \in 1 .. 2})

\* scullc_init, whose cache comes last, and scullc_cleanup.
ScullcModule ==
  LET cleanup == FreeIf(<<"proc">>) \o Free(Devs("cdev") \o Devs("sem") \o <<"devices">>)
                   \o FreeIf(<<"cache">>) \o Free(<<"chrdev">>) IN
  Driver(ScullSteps(<<>>, Free(<<"chrdev">>), ScullDev, <<Take("cache", cleanup), Public(Lax("proc"))>>),
         cleanup, ScullUses({"cache"}) \cup {<<"proc", "devices">>})

\* scullp_init, scullv_init, which need nothing more, and their cleanup.
ScullPages ==
  Driver(ScullSteps(<<>>, Free(<<"chrdev">>), ScullDev, <<Public(Lax("proc"))>>),
         FreeIf(<<"proc">>) \o Free(Devs("cdev") \o Devs("sem") \o <<"devices", "chrdev">>),
         ScullUses({}) \cup {<<"proc", "devices">>})
ScullpModule == ScullPages
ScullvModule == ScullPages

\* sculld_init: its driver on the bus, and a device there for each of its own.
SculldModule ==
  Driver(ScullSteps(<<Lax("driver")>>, Free(<<"chrdev">>),
                    LAMBDA i : ScullDev(i) \o <<Public(Lax(Dev("ldev", i)))>>, <<Public(Lax("proc"))>>),
         FreeIf(<<"proc">>) \o Free(<<"ldev1", "cdev1", "ldev2", "cdev2">> \o Devs("sem")
                \o <<"devices", "driver", "chrdev">>),
         ScullUses({}) \cup {<<"proc", "devices">>} \cup {<<Dev("ldev", i), "devices">> : i \in 1 .. 2})

\* ldd_bus_init, ldd_bus_exit.
LddBus ==
  Driver(<<Public(Take("bus", <<>>)), Lax("version"), Take("ldd0", <<>>)>>,
         Free(<<"ldd0">>) \o FreeIf(<<"version">>) \o Free(<<"bus">>), {})

\* register_ldd_driver, unregister_ldd_driver.
LddDriver == Driver(<<Take("driver", <<>>), Take("attribute", <<>>)>>,
                    FreeIf(<<"attribute">>) \o Free(<<"driver">>), {})

-----------------------------------------------------------------------------
\* snull_init_module, which serves while one of the two devices does, and
\* snull_cleanup.  snull_init, with the pool, is part of alloc_netdev.
SnullModule ==
  LET r(x) == {Dev(x, i) : i \in 1 .. 2}
      cleanup == ForEach(2, LAMBDA i : Under(Dev("alloc", i), <<Dev("netdev", i), Dev("pool", i), Dev("alloc", i)>>)) IN
  Driver(ForEach(2, LAMBDA i : <<Skip(Dev("alloc", i), <<>>, 1), Have(Dev("pool", i))>>)
           \o <<Need({{x} : x \in r("alloc")}, cleanup)>>
           \o ForEach(2, LAMBDA i : <<Public(Lax(Dev("netdev", i)))>>) \o <<Need({r("netdev")}, cleanup)>>,
         cleanup, {<<Dev("netdev", i), Dev("pool", i)>> : i \in 1 .. 2})

\* setup_device, sbull_init and sbull_exit, which stops the timer whether or not there
\* is one, and puts a queue of the mode NOQUEUE.
SbullModule ==
  LET Setup(i) ==
        LET r(x) == Dev(x, i)
            vfree == FreeIf(<<r("data")>>) IN
        <<Skip(r("data"), <<>>, 4), Have(r("timer")),
          Skip(r("queue"), vfree, 2), Skip(r("gd"), vfree, 1), Public(Have(r("added")))>>
      Exit(i) == Free(<<Dev("timer", i)>>)
                   \o FreeIf(<<Dev("added", i), Dev("gd", i), Dev("queue", i), Dev("data", i)>>) IN
  Driver(<<Take("blkdev", <<>>), Take("devices", Free(<<"blkdev">>))>> \o ForEach(2, Setup),
         ForEach(2, Exit) \o Free(<<"blkdev", "devices">>),
         UNION {{Dev("added", i)} \X {"devices", Dev("timer", i), Dev("queue", i), Dev("data", i)} : i \in 1 .. 2})

\* short_init and short_cleanup, with ports or memory, a shared interrupt or not, and
\* with the handler replaced by one with a bottom half; short_irq is -1 after a failure.
ShortModule(mem, share, bh) ==
  LET region == IF mem THEN "memregion" ELSE "region"
      Irq == IF share THEN <<Public(Lax("irq"))>>
             ELSE IF bh THEN <<Public(Skip("irq", <<>>, 2)), Drop(FreeReset(<<"irq">>)), Public(Lax("irq"))>>
             ELSE <<Public(Lax("irq"))>> IN
  Driver(<<Take(region, <<>>)>> \o (IF mem THEN <<Lax("ioremap")>> ELSE <<>>)
           \o <<Public(Take("chrdev", Free(<<"region">>))), Lax("buffer"), Have("work")>> \o Irq,
         FreeReset(<<"irq">>) \o Free(<<"work", "chrdev">>)
           \o Free(IF mem THEN <<"ioremap", "memregion">> ELSE <<"region">>) \o FreeIf(<<"buffer">>),
         {"chrdev", "irq"} \X {"buffer", "work"})

\* shortp_init and shortp_cleanup.
ShortprintModule ==
  LET Cleanup == FreeIf(<<"irq">>) \o Free(<<"chrdev", "region">>)
                   \o Free(<<"workqueue">>) \o FreeIf(<<"in_buffer", "out_buffer", "sem", "timer">>) IN
  Driver(<<Take("region", <<>>), Public(Take("chrdev", Free(<<"region">>))), Lax("in_buffer"),
           Lax("out_buffer"), Have("sem"), Have("timer"), Lax("workqueue"), Public(Take("irq", Cleanup))>>,
         Cleanup,
         {"chrdev", "irq"} \X {"region", "in_buffer", "out_buffer", "sem", "timer", "workqueue"})

\* tiny_init and tiny_exit of the tty driver, which does not put it any more, and
\* tiny_init of the serial driver, which has no exit.
TinyTty == Driver(<<Take("driver", <<>>), Public(Take("registered", Free(<<"driver">>)))>>
                    \o [i \in 1 .. 2 |-> Public(Lax(Dev("tty", i)))],
                  Free(Devs("tty") \o <<"registered">>), {<<"registered", "driver">>})
TinySerial == Driver(<<Public(Take("driver", <<>>)), Public(Take("port", Free(<<"driver">>)))>>, <<>>, {})

\* skel_probe and skel_disconnect with the references of skel_delete; the minor, the
\* device's memory, the USB device and the buffer.
UsbSkel ==
  LET Delete == FreeIf(<<"udev", "buffer", "dev">>) IN
  Driver(<<Take("dev", <<>>), Have("udev"), Take("buffer", Delete), Have("intfdata"),
           Public(Take("minor", Free(<<"intfdata">>) \o Delete))>>,
         Free(<<"intfdata", "minor">>) \o Delete,
         {"minor"} \X {"dev", "udev", "buffer", "intfdata"})

\* simple_init, simple_cleanup.
SimpleModule == Driver(<<Take("chrdev", <<>>), Public(Lax("cdev1")), Public(Lax("cdev2"))>>,
                       Free(<<"cdev1", "cdev2", "chrdev">>), {})

\* silly_init, silly_cleanup.
SillyModule == Driver(<<Public(Take("chrdev", <<>>)), Lax("ioremap")>>, Free(<<"ioremap", "chrdev">>),
                      {<<"chrdev", "ioremap">>})

\* complete_init, sleepy_init, faulty_init: one registration.
OneChrdev == Driver(<<Public(Take("chrdev", <<>>))>>, Free(<<"chrdev">>), {})
CompleteModule == OneChrdev
SleepyModule == OneChrdev
FaultyModule == OneChrdev

\* jit_init, jiq_init, ct_init: entries of /proc, whose failure is not looked at; there
\* is nothing to remove then.
ProcModule(n) == Driver([i \in 1 .. n |-> Public(Lax(Dev("proc", i)))],
                        FreeIf([i \in 1 .. n |-> Dev("proc", i)]), {})
JitModule == ProcModule(8)
JiqModule == Driver(<<Have("work")>> \o [i \in 1 .. 4 |-> Public(Lax(Dev("proc", i)))],
                    FreeIf([i \in 1 .. 4 |-> Dev("proc", i)] \o <<"work">>),
                    {Dev("proc", i) : i \in 1 .. 2} \X {"work"})
SeqModule == ProcModule(1)

\* skull_init: the mapping and the regions it has found stay; there is no exit.
SkullModule == Driver(<<Lax("ioremap"), Lax("region1"), Lax("region2")>>, <<>>, {})

\* The probe of pci_skel and its remove.
PciSkel == Driver(<<Lax("enabled"), Take("revision", <<>>)>>, Free(<<"revision">>), {})
=============================================================================
