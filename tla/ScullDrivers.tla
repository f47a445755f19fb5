---------------------------- MODULE ScullDrivers ----------------------------
(***************************************************************************)
(* The five drivers of code/examples that keep their data as ScullStore    *)
(* says: what each of their functions is there.  g holds the parameters of *)
(* the module, which ioctl changes for all its devices: scullc also has    *)
(* the size of the objects of its cache.                                   *)
(***************************************************************************)
EXTENDS ScullStore

\* The values at load: an order for the drivers that are Paged, scullv's above zero.
Defaults(k) ==
  CASE k = "scull"  -> [quantum |-> 4, qset |-> 2, buffer |-> 4]
    [] k = "scullc" -> [quantum |-> 4, qset |-> 2, cache |-> 4]
    [] k = "scullv" -> [quantum |-> 1, qset |-> 2]
    [] OTHER        -> [quantum |-> 0, qset |-> 2]

ScullShown(d)                           == Shown(d)
ScullOpen(d, g, mode)                   == Open("scull", d, g, mode)
ScullFollow(d, n, mem)                  == Follow(d, n, mem)
ScullRead(d, q, pos, n, mem)            == ReadPart("scull", d, q, pos, n, mem)
ScullWrite(d, q, pos, data, g, mem)     == WritePart("scull", d, q, pos, data, g, mem)
ScullIoctl(g, do, of, arg, at, admin)   == Ioctl("scull", g, Defaults("scull"), do, of, arg, at, admin)
ScullLlseek(d, pos, off, whence)        == Llseek(d, pos, off, whence)
ScullTrim(d, g)                         == Trim("scull", d, g)

ScullcShown(d)                           == Shown(d)
ScullcOpen(d, g, mode)                   == Open("scullc", d, g, mode)
ScullcFollow(d, n, mem)                  == Follow(d, n, mem)
ScullcRead(d, q, pos, n, mem)            == ReadPart("scullc", d, q, pos, n, mem)
ScullcWrite(d, q, pos, data, g, mem)     == WritePart("scullc", d, q, pos, data, g, mem)
ScullcIoctl(g, do, of, arg, at, admin)   == Ioctl("scullc", g, Defaults("scullc"), do, of, arg, at, admin)
ScullcLlseek(d, pos, off, whence)        == Llseek(d, pos, off, whence)
ScullcTrim(d, g)                         == Trim("scullc", d, g)
ScullcAio(r, sync, mem)                  == Defer(r, sync, mem)

ScullpShown(d)                           == Shown(d)
ScullpOpen(d, g, mode)                   == Open("scullp", d, g, mode)
ScullpFollow(d, n, mem)                  == Follow(d, n, mem)
ScullpRead(d, q, pos, n, mem)            == ReadPart("scullp", d, q, pos, n, mem)
ScullpWrite(d, q, pos, data, g, mem)     == WritePart("scullp", d, q, pos, data, g, mem)
ScullpIoctl(g, do, of, arg, at, admin)   == Ioctl("scullp", g, Defaults("scullp"), do, of, arg, at, admin)
ScullpLlseek(d, pos, off, whence)        == Llseek(d, pos, off, whence)
ScullpTrim(d, g)                         == Trim("scullp", d, g)
ScullpAio(r, sync, mem)                  == Defer(r, sync, mem)
ScullpVmas(d)                            == {VmaOpen(d), VmaClose(d)}
ScullpNopage(d, n)                       == Nopage("scullp", d, n)
ScullpMmap(d)                            == Mmap("scullp", d)

ScullvShown(d)                           == Shown(d)
ScullvOpen(d, g, mode)                   == Open("scullv", d, g, mode)
ScullvFollow(d, n, mem)                  == Follow(d, n, mem)
ScullvRead(d, q, pos, n, mem)            == ReadPart("scullv", d, q, pos, n, mem)
ScullvWrite(d, q, pos, data, g, mem)     == WritePart("scullv", d, q, pos, data, g, mem)
ScullvIoctl(g, do, of, arg, at, admin)   == Ioctl("scullv", g, Defaults("scullv"), do, of, arg, at, admin)
ScullvLlseek(d, pos, off, whence)        == Llseek(d, pos, off, whence)
ScullvTrim(d, g)                         == Trim("scullv", d, g)
ScullvAio(r, sync, mem)                  == Defer(r, sync, mem)
ScullvVmas(d)                            == {VmaOpen(d), VmaClose(d)}
ScullvNopage(d, n)                       == Nopage("scullv", d, n)
ScullvMmap(d)                            == Mmap("scullv", d)

SculldShown(d)                           == Shown(d)
SculldOpen(d, g, mode)                   == Open("sculld", d, g, mode)
SculldFollow(d, n, mem)                  == Follow(d, n, mem)
SculldRead(d, q, pos, n, mem)            == ReadPart("sculld", d, q, pos, n, mem)
SculldWrite(d, q, pos, data, g, mem)     == WritePart("sculld", d, q, pos, data, g, mem)
SculldIoctl(g, do, of, arg, at, admin)   == Ioctl("sculld", g, Defaults("sculld"), do, of, arg, at, admin)
SculldLlseek(d, pos, off, whence)        == Llseek(d, pos, off, whence)
SculldTrim(d, g)                         == Trim("sculld", d, g)
SculldAio(r, sync, mem)                  == Defer(r, sync, mem)
SculldVmas(d)                            == {VmaOpen(d), VmaClose(d)}
SculldNopage(d, n)                       == Nopage("sculld", d, n)
SculldMmap(d)                            == Mmap("sculld", d)
=============================================================================
