------------------------------ MODULE MCScull -------------------------------
(***************************************************************************)
(* What the scull drivers do with their data, as facts TLC evaluates: the  *)
(* histories of a few calls for the devices as they are loaded, then the   *)
(* ways they go wrong.  No state of their own.                             *)
(***************************************************************************)
EXTENDS ScullDrivers

LOCAL INSTANCE Functions

Plenty == 9     \* more allocations than a call makes
Drivers == {"scull", "scullc", "scullp", "scullv", "sculld"}

\* The functions of driver k.
OpenOf(k, d, g, mode) ==
  CASE k = "scull"  -> ScullOpen(d, g, mode)
    [] k = "scullc" -> ScullcOpen(d, g, mode)
    [] k = "scullp" -> ScullpOpen(d, g, mode)
    [] k = "scullv" -> ScullvOpen(d, g, mode)
    [] k = "sculld" -> SculldOpen(d, g, mode)
ReadOf(k, d, q, pos, n, mem) ==
  CASE k = "scull"  -> ScullRead(d, q, pos, n, mem)
    [] k = "scullc" -> ScullcRead(d, q, pos, n, mem)
    [] k = "scullp" -> ScullpRead(d, q, pos, n, mem)
    [] k = "scullv" -> ScullvRead(d, q, pos, n, mem)
    [] k = "sculld" -> SculldRead(d, q, pos, n, mem)
WriteOf(k, d, q, pos, data, g, mem) ==
  CASE k = "scull"  -> ScullWrite(d, q, pos, data, g, mem)
    [] k = "scullc" -> ScullcWrite(d, q, pos, data, g, mem)
    [] k = "scullp" -> ScullpWrite(d, q, pos, data, g, mem)
    [] k = "scullv" -> ScullvWrite(d, q, pos, data, g, mem)
    [] k = "sculld" -> SculldWrite(d, q, pos, data, g, mem)
IoctlOf(k, g, do, of, arg, at, admin) ==
  CASE k = "scull"  -> ScullIoctl(g, do, of, arg, at, admin)
    [] k = "scullc" -> ScullcIoctl(g, do, of, arg, at, admin)
    [] k = "scullp" -> ScullpIoctl(g, do, of, arg, at, admin)
    [] k = "scullv" -> ScullvIoctl(g, do, of, arg, at, admin)
    [] k = "sculld" -> SculldIoctl(g, do, of, arg, at, admin)
LlseekOf(k, d, pos, off, whence) ==
  CASE k = "scull"  -> ScullLlseek(d, pos, off, whence)
    [] k = "scullc" -> ScullcLlseek(d, pos, off, whence)
    [] k = "scullp" -> ScullpLlseek(d, pos, off, whence)
    [] k = "scullv" -> ScullvLlseek(d, pos, off, whence)
    [] k = "sculld" -> SculldLlseek(d, pos, off, whence)
TrimOf(k, d, g) ==
  CASE k = "scull"  -> ScullTrim(d, g)
    [] k = "scullc" -> ScullcTrim(d, g)
    [] k = "scullp" -> ScullpTrim(d, g)
    [] k = "scullv" -> ScullvTrim(d, g)
    [] k = "sculld" -> SculldTrim(d, g)
FollowOf(k, d, n, mem) ==
  CASE k = "scull"  -> ScullFollow(d, n, mem)
    [] k = "scullc" -> ScullcFollow(d, n, mem)
    [] k = "scullp" -> ScullpFollow(d, n, mem)
    [] k = "scullv" -> ScullvFollow(d, n, mem)
    [] k = "sculld" -> SculldFollow(d, n, mem)
ShownOf(k, d) ==
  CASE k = "scull"  -> ScullShown(d)
    [] k = "scullc" -> ScullcShown(d)
    [] k = "scullp" -> ScullpShown(d)
    [] k = "scullv" -> ScullvShown(d)
    [] k = "sculld" -> SculldShown(d)
AioOf(k, r, sync, mem) ==
  CASE k = "scullc" -> ScullcAio(r, sync, mem)
    [] k = "scullp" -> ScullpAio(r, sync, mem)
    [] k = "scullv" -> ScullvAio(r, sync, mem)
    [] k = "sculld" -> SculldAio(r, sync, mem)
VmasOf(k, d) ==
  CASE k = "scullp" -> ScullpVmas(d)
    [] k = "scullv" -> ScullvVmas(d)
    [] k = "sculld" -> SculldVmas(d)
NopageOf(k, d, n) ==
  CASE k = "scullp" -> ScullpNopage(d, n)
    [] k = "scullv" -> ScullvNopage(d, n)
    [] k = "sculld" -> SculldNopage(d, n)
MmapOf(k, d) ==
  CASE k = "scullp" -> ScullpMmap(d)
    [] k = "scullv" -> ScullvMmap(d)
    [] k = "sculld" -> SculldMmap(d)

WriteCall(k, d, pos, data, g) == WriteOf(k, d, Sample(k, d), pos, data, g, Plenty)
ReadCall(k, d, pos, n) == ReadOf(k, d, Sample(k, d), pos, n, Plenty)

\* What calls make of a device, with the file it should be: the values written, by
\* position.  Step number n writes the value n; item 2 begins at 8, or at 4 for pages.
Histories(k, g) ==
  LET Starts == {0, 1, 3, 4, 9}
      Extend(file, pos, len, v) == [p \in DOMAIN file \cup pos .. pos + len - 1 |->
                                      IF p \in pos .. pos + len - 1 THEN v ELSE file[p]]
      Wrote(s, pos, len, v) ==
        LET r == WriteCall(k, s.dev, pos, Units(len, v), g)
        IN  [dev |-> r.dev, harm |-> r.harm,
             file |-> IF r.harm = "none" THEN Extend(s.file, pos, r.ret, v) ELSE s.file]
      Emptied(s) == LET r == OpenOf(k, s.dev, g, "O_WRONLY")
                    IN  [dev |-> r.dev, harm |-> r.harm, file |-> <<>>]
      After[n \in 0 .. 2] ==
        IF n = 0 THEN {[dev |-> Blank(k, g), harm |-> "none", file |-> <<>>]}
        ELSE {Wrote(s, pos, len, n) : s \in After[n - 1], pos \in Starts, len \in {1, 3}}
               \cup {Emptied(s) : s \in After[n - 1]}
  IN  After[2]

\* The device is the file: no harm, and a read gives the values written, as many as one
\* quantum has; where nothing was written it gives what the memory held, or nothing.
IsFile(k, s) ==
  /\ s.harm = "none"
  /\ s.dev.size = Max({0} \cup {p + 1 : p \in DOMAIN s.file})
  /\ \A pos \in 0 .. s.dev.size, n \in {1, 3} :
       LET r == ReadCall(k, s.dev, pos, n)
       IN  /\ r.harm = "none"
           /\ pos \in DOMAIN s.file => r.got # <<>>
           /\ \A i \in DOMAIN r.got :
                r.got[i] = IF pos + i - 1 \in DOMAIN s.file THEN s.file[pos + i - 1]
                           ELSE IF k = "scull" THEN Junk ELSE Zero

ASSUME Files ==
  /\ \A k \in {"scull", "scullc", "scullp", "sculld"} :
       \A s \in Histories(k, Defaults(k)) : IsFile(k, s)
  /\ \A s \in Histories("scullv", [quantum |-> 0, qset |-> 2]) : IsFile("scullv", s)

\* A hole reads as the end of the file, though there is more behind it, and reading at
\* the end of the device makes the items up to there.
ASSUME Holes ==
  LET d == ScullpWrite(Blank("scullp", Defaults("scullp")), [quantum |-> 2, qset |-> 2], 5,
                       <<1>>, Defaults("scullp"), Plenty).dev
      r == ScullpRead(d, [quantum |-> 2, qset |-> 2], 0, 3, Plenty)
      e == ScullpRead([d EXCEPT !.size = 8], [quantum |-> 2, qset |-> 2], 8, 1, Plenty)
  IN  /\ d.size = 6 /\ r.got = <<>> /\ r.harm = "none"
      /\ Len(d.items) = 2 /\ Len(e.dev.items) = 3
      /\ ScullpRead([d EXCEPT !.size = 8], [quantum |-> 2, qset |-> 2], 8, 1, 0).harm = "null"

\* An item behind the first has order zero (it is set to zero and nobody gives it the
\* order of the device), so with larger blocks a write there runs over its one page:
\* as scullv is loaded, and in scullp and sculld after an ioctl.
ASSUME LaterItems ==
  \A k \in {"scullp", "scullv", "sculld"} :
    LET g == [quantum |-> 1, qset |-> 2]
        d == Blank(k, g)
    IN  /\ \A pos \in 0 .. 7 : WriteCall(k, d, pos, <<1, 1, 1, 1>>, g).harm = "none"
        /\ WriteCall(k, d, 9, <<1, 1, 1>>, g).harm = "overrun"
        /\ \A n \in 1 .. 2 : WriteCall(k, d, 8, Units(n, 1), g).harm = "none"

\* scullc's cache has objects of the quantum at load: once an ioctl has made it larger,
\* clearing a new quantum runs over its object, and a device that already has a smaller
\* quantum is harmed as well.
ASSUME CacheObjects ==
  LET g == ScullcIoctl(Defaults("scullc"), "T", "quantum", 6, "good", FALSE).g
      d == Blank("scullc", Defaults("scullc"))
  IN  /\ g.quantum = 6 /\ g.cache = 4
      /\ ScullcWrite(ScullcOpen(d, g, "O_WRONLY").dev, [quantum |-> 6, qset |-> 2], 0, <<1>>, g, 9).harm
           = "overrun"
      /\ ScullcWrite(d, [quantum |-> 4, qset |-> 2], 0, <<1>>, g, Plenty).harm = "overrun"

\* An ioctl that fails at the address of its caller has set the variable to zero; the
\* next open for writing gives the device a quantum of zero, and the call after that
\* divides by it.  Only scull asks who is calling.
ASSUME ZeroQuantum ==
  /\ \A k \in {"scull", "scullc"} : \A do \in {"S", "X"} :
       LET a == IoctlOf(k, Defaults(k), do, "quantum", 1, "hole", TRUE)
           d == OpenOf(k, Blank(k, Defaults(k)), a.g, "O_WRONLY").dev
       IN  a.ret = EFAULT /\ WriteCall(k, d, 0, <<1>>, a.g).harm = "division"
  /\ ScullIoctl(Defaults("scull"), "S", "quantum", 0, "hole", FALSE).g = Defaults("scull")
  /\ ScullIoctl(Defaults("scull"), "T", "buffer", 9, "good", FALSE).g.buffer = 9
  /\ \A k \in {"scullp", "scullv", "sculld"} :
       LET a == IoctlOf(k, Defaults(k), "S", "qset", 1, "hole", FALSE)
       IN  ReadCall(k, OpenOf(k, Blank(k, Defaults(k)), a.g, "O_WRONLY").dev, 0, 1).harm = "division"

\* An exchange whose answer cannot be delivered has taken place; commands that ask
\* change nothing; what is refused for its address or for who calls changes nothing.
ASSUME Exchanges ==
  \A k \in Drivers :
    LET g == Defaults(k)
        Do(do, at, admin) == IoctlOf(k, g, do, "qset", 5, at, admin)
    IN  /\ Do("X", "readonly", TRUE).ret = EFAULT /\ Do("X", "readonly", TRUE).g.qset = 5
        /\ \A do \in {"G", "Q"}, at \in {"bad", "hole", "good"} : Do(do, at, TRUE).g = g
        /\ \A do \in {"S", "X"} : Do(do, "bad", TRUE).g = g
        /\ Do("H", "good", TRUE).ret = 2 /\ Do("H", "good", TRUE).g.qset = 5
        /\ IoctlOf(k, [g EXCEPT !.qset = 5], "RESET", "qset", 0, "good", TRUE).g = g

\* A call that sampled the device before another has trimmed it with new parameters uses
\* the old ones: a write into an array made shorter runs over it, and one that makes a
\* short array in a device with a longer qset has the next trim run over it.
ASSUME OldParameters ==
  LET old == [quantum |-> 4, qset |-> 2]
      g(n) == [Defaults("scull") EXCEPT !.qset = n]
      short == ScullWrite(Blank("scull", g(1)), [quantum |-> 4, qset |-> 1], 0, <<1>>, g(1), Plenty).dev
      long  == ScullWrite(Blank("scull", g(3)), old, 0, <<1>>, g(3), Plenty).dev
      wide  == ScullWrite(Blank("scull", g(1)), old, 4, <<1>>, g(1), Plenty).dev
  IN  /\ ScullWrite(short, old, 4, <<1>>, g(1), Plenty).harm = "overrun"
      /\ ScullRead([short EXCEPT !.size = 8], old, 4, 1, Plenty).harm = "overrun"
      /\ ScullTrim(long, g(3)).harm = "overrun"
      /\ ScullTrim(wide, g(1)).harm = "leak"

\* A write that runs out of memory keeps the size and the position; what it has made
\* stays, so that trying again needs less.  Only scull survives a missing item.
ASSUME OutOfMemory ==
  \A k \in Drivers : \A mem \in 0 .. 3 :
    LET g == Defaults(k)
        d == Blank(k, g)
        r == WriteOf(k, d, Sample(k, d), 8, <<1>>, g, mem)
        again == WriteCall(k, r.dev, 8, <<1>>, g)
        items == Place(8, Sample(k, d)).item - Len(d.items)
    IN  /\ r.harm = IF k # "scull" /\ mem < items THEN "null" ELSE "none"
        /\ r.ret # 1 => r.dev.size = 0
        /\ r.ret = ENOMEM => r.pos = 8 /\ again.ret = 1 /\ again.harm = "none"

\* A mapped device is not emptied by an open for writing, and the opener is not told.
\* With blocks of one page a fault gives the page of its address; with scullv's larger
\* blocks it gives the first page of another block; sculld never has a page to give.
ASSUME Mappings ==
  LET Filled(k, g) == [i \in 1 .. 2 |-> i]
      d(k, g) == WriteCall(k, WriteCall(k, Blank(k, g), 0, <<1, 1, 1, 1>>, g).dev, 4, <<2>>, g).dev
      Small == [quantum |-> 0, qset |-> 4]
      Large == [quantum |-> 1, qset |-> 4]
      Right(k, g, n) == LET p == Place(n * Page, Sample(k, d(k, g)))
                        IN  NopageOf(k, d(k, g), n) = <<p.item, p.s, p.q \div Page>>
  IN  /\ \A k \in {"scullp", "scullv"} : \A n \in {0, 2} : Right(k, Small, n)
      /\ ScullvMmap(d("scullv", Large)).ret = 0
      /\ ~Right("scullv", Large, 1) /\ ScullvNopage(d("scullv", Large), 1) = <<1, 2, 0>>
      /\ \A k \in {"scullp", "sculld"} : MmapOf(k, d(k, Large)).ret = ENODEV
      /\ SculldNopage(SculldMmap(d("sculld", Small)).dev, 0) = "null"
      /\ \A k \in {"scullp", "scullv", "sculld"} :
           LET m == MmapOf(k, d(k, Small)).dev
               o == OpenOf(k, m, Small, "O_WRONLY")
           IN  /\ o.ret = 0 /\ o.dev = m /\ TrimOf(k, m, Small).ret = EBUSY
               /\ m \in VmasOf(k, d(k, Small)) /\ d(k, Small) \in VmasOf(k, m)

\* Seeking takes any place that is not negative, and no size is changed by it; what the
\* asynchronous calls answer is never both now and later.
ASSUME Positions ==
  /\ \A k \in Drivers, off \in -2 .. 2, whence \in {"SEEK_SET", "SEEK_CUR", "SEEK_END"} :
       LET d == [Blank(k, Defaults(k)) EXCEPT !.size = 1]
           r == LlseekOf(k, d, 1, off, whence)
       IN  r.dev = d /\ r.pos >= 0 /\ (r.ret = EINVAL => r.pos = 1)
  /\ \A k \in Drivers \ {"scull"}, sync \in BOOLEAN, mem \in 0 .. 1 :
       LET a == AioOf(k, Result(Blank(k, Defaults(k)), 3, 2), sync, mem)
       IN  (a.ret = 2) # (a.later = <<2>>)

\* What the files in /proc show of a device is what its history has made of it: an array
\* for each item written to, and nothing of the items that were only walked over; walking
\* changes neither the data nor the size, and an emptied device shows as a new one.
ASSUME Walks ==
  \A k \in Drivers, pos \in {0, 8, 17} :
    LET g == Defaults(k)
        d == WriteCall(k, Blank(k, g), pos, <<1>>, g).dev
        f == FollowOf(k, d, 4, Plenty)
        shown == ShownOf(k, d)
        item == Place(pos, Sample(k, d)).item
    IN  /\ {i \in DOMAIN shown.items : shown.items[i]} = {item} /\ Len(shown.items) = item
        /\ shown.last = {Place(pos, Sample(k, d)).s}
        /\ f.ok /\ ReadCall(k, f.dev, pos, 1).got = <<1>>
        /\ item < 4 => ShownOf(k, f.dev).last = {} /\ ShownOf(k, f.dev).size = shown.size
        /\ FollowOf(k, d, 9, 1).ok = (item >= 8)
        /\ ShownOf(k, TrimOf(k, d, g).dev) = ShownOf(k, Blank(k, g))
=============================================================================
