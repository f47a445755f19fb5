----------------------------- MODULE ScullStore -----------------------------
(***************************************************************************)
(* The memory devices of code/examples/scull, scullc, scullp, scullv and   *)
(* sculld: a list of items, each with an array of pointers to quanta.      *)
(* Every call is a function of the device.  A read or a write looks at the *)
(* quantum and at the length of the arrays before it gets the semaphore,   *)
(* so these two are arguments of the call and may be out of date.          *)
(*                                                                         *)
(* A device: quantum or order, qset, size and vmas as in the code, and its *)
(* items.  An item has the order it was given and an array, absent (<<>>)  *)
(* or one entry for each pointer; an entry is absent or the memory it      *)
(* points to.  The global variables a driver is configured by are in g.    *)
(***************************************************************************)
EXTENDS Integers, Sequences, FiniteSetsExt, TLC

Page == 2          \* PAGE_SIZE: the smallest that can be written in two parts
Junk == "junk"     \* what is left in memory nobody has set to zero
Zero == "zero"

EPERM == -1
ENOMEM == -12
EFAULT == -14
EBUSY == -16
ENODEV == -19
EINVAL == -22
ENOTTY == -25
EIOCBQUEUED == -529

Units(n, v) == [i \in 1 .. n |-> v]
Item(order) == [order |-> order, array |-> <<>>]

\* What every driver but scull keeps as its quantum is the order of a block of pages,
\* except scullc; there the device is its own first item, in scull the list is empty.
Paged(k) == k \in {"scullp", "scullv", "sculld"}
Quantum(k, x) == IF Paged(k) THEN Page * 2 ^ x ELSE x
Sample(k, d) == [quantum |-> Quantum(k, d.quantum), qset |-> d.qset]
Blank(k, g) == [quantum |-> g.quantum, qset |-> g.qset, size |-> 0, vmas |-> 0,
                items |-> IF k = "scull" THEN <<>> ELSE <<Item(g.quantum)>>]

\* A call: what it returned, what it read, what it did to the device and to the position,
\* and the harm it did, if any.
Result(d, pos, ret) == [dev |-> d, pos |-> pos, ret |-> ret, got |-> <<>>, harm |-> "none"]
Harm(d, pos, what) == [Result(d, pos, 0) EXCEPT !.harm = what]

Place(pos, q) ==
  LET itemsize == q.quantum * q.qset
      rest     == pos % itemsize
  IN  [item |-> (pos \div itemsize) + 1, s |-> (rest \div q.quantum) + 1, q |-> rest % q.quantum]

\* follow: creates the items up to number n, of order zero.  mem allocations succeed;
\* only scull looks whether one has failed.
Follow(d, n, mem) ==
  LET missing == Max({0, n - Len(d.items)})
      made    == Min({missing, mem})
  IN  [dev |-> [d EXCEPT !.items = @ \o Units(made, Item(0))],
       ok |-> made = missing, mem |-> mem - made]

NoItem(k, d, pos, ret) == IF k = "scull" THEN Result(d, pos, ret) ELSE Harm(d, pos, "null")

ReadPart(k, d, q, pos, n, mem) ==
  LET p    == Place(pos, q)
      f    == Follow(d, p.item, mem)
      all  == Min({n, d.size - pos})
      len  == Min({all, q.quantum - p.q})
      arr  == f.dev.items[p.item].array
      Got  == IF p.s > Len(arr) THEN Harm(f.dev, pos, "overrun")
              ELSE IF arr[p.s] = <<>> THEN Result(f.dev, pos, 0)
              ELSE IF p.q + len > Len(arr[p.s]) THEN Harm(f.dev, pos, "overrun")
              ELSE [Result(f.dev, pos + len, len) EXCEPT
                      !.got = SubSeq(arr[p.s], p.q + 1, p.q + len)]
  IN  IF pos > d.size \/ (k = "scull" /\ pos = d.size) THEN Result(d, pos, 0)
      ELSE IF q.quantum * q.qset = 0 THEN Harm(d, pos, "division")
      ELSE IF ~f.ok THEN NoItem(k, f.dev, pos, 0)
      ELSE IF arr = <<>> THEN Result(f.dev, pos, 0)
      ELSE Got

\* The memory a new quantum gets: scull leaves it as it comes, scullc clears what the
\* quantum is now although its cache was made for the quantum at load, the others take
\* the order from the item.
Fresh(k, q, item, g) ==
  CASE k = "scull"  -> Units(q.quantum, Junk)
    [] k = "scullc" -> Units(Min({g.cache, g.quantum}), Zero)
                         \o Units(Max({0, g.cache - g.quantum}), Junk)
    [] OTHER        -> Units(Quantum(k, item.order), Zero)

\* write: the item, the array and the quantum are made as they are needed, each by an
\* allocation that can fail and leave what came before.
WritePart(k, d, q, pos, data, g, mem) ==
  LET p     == Place(pos, q)
      f     == Follow(d, p.item, mem)
      item  == f.dev.items[p.item]
      arr   == IF item.array = <<>> THEN Units(q.qset, <<>>) ELSE item.array
      mem2  == IF item.array = <<>> THEN f.mem - 1 ELSE f.mem
      dev2  == [f.dev EXCEPT !.items[p.item].array = arr]
      new   == arr[p.s] = <<>>
      cell  == IF new THEN Fresh(k, q, item, g) ELSE arr[p.s]
      len   == Min({Len(data), q.quantum - p.q})
      full  == [i \in 1 .. Len(cell) |-> IF i - p.q \in 1 .. len THEN data[i - p.q] ELSE cell[i]]
      after == [dev2 EXCEPT !.items[p.item].array[p.s] = full, !.size = Max({@, pos + len})]
  IN  IF q.quantum * q.qset = 0 THEN Harm(d, pos, "division")
      ELSE IF ~f.ok THEN NoItem(k, f.dev, pos, ENOMEM)
      ELSE IF mem2 < 0 THEN Result(f.dev, pos, ENOMEM)
      ELSE IF p.s > Len(arr) THEN Harm(dev2, pos, "overrun")
      ELSE IF new /\ mem2 = 0 THEN Result(dev2, pos, ENOMEM)
      ELSE IF new /\ k = "scullc" /\ g.quantum > g.cache THEN Harm(dev2, pos, "overrun")
      ELSE IF p.q + len > Len(cell) THEN Harm(after, pos, "overrun")
      ELSE Result(after, pos + len, len)

\* trim: goes by the qset of the device, whatever the arrays were made with; a shorter
\* one leaves quanta behind.  With mappings all but scull refuse.
Trim(k, d, g) ==
  LET arrays == {d.items[i].array : i \in DOMAIN d.items} \ {<<>>}
      harm   == IF \E a \in arrays : Len(a) < d.qset THEN "overrun"
                ELSE IF \E a \in arrays : \E i \in d.qset + 1 .. Len(a) : a[i] # <<>>
                     THEN "leak" ELSE "none"
  IN  IF k # "scull" /\ d.vmas > 0 THEN Result(d, 0, EBUSY)
      ELSE [dev |-> Blank(k, g), pos |-> 0, ret |-> 0, harm |-> harm]

\* open: for writing only, it trims the device and does not ask how that went.
Open(k, d, g, mode) ==
  IF mode = "O_WRONLY" THEN [Trim(k, d, g) EXCEPT !.ret = 0] ELSE Result(d, 0, 0)

\* llseek: the position, or where it stays.
Llseek(d, pos, off, whence) ==
  LET new == CASE whence = "SEEK_SET" -> off
               [] whence = "SEEK_CUR" -> pos + off
               [] whence = "SEEK_END" -> d.size + off
  IN  IF new < 0 THEN Result(d, pos, EINVAL) ELSE Result(d, new, new)

\* ioctl: do is the letter of the command, of the variable it is for.  at is the address
\* of the caller: "bad" is refused before anything else, "hole" is found out on use: a
\* __get_user that fails sets the variable to zero.
Ioctl(k, g, defaults, do, of, arg, at, admin) ==
  LET Answer(gg, ret, out) == [g |-> gg, ret |-> ret, out |-> out]
      set  == [g EXCEPT ![of] = arg]
      zero == [g EXCEPT ![of] = 0]
      byAddress == do \in {"S", "G", "X"}
  IN  IF byAddress /\ at = "bad" THEN Answer(g, EFAULT, <<>>)
      ELSE IF k = "scull" /\ of \in {"quantum", "qset"} /\ do \in {"S", "T", "X", "H"} /\ ~admin
           THEN Answer(g, EPERM, <<>>)
      ELSE CASE do = "RESET" -> Answer(defaults, 0, <<>>)
             [] do = "S" -> IF at = "hole" THEN Answer(zero, EFAULT, <<>>) ELSE Answer(set, 0, <<>>)
             [] do = "T" -> Answer(set, 0, <<>>)
             [] do = "G" -> IF at = "hole" THEN Answer(g, EFAULT, <<>>) ELSE Answer(g, 0, <<g[of]>>)
             [] do = "Q" -> Answer(g, g[of], <<>>)
             [] do = "X" -> IF at = "hole" THEN Answer(zero, EFAULT, <<>>)
                            ELSE IF at = "readonly" THEN Answer(set, EFAULT, <<>>)
                            ELSE Answer(set, 0, <<g[of]>>)
             [] do = "H" -> Answer(set, g[of], <<>>)
             [] OTHER    -> Answer(g, ENOTTY, <<>>)

\* The asynchronous calls: the transfer is done at once and only its completion comes
\* later, or at once when there is no memory to defer it with.
Defer(r, sync, mem) ==
  IF sync \/ mem = 0 THEN [ret |-> r.ret, later |-> <<>>]
  ELSE [ret |-> EIOCBQUEUED, later |-> <<r.ret>>]

\* mmap: scullp and sculld refuse blocks of several pages, scullv does not.
Mmap(k, d) ==
  IF k # "scullv" /\ d.items[1].order # 0 THEN Result(d, 0, ENODEV)
  ELSE Result([d EXCEPT !.vmas = @ + 1], 0, 0)
VmaOpen(d) == [d EXCEPT !.vmas = @ + 1]
VmaClose(d) == [d EXCEPT !.vmas = @ - 1]

\* nopage, for page number n of the device: the page it gives is page 0 of the block of
\* the item.  sculld has lost the line that takes the page from the pointer.
Nopage(k, d, n) ==
  LET item == (n \div d.qset) + 1
      s    == (n % d.qset) + 1
  IN  IF n * Page >= d.size THEN "SIGBUS"
      ELSE IF item > Len(d.items) THEN "SIGBUS"
      ELSE IF d.items[item].array = <<>> THEN "SIGBUS"
      ELSE IF d.items[item].array[s] = <<>> THEN "SIGBUS"
      ELSE IF k = "sculld" THEN "null" ELSE <<item, s, 0>>

\* The files in /proc: of every item whether it has an array, of the last one the
\* entries in use.
Shown(d) ==
  LET n == Len(d.items)
  IN  [quantum |-> d.quantum, qset |-> d.qset, size |-> d.size,
       items |-> [i \in 1 .. n |-> d.items[i].array # <<>>],
       last |-> IF n = 0 THEN {}
                ELSE {s \in DOMAIN d.items[n].array : d.items[n].array[s] # <<>>}]
=============================================================================
