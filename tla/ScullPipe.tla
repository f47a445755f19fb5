----------------------------- MODULE ScullPipe ------------------------------
(***************************************************************************)
(* The pipe devices of code/examples/scull/pipe.c: a circular buffer that  *)
(* readers and writers sleep on.  A device has its memory (absent until    *)
(* somebody opens it), the size it believes the memory to have, the two    *)
(* positions, and how many have it open to read and to write.  s adds what *)
(* each task inside a call is doing: the tasks on inq and outq are asleep, *)
(* one that is woken goes round the loop of its call again.                *)
(***************************************************************************)
EXTENDS Integers, Sequences, FiniteSetsExt

NoMemory == -12
TryAgain == -11

\* buffer is the memory, <<>> before the first open; none tells an absent one from one
\* of no bytes.
Pipe0 == [none |-> TRUE, buffer |-> <<>>, size |-> 0, rp |-> 0, wp |-> 0,
          readers |-> 0, writers |-> 0, async |-> {}, harm |-> FALSE]

\* open: memory only for the first, but the size and the positions for every one.
PipeOpen(d, mode, p_buffer, mem) ==
  IF d.none /\ mem = 0 THEN [dev |-> d, ret |-> NoMemory]
  ELSE [ret |-> 0,
        dev |-> [d EXCEPT !.none = FALSE,
                          !.buffer = IF d.none THEN [i \in 1 .. p_buffer |-> 0] ELSE @,
                          !.size = p_buffer, !.rp = 0, !.wp = 0,
                          !.readers = IF "r" \in mode THEN @ + 1 ELSE @,
                          !.writers = IF "w" \in mode THEN @ + 1 ELSE @]]

\* release: the last one frees the memory; nobody is woken.
PipeRelease(d, mode, file) ==
  LET r == IF "r" \in mode THEN d.readers - 1 ELSE d.readers
      w == IF "w" \in mode THEN d.writers - 1 ELSE d.writers
      left == [d EXCEPT !.async = @ \ {file}, !.readers = r, !.writers = w]
  IN  IF r + w = 0 THEN [left EXCEPT !.none = TRUE, !.buffer = <<>>] ELSE left

SpaceFree(d) == IF d.rp = d.wp THEN d.size - 1 ELSE ((d.rp + d.size - d.wp) % d.size) - 1

Wrap(d, p) == IF p = d.size THEN 0 ELSE p

\* What read and write do once they may: up to the end of the buffer at most.  As an
\* unsigned number the room of a buffer of no bytes is no bound.
Take(d, n) ==
  LET len == Min({n, IF d.wp > d.rp THEN d.wp - d.rp ELSE d.size - d.rp})
  IN  IF d.rp + len > Len(d.buffer) THEN [dev |-> [d EXCEPT !.harm = TRUE], got |-> <<>>]
      ELSE [dev |-> [d EXCEPT !.rp = Wrap(d, d.rp + len)],
            got |-> SubSeq(d.buffer, d.rp + 1, d.rp + len)]

Put(d, data) ==
  LET room == IF SpaceFree(d) < 0 THEN Len(data) ELSE SpaceFree(d)
      len  == Min({Len(data), room, IF d.wp >= d.rp THEN d.size - d.wp ELSE d.rp - d.wp - 1})
      put  == [i \in DOMAIN d.buffer |->
                 IF i - d.wp \in 1 .. len THEN data[i - d.wp] ELSE d.buffer[i]]
  IN  IF d.wp + len > Len(d.buffer) THEN [dev |-> [d EXCEPT !.harm = TRUE], ret |-> 0]
      ELSE [dev |-> [d EXCEPT !.buffer = put, !.wp = Wrap(d, d.wp + len)], ret |-> len]

Wake(doing, who) == [t \in DOMAIN doing |-> IF doing[t] = who THEN "woken" ELSE doing[t]]

\* read by task t: sleeps while there is nothing, and wakes the writers.
PipeRead(s, t, n, nonblock) ==
  IF s.dev.rp = s.dev.wp
  THEN IF nonblock THEN [s EXCEPT !.doing[t] = "out", !.ret[t] = TryAgain]
       ELSE [s EXCEPT !.doing[t] = "inq"]
  ELSE LET r == Take(s.dev, n)
       IN  [s EXCEPT !.dev = r.dev, !.ret[t] = Len(r.got), !.got = @ \o r.got,
                     !.doing = Wake([@ EXCEPT ![t] = "out"], "outq")]

\* write, with scull_getwritespace: sleeps while there is no space; wakes the readers and
\* signals those that asked for it.
PipeWrite(s, t, data, nonblock) ==
  IF SpaceFree(s.dev) = 0
  THEN IF nonblock THEN [s EXCEPT !.doing[t] = "out", !.ret[t] = TryAgain]
       ELSE [s EXCEPT !.doing[t] = "outq"]
  ELSE LET w == Put(s.dev, data)
       IN  [s EXCEPT !.dev = w.dev, !.ret[t] = w.ret, !.put = @ \o SubSeq(data, 1, w.ret),
                     !.told = @ \cup s.dev.async,
                     !.doing = Wake([@ EXCEPT ![t] = "out"], "inq")]

\* poll, and what /proc shows.
PipePoll(d) == (IF d.rp # d.wp THEN {"POLLIN"} ELSE {})
                 \cup (IF SpaceFree(d) # 0 THEN {"POLLOUT"} ELSE {})
PipeFasync(d, file, on) == [d EXCEPT !.async = IF on THEN @ \cup {file} ELSE @ \ {file}]
PipeShown(d) == [size |-> d.size, rp |-> d.rp, wp |-> d.wp,
                 readers |-> d.readers, writers |-> d.writers]
=============================================================================
