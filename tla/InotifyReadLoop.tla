--------------------------- MODULE InotifyReadLoop ---------------------------
(***************************************************************************)
(* inotify_dtree.c, processInotifyEvents() at the level of bytes: the      *)
(* read() into buf, the walk of evp over the events up to buf + numRead,   *)
(* and the second read() after an IN_MOVED_FROM at the end of the buffer: *)
(* the remaining bytes are moved to the start of buf, ualarm() bounds the  *)
(* read(), and numRead grows by what it returned.  An event is a record   *)
(* with its length in bytes (sizeof(struct inotify_event) + len); what    *)
(* processNextInotifyEvent() does to the cache is InotifyDtree's part:    *)
(* here only how many bytes it consumes counts, and a cache miss, which   *)
(* discards the rest of the buffer, is a choice the model may make at any *)
(* event.  The kernel returns only whole events and never 0 from read().  *)
(***************************************************************************)
EXTENDS Naturals, Sequences, FiniteSetsExt

CONSTANTS
    Events,     \* events the kernel may queue: [kind, cookie, len]
    BufLen,     \* INOTIFY_READ_BUF_LEN
    ReadSize,   \* cnt of the first read(): -b, or INOTIFY_READ_BUF_LEN
    MaxEvents   \* bound on the events queued in a behaviour

ASSUME \A e \in Events : e.kind \in {"from", "to", "other"} /\ e.len > 0
ASSUME \A e \in Events : e.len <= ReadSize /\ ReadSize <= BufLen

VARIABLES
    queue,      \* the inotify fd's unread events
    gen,        \* auxiliary: every event queued so far, in order
    done,       \* auxiliary: events consumed or discarded, in order
    buf,        \* the events whose bytes are in buf, from its start
    numRead,    \* processInotifyEvents(): numRead
    evp,        \* processInotifyEvents(): evp - buf
    firstTry,   \* processInotifyEvents(): firstTry
    pc          \* "select", "loop" (for evp), "hanging" (second read())

vars == <<queue, gen, done, buf, numRead, evp, firstTry, pc>>

RECURSIVE Bytes(_)
Bytes(s) == IF s = <<>> THEN 0 ELSE Head(s).len + Bytes(Tail(s))

(* Byte offset in buf of its i-th event. *)
Offset(i) == Bytes(SubSeq(buf, 1, i - 1))

(* How many events from the head of q a read() of n bytes returns. *)
Fit(q, n) == CHOOSE k \in 0 .. Len(q) :
                /\ Bytes(SubSeq(q, 1, k)) <= n
                /\ (k = Len(q) \/ Bytes(SubSeq(q, 1, k + 1)) > n)

(* The events that start in [evp, numRead): those the loop still visits. *)
Pending ==
    LET idx == {i \in 1 .. Len(buf) : evp <= Offset(i) /\ Offset(i) < numRead}
    IN  IF idx = {} THEN <<>> ELSE SubSeq(buf, Min(idx), Max(idx))

Init ==
    /\ queue = <<>> /\ gen = <<>> /\ done = <<>> /\ buf = <<>>
    /\ numRead = 0 /\ evp = 0 /\ firstTry = TRUE
    /\ pc = "select"

(* Another process changes the tree and the kernel queues an event. *)
Generate ==
    /\ Len(gen) < MaxEvents
    /\ \E e \in Events : queue' = Append(queue, e) /\ gen' = Append(gen, e)
    /\ UNCHANGED <<done, buf, numRead, evp, firstTry, pc>>

(* select() reports the inotify fd readable: firstTry = 1, and read()   *)
(* of cnt bytes.                                                        *)
FirstRead ==
    /\ pc = "select"
    /\ queue # <<>>
    /\ LET k == Fit(queue, ReadSize)
       IN  /\ buf' = SubSeq(queue, 1, k)
           /\ queue' = SubSeq(queue, k + 1, Len(queue))
           /\ numRead' = Bytes(SubSeq(queue, 1, k))
    /\ evp' = 0 /\ firstTry' = TRUE /\ pc' = "loop"
    /\ UNCHANGED <<gen, done>>

(* The for loop's test: evp has reached buf + numRead. *)
LoopEnd ==
    /\ pc = "loop"
    /\ evp >= numRead
    /\ pc' = "select"
    /\ UNCHANGED <<queue, gen, done, buf, numRead, evp, firstTry>>

(* processNextInotifyEvent() with bufSize = buf + numRead - evp: the     *)
(* event at evp and whether the next one starts inside bufSize.          *)
CurIdx == CHOOSE i \in 1 .. Len(buf) : Offset(i) = evp
Cur == buf[CurIdx]
NextInBuf == evp + Cur.len < numRead
Paired == NextInBuf /\ buf[CurIdx + 1].kind = "to" /\ buf[CurIdx + 1].cookie = Cur.cookie

(* A return of evLen > 0 for n events: evp += evLen; firstTry = 1. *)
Consume(n) ==
    LET taken == SubSeq(buf, CurIdx, CurIdx + n - 1)
    IN  /\ evp' = evp + Bytes(taken)
        /\ done' = done \o taken
        /\ firstTry' = TRUE
        /\ UNCHANGED <<queue, gen, buf, numRead, pc>>

Active == pc = "loop" /\ evp < numRead

(* findWatchChecked() fails or zapSubtree() fails: reinitialize() and    *)
(* return INOTIFY_READ_BUF_LEN, which ends the loop and drops the rest.  *)
ProcessDiscard ==
    /\ Active
    /\ evp' = evp + BufLen
    /\ done' = done \o Pending
    /\ firstTry' = TRUE
    /\ UNCHANGED <<queue, gen, buf, numRead, pc>>

(* An IN_MOVED_FROM with its IN_MOVED_TO next: both consumed. *)
ProcessPair ==
    /\ Active /\ Cur.kind = "from" /\ Paired
    /\ Consume(2)

(* Any other event, or an IN_MOVED_FROM treated as a move out of the    *)
(* tree (another event follows it, or this is the second try).           *)
ProcessOne ==
    /\ Active
    /\ Cur.kind = "from" => ~Paired /\ (NextInBuf \/ ~firstTry)
    /\ Consume(1)

(* A trailing IN_MOVED_FROM on the first try returns 0: firstTry = 0,    *)
(* numRead = buf + numRead - evp and the remaining bytes are moved to    *)
(* the start of buf; evp is left as it is until after the read().        *)
ProcessHang ==
    /\ Active /\ Cur.kind = "from" /\ ~NextInBuf /\ firstTry
    /\ firstTry' = FALSE
    /\ numRead' = numRead - evp
    /\ buf' = SubSeq(buf, CurIdx, Len(buf))
    /\ pc' = "hanging"
    /\ UNCHANGED <<queue, gen, done, evp>>

(* ualarm(2000); read() of INOTIFY_READ_BUF_LEN - numRead bytes returns *)
(* events: numRead += nr; evp = buf.                                     *)
SecondaryRead ==
    /\ pc = "hanging"
    /\ queue # <<>>
    /\ LET k == Fit(queue, BufLen - numRead)
       IN  /\ buf' = buf \o SubSeq(queue, 1, k)
           /\ queue' = SubSeq(queue, k + 1, Len(queue))
           /\ numRead' = numRead + Bytes(SubSeq(queue, 1, k))
    /\ evp' = 0 /\ pc' = "loop"
    /\ UNCHANGED <<gen, done, firstTry>>

(* The second read() left evp where it was, as a mutant. *)
SecondaryTimeoutKeepEvp ==
    /\ pc = "hanging"
    /\ queue = <<>>
    /\ numRead' = numRead - 1
    /\ pc' = "loop"
    /\ UNCHANGED <<queue, gen, done, buf, evp, firstTry>>

(* The alarm interrupts read(): nr = -1, errno = EINTR.  The test        *)
(* 'errno != -1' is true, so numRead += nr takes one byte off numRead;   *)
(* evp = buf.                                                            *)
SecondaryTimeout ==
    /\ pc = "hanging"
    /\ queue = <<>>
    /\ numRead' = numRead - 1
    /\ evp' = 0 /\ pc' = "loop"
    /\ UNCHANGED <<queue, gen, done, buf, firstTry>>

Prog ==
    \/ FirstRead \/ LoopEnd
    \/ ProcessDiscard \/ ProcessPair \/ ProcessOne \/ ProcessHang
    \/ SecondaryRead \/ SecondaryTimeout

Next == Prog \/ Generate

Spec == Init /\ [][Next]_vars /\ WF_vars(Prog)

----------------------------------------------------------------------------

TypeOK ==
    /\ {queue, gen, done, buf} \subseteq Seq(Events)
    /\ numRead \in Nat /\ evp \in Nat
    /\ firstTry \in BOOLEAN
    /\ pc \in {"select", "loop", "hanging"}

(* After the second read() times out, numRead is one byte short of the    *)
(* trailing IN_MOVED_FROM (the 'errno != -1' test at the end of           *)
(* processInotifyEvents()).  Still every queued event is consumed or      *)
(* discarded exactly once and in order: between two steps of the loop    *)
(* the consumed events, those the loop has still to visit and the unread *)
(* queue are together what the kernel queued.                            *)
EventsAccounted == pc \in {"select", "loop"} => done \o Pending \o queue = gen

=============================================================================
