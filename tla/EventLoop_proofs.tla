-------------------------- MODULE EventLoop_proofs --------------------------
(* Proofs about EventLoop: descriptors and table agree, for any number of  *)
(* clients, peers, descriptors and places in the table.                    *)
EXTENDS EventLoop, ProofLemmas

(***************************************************************************)
(* The inductive invariant.                                                *)
(***************************************************************************)
Slots == 1 .. Len(table)

\* The listening socket has the first entry and no other, and keeps it.
Registered ==
    /\ table # <<>>
    /\ Live(table[1])
    /\ \A k \in Slots :
          /\ table[k].cb = "master" <=> k = 1
          /\ table[k].cb = "pong" => table[k].arg \in Peers
          /\ table[k].done => table[k].fd # NoFd

\* to_remove holds the descriptors of the entries that are done, each once.
DoneListed ==
    \A k \in Slots : table[k].done =>
        /\ \E n \in 1 .. Len(to_remove) : to_remove[n] = table[k].fd
        /\ \A j \in Slots : table[j].done /\ table[j].fd = table[k].fd => j = k

ListedDone ==
    \A n \in 1 .. Len(to_remove) :
        /\ \E k \in Slots : table[k].done /\ table[k].fd = to_remove[n]
        /\ \A m \in 1 .. Len(to_remove) : to_remove[m] = to_remove[n] => m = n

\* A socket that got the number of a closed one was registered after it.
DoneFirst ==
    \A j, k \in Slots :
        table[k].done /\ Live(table[j]) /\ table[j].fd = table[k].fd => k < j

\* A turn starts with nothing to remove.  While it dispatches, the numbers of what it has
\* closed are not in use again: the one entry that opens sockets comes first.
TurnInv ==
    /\ pc = "poll" => to_remove = <<>>
    /\ pc = "dispatch" =>
          /\ i >= 1
          /\ i = 1 => to_remove = <<>>
          /\ \A k \in Slots : table[k].ready =>
                Live(table[k]) /\ (table[k].cb = "master" => backlog # <<>>)
          /\ \A j, k \in Slots :
                table[k].done /\ Live(table[j]) => table[j].fd # table[k].fd

TableInv ==
    /\ Registered
    /\ DoneListed
    /\ ListedDone
    /\ DoneFirst
    /\ CallbacksOwnTheirSockets
    /\ OnePingPerPeer

IInv == TypeOK /\ TableInv /\ TurnInv

-----------------------------------------------------------------------------
(* The operators of the model *)

(* The kernel's choice of a descriptor is a free one. *)
LEMMA LowestFreeIsFree == Free # {} => LowestFree \in Free
<1>1. Free \in SUBSET Nat
  BY LoopConstants DEF Free, Fds
<1> QED BY <1>1, LeastNumber DEF LowestFree

(* The parts of an entry have their types; a live entry has a descriptor. *)
LEMMA EntryTypes ==
    ASSUME TypeOK, NEW k \in Slots
    PROVE  /\ table[k] \in TableEntry
           /\ table[k].cb \in {"master", "client", "pong"}
           /\ Live(table[k]) => table[k].fd \in Fds
<1>1. table[k] \in TableEntry
  BY ElementOfSeq DEF TypeOK, Slots
<1>2. table[k].fd \in Fds \cup {NoFd} /\ table[k].cb \in {"master", "client", "pong"}
  BY <1>1 DEF TableEntry
<1> QED BY <1>1, <1>2 DEF Live

(* What the loop's own marks leave of a table: everything but who is ready. *)
SameEntries(t) ==
    /\ t \in Seq(TableEntry)
    /\ Len(t) = Len(table)
    /\ \A k \in Slots : /\ t[k].fd = table[k].fd
                        /\ t[k].cb = table[k].cb
                        /\ t[k].arg = table[k].arg
                        /\ t[k].done = table[k].done

(* Polling changes who is ready, and so does the end of a callback. *)
LEMMA KeptEntries ==
    ASSUME TypeOK, i \in Slots
    PROVE  /\ SameEntries(Kept)
           /\ ~Kept[i].ready
           /\ \A k \in Slots \ {i} : Kept[k] = table[k]
<1> DEFINE e == [table[i] EXCEPT !.ready = FALSE]
<1>1. table[i] \in TableEntry /\ table \in Seq(TableEntry)
  BY ElementOfSeq DEF TypeOK, Slots
<1>2. /\ e \in TableEntry /\ ~e.ready
      /\ e.fd = table[i].fd /\ e.cb = table[i].cb /\ e.arg = table[i].arg /\ e.done = table[i].done
  BY <1>1 DEF TableEntry
<1>3. Kept = [table EXCEPT ![i] = e]
  BY <1>1 DEF Kept
<1> HIDE DEF e
<1>4. /\ Kept \in Seq(TableEntry) /\ Len(Kept) = Len(table)
      /\ \A k \in Slots : Kept[k] = IF k = i THEN e ELSE table[k]
  BY <1>1, <1>2, <1>3, ExceptSeq DEF Slots
<1> QED BY <1>2, <1>4 DEF SameEntries

(* The callback that ran last has its entry marked as done, and no other. *)
LEMMA RetiredEntries ==
    ASSUME TypeOK, i \in Slots, Retired
    PROVE  /\ table' \in Seq(TableEntry)
           /\ Len(table') = Len(table)
           /\ \A k \in Slots \ {i} : table'[k] = table[k]
           /\ table'[i].done /\ ~table'[i].ready
           /\ table'[i].fd = table[i].fd
           /\ table'[i].cb = table[i].cb
           /\ table'[i].arg = table[i].arg
<1> DEFINE e == [table[i] EXCEPT !.ready = FALSE, !.done = TRUE]
<1>1. table[i] \in TableEntry /\ table \in Seq(TableEntry)
  BY ElementOfSeq DEF TypeOK, Slots
<1>2. /\ e \in TableEntry /\ ~e.ready /\ e.done
      /\ e.fd = table[i].fd /\ e.cb = table[i].cb /\ e.arg = table[i].arg
  BY <1>1 DEF TableEntry
<1>3. table' = [table EXCEPT ![i] = e]
  BY <1>1 DEF Retired
<1> HIDE DEF e
<1>4. /\ table' \in Seq(TableEntry) /\ Len(table') = Len(table)
      /\ \A k \in Slots : table'[k] = IF k = i THEN e ELSE table[k]
  BY <1>1, <1>2, <1>3, ExceptSeq DEF Slots
<1> QED BY <1>2, <1>4

(* Registering appends the entry, or leaves a full table alone. *)
LEMMA AddedEntries ==
    ASSUME NEW t \in Seq(TableEntry), Len(t) <= MaxFds, NEW e \in TableEntry
    PROVE  /\ Added(t, e) \in Seq(TableEntry)
           /\ Len(Added(t, e)) <= MaxFds
           /\ \A k \in 1 .. Len(t) : Added(t, e)[k] = t[k]
           /\ \/ Len(Added(t, e)) = Len(t)
              \/ Len(Added(t, e)) = Len(t) + 1 /\ Added(t, e)[Len(t) + 1] = e
<1>1. Len(t) \in Nat
  BY LenProperties
<1>2. CASE Len(t) = MaxFds
  BY <1>1, <1>2 DEF Added
<1>3. CASE Len(t) # MaxFds
  <2>1. /\ Append(t, e) \in Seq(TableEntry)
        /\ Len(Append(t, e)) = Len(t) + 1
        /\ \A k \in 1 .. Len(t) : Append(t, e)[k] = t[k]
        /\ Append(t, e)[Len(t) + 1] = e
    BY AppendProperties
  <2>2. Len(t) + 1 <= MaxFds
    BY <1>1, <1>3, LoopConstants
  <2> QED BY <1>3, <2>1, <2>2 DEF Added
<1> QED BY <1>2, <1>3

(* Taking an entry out moves those behind it down by one place. *)
LEMMA ShiftedEntries ==
    ASSUME NEW t \in Seq(TableEntry), NEW k \in 1 .. Len(t)
    PROVE  /\ Shifted(t, k) \in Seq(TableEntry)
           /\ Len(Shifted(t, k)) = Len(t) - 1
           /\ \A j \in 1 .. Len(t) - 1 :
                 Shifted(t, k)[j] = IF j < k THEN t[j] ELSE t[j + 1]
<1>1. Len(t) \in Nat /\ Len(t) - 1 \in Nat
  BY LenProperties
<1>2. \A j \in 1 .. Len(t) : t[j] \in TableEntry
  BY ElementOfSeq
<1>3. Shifted(t, k) \in [1 .. Len(t) - 1 -> TableEntry]
  BY <1>1, <1>2 DEF Shifted
<1>4. Shifted(t, k) \in Seq(TableEntry)
  BY <1>1, <1>3, SeqDef
<1> QED BY <1>1, <1>3, <1>4, LenProperties DEF Shifted


-----------------------------------------------------------------------------
(* The parts of the invariant, step by step.  Each of the next lemmas is   *)
(* about one way in which the table changes.                               *)

(* Steps of the loop that register and retire nothing, and steps of the outside world. *)
LEMMA QuietKeeps ==
    ASSUME TypeOK, TableInv, pc # "dead", SameEntries(table'),
           to_remove' = to_remove,
           open' = open \/ pc' = "dead",
           \A p \in Peers : waiting[p] => waiting'[p]
    PROVE  TableInv'
<1>1. /\ Len(table) \in Nat /\ Slots' = Slots
      /\ \A k \in Slots : /\ table'[k].fd = table[k].fd
                          /\ table'[k].cb = table[k].cb
                          /\ table'[k].arg = table[k].arg
                          /\ table'[k].done = table[k].done
                          /\ Live(table'[k]) <=> Live(table[k])
  BY LenProperties DEF TypeOK, SameEntries, Slots, Live
<1>2. Registered'
  <2>1. Len(table) # 0 /\ Len(table') = Len(table)
    BY EmptySeq, LenProperties DEF TypeOK, TableInv, Registered, SameEntries
  <2> QED BY <1>1, <2>1, EmptySeq DEF TableInv, Registered, Slots
<1>3. DoneListed'
  BY <1>1 DEF TableInv, DoneListed
<1>4. ListedDone'
  BY <1>1 DEF TableInv, ListedDone
<1>5. DoneFirst'
  BY <1>1 DEF TableInv, DoneFirst
<1>6. CallbacksOwnTheirSockets'
  BY <1>1 DEF TableInv, CallbacksOwnTheirSockets, Slots, Owns
<1>7. OnePingPerPeer'
  BY <1>1 DEF TableInv, OnePingPerPeer, Registered, Slots
<1> QED BY <1>2, <1>3, <1>4, <1>5, <1>6, <1>7 DEF TableInv

(* A callback whose entry is scheduled for removal, with its descriptor closed or not. *)
LEMMA RetiredKeeps ==
    ASSUME TypeOK, TableInv, TurnInv, pc = "dispatch", pc' = "dispatch",
           i \in Slots, i # 1, table[i].ready, Retired,
           open' = open \/ open' = [open EXCEPT ![Fd] = None],
           \/ waiting' = waiting
           \/ table[i].cb = "pong" /\ waiting' = [waiting EXCEPT ![table[i].arg] = FALSE]
    PROVE  /\ TableInv'
           /\ to_remove' \in Seq(Fds)
           /\ \A j, k \in Slots' :
                 table'[k].done /\ Live(table'[j]) => table'[j].fd # table'[k].fd
<1>1. /\ Len(table) \in Nat /\ Slots' = Slots /\ Len(table') = Len(table)
      /\ \A k \in Slots \ {i} : table'[k] = table[k]
      /\ table'[i].done /\ ~Live(table'[i])
      /\ \A k \in Slots : /\ table'[k].fd = table[k].fd
                          /\ table'[k].cb = table[k].cb
                          /\ table'[k].arg = table[k].arg
  BY LenProperties, RetiredEntries DEF TypeOK, Slots, Live
<1>2. Live(table[i]) /\ table[i].fd \in Fds /\ Fd = table[i].fd
  BY EntryTypes DEF TurnInv, Fd
<1>3. \A k \in Slots : table[k].fd = Fd => k = i
  <2> SUFFICES ASSUME NEW k \in Slots, table[k].fd = Fd
               PROVE  k = i
    OBVIOUS
  <2>1. Live(table[k])
    BY <1>2 DEF TurnInv, Live
  <2> QED BY <1>2, <2>1 DEF TableInv, CallbacksOwnTheirSockets, Slots
<1>4. /\ to_remove' \in Seq(Fds)
      /\ Len(to_remove) \in Nat
      /\ Len(to_remove') = Len(to_remove) + 1
      /\ \A n \in 1 .. Len(to_remove) : to_remove'[n] = to_remove[n]
      /\ to_remove'[Len(to_remove) + 1] = Fd
  BY <1>2, AppendProperties, LenProperties DEF Retired, TypeOK
<1>5. Registered'
  <2>1. Len(table) # 0 /\ 1 \in Slots \ {i}
    BY <1>1, EmptySeq DEF TypeOK, TableInv, Registered, Slots
  <2>2. table' # <<>>
    BY <1>1, <2>1, EmptySeq
  <2>3. Live(table[1]) /\ table'[1] = table[1]
    BY <1>1, <2>1 DEF TableInv, Registered
  <2> QED BY <1>1, <1>2, <2>2, <2>3 DEF TableInv, Registered, Live
<1>6. \A n \in 1 .. Len(to_remove) : to_remove[n] # Fd
  BY <1>2, <1>3 DEF TableInv, ListedDone, Live
<1>7. DoneListed'
  <2> SUFFICES ASSUME NEW k \in Slots, table'[k].done
               PROVE  /\ \E n \in 1 .. Len(to_remove') : to_remove'[n] = table'[k].fd
                      /\ \A j \in Slots :
                            table'[j].done /\ table'[j].fd = table'[k].fd => j = k
    BY <1>1 DEF DoneListed
  <2>1. CASE k = i
    BY <1>1, <1>2, <1>3, <1>4, <2>1
  <2>2. CASE k # i
    <3>1. table[k].done /\ table[k].fd # Fd
      BY <1>1, <1>3, <2>2
    <3>2. PICK n \in 1 .. Len(to_remove) : to_remove[n] = table[k].fd
      BY <3>1 DEF TableInv, DoneListed
    <3>3. n \in 1 .. Len(to_remove') /\ to_remove'[n] = table'[k].fd
      BY <1>1, <1>4, <3>2
    <3>4. \A j \in Slots : table'[j].done /\ table'[j].fd = table'[k].fd => j = k
      BY <1>1, <1>2, <3>1 DEF TableInv, DoneListed
    <3> QED BY <3>3, <3>4
  <2> QED BY <2>1, <2>2
<1>8. ListedDone'
  <2> SUFFICES ASSUME NEW n \in 1 .. Len(to_remove')
               PROVE  /\ \E k \in Slots : table'[k].done /\ table'[k].fd = to_remove'[n]
                      /\ \A m \in 1 .. Len(to_remove') : to_remove'[m] = to_remove'[n] => m = n
    BY <1>1 DEF ListedDone
  <2>1. CASE n = Len(to_remove) + 1
    BY <1>1, <1>2, <1>4, <1>6, <2>1
  <2>2. CASE n # Len(to_remove) + 1
    <3>1. n \in 1 .. Len(to_remove) /\ to_remove'[n] = to_remove[n]
      BY <1>4, <2>2
    <3>2. PICK k \in Slots : table[k].done /\ table[k].fd = to_remove[n]
      BY <3>1 DEF TableInv, ListedDone
    <3>3. k # i
      BY <1>2, <3>2 DEF Live
    <3>4. \A m \in 1 .. Len(to_remove') : to_remove'[m] = to_remove'[n] => m = n
      <4> SUFFICES ASSUME NEW m \in 1 .. Len(to_remove'), to_remove'[m] = to_remove'[n]
                   PROVE  m = n
        OBVIOUS
      <4>1. m \in 1 .. Len(to_remove)
        BY <1>4, <1>6, <3>1
      <4> QED BY <1>4, <3>1, <4>1 DEF TableInv, ListedDone
    <3> QED BY <1>1, <3>1, <3>2, <3>3, <3>4
  <2> QED BY <2>1, <2>2
<1>9. \A j, k \in Slots :
         table'[k].done /\ Live(table'[j]) => table'[j].fd # table'[k].fd
  <2> SUFFICES ASSUME NEW j \in Slots, NEW k \in Slots, table'[k].done, Live(table'[j])
               PROVE  table'[j].fd # table'[k].fd
    OBVIOUS
  <2>1. j # i /\ Live(table[j])
    BY <1>1
  <2>2. CASE k = i
    BY <1>1, <1>2, <1>3, <2>1, <2>2
  <2>3. CASE k # i
    BY <1>1, <2>1, <2>3 DEF TurnInv
  <2> QED BY <2>2, <2>3
<1>10. DoneFirst'
  BY <1>1, <1>9 DEF DoneFirst
<1>11. CallbacksOwnTheirSockets'
  <2> SUFFICES ASSUME NEW k \in Slots, Live(table'[k])
               PROVE  /\ Owns(table[k])'
                      /\ \A j \in Slots :
                            Live(table'[j]) /\ table'[j].fd = table'[k].fd => j = k
    BY <1>1 DEF CallbacksOwnTheirSockets, Slots, Live, Owns
  <2>1. k # i /\ Live(table[k]) /\ table'[k] = table[k]
    BY <1>1
  <2>2. /\ Owns(table[k])
        /\ \A j \in Slots : Live(table[j]) /\ table[j].fd = table[k].fd => j = k
    BY <2>1 DEF TableInv, CallbacksOwnTheirSockets, Slots
  <2>3. table[k].fd \in Fds /\ table[k].fd # Fd
    BY <1>3, <2>1, EntryTypes
  <2>4. open'[table[k].fd] = open[table[k].fd]
    BY <2>3 DEF TypeOK
  <2> QED BY <1>1, <2>1, <2>2, <2>4 DEF Owns
<1>12. OnePingPerPeer'
  <2> SUFFICES ASSUME NEW k \in Slots, table'[k].cb = "pong", ~table'[k].done
               PROVE  /\ waiting'[table'[k].arg]
                      /\ \A j \in Slots :
                            table'[j].cb = "pong" /\ ~table'[j].done
                               /\ table'[j].arg = table'[k].arg => j = k
    BY <1>1 DEF OnePingPerPeer, Slots
  <2>1. k # i /\ table'[k] = table[k]
    BY <1>1
  <2>2. /\ waiting[table[k].arg]
        /\ \A j \in Slots : table[j].cb = "pong" /\ ~table[j].done
                               /\ table[j].arg = table[k].arg => j = k
    BY <2>1 DEF TableInv, OnePingPerPeer, Slots
  <2>3. table[i].cb = "pong" => table[i].arg # table[k].arg
    BY <1>2, <2>1, <2>2 DEF Live
  <2>4. table[k].arg \in Peers
    BY <2>1 DEF TableInv, Registered
  <2>5. waiting'[table[k].arg]
    BY <2>2, <2>3, <2>4 DEF TypeOK
  <2> QED BY <1>1, <2>1, <2>2, <2>5
<1> QED BY <1>1, <1>4, <1>5, <1>7, <1>8, <1>9, <1>10, <1>11, <1>12 DEF TableInv

(* A new entry: a failed accept, or a connection or a ping with a descriptor that was free. *)
Opens(f, cb, arg) ==
    \/ /\ f = NoFd /\ cb = "client" /\ arg = None
       /\ open' = open
    \/ /\ f \in Free /\ cb = "client" /\ arg = None
       /\ \E c \in Conns : open' = [open EXCEPT ![f] = c]
    \/ /\ f \in Free /\ cb = "pong" /\ arg \in Peers
       /\ open' = [open EXCEPT ![f] = arg]
       /\ ~waiting[arg] /\ waiting'[arg]

(* Registering a descriptor that was free, with a callback that owns it, keeps the table sound. *)
LEMMA AddedKeeps ==
    ASSUME TypeOK, TableInv, pc # "dead",
           NEW t, SameEntries(t), NEW f, NEW cb, NEW arg,
           table' = Added(t, NewEntry(f, cb, arg)),
           to_remove' = to_remove,
           Opens(f, cb, arg),
           \A p \in Peers : waiting[p] => waiting'[p]
    PROVE  /\ TableInv'
           /\ table' \in Seq(TableEntry)
           /\ Len(table') <= MaxFds
           /\ Slots \subseteq Slots'
           /\ \A k \in Slots : table'[k] = t[k]
           /\ \A k \in Slots' \ Slots : table'[k] = NewEntry(f, cb, arg)
<1> DEFINE e == NewEntry(f, cb, arg)
           n == Len(table) + 1
<1>1. /\ e \in TableEntry
      /\ e.fd = f /\ e.cb = cb /\ e.arg = arg /\ ~e.done /\ ~e.ready
      /\ Live(e) <=> f # NoFd
  BY DEF Opens, NewEntry, TableEntry, Free, Live
<1> HIDE DEF e
<1>2. /\ Len(table) \in Nat /\ Len(table) <= MaxFds
      /\ table' \in Seq(TableEntry)
      /\ Len(table') <= MaxFds
      /\ \A k \in Slots : table'[k] = t[k]
      /\ \/ Len(table') = Len(table)
         \/ Len(table') = n /\ table'[n] = e
  <2>1. t \in Seq(TableEntry) /\ Len(t) = Len(table) /\ Len(t) <= MaxFds
    BY DEF SameEntries, TypeOK
  <2>2. Len(table) \in Nat
    BY LenProperties DEF TypeOK
  <2>3. table' = Added(t, e)
    BY DEF e
  <2>4. /\ Added(t, e) \in Seq(TableEntry)
        /\ Len(Added(t, e)) <= MaxFds
        /\ \A k \in 1 .. Len(t) : Added(t, e)[k] = t[k]
        /\ \/ Len(Added(t, e)) = Len(t)
           \/ Len(Added(t, e)) = Len(t) + 1 /\ Added(t, e)[Len(t) + 1] = e
    BY <1>1, <2>1, AddedEntries
  <2> QED BY <2>1, <2>2, <2>3, <2>4 DEF Slots
<1>3. /\ Slots \subseteq Slots'
      /\ \A k \in Slots' \ Slots : k = n /\ table'[k] = e
      /\ \A k \in Slots : /\ table'[k].fd = table[k].fd
                          /\ table'[k].cb = table[k].cb
                          /\ table'[k].arg = table[k].arg
                          /\ table'[k].done = table[k].done
                          /\ Live(table'[k]) <=> Live(table[k])
  BY <1>2 DEF Slots, SameEntries, Live
\* Nobody alive has the descriptor that was free.
<1>4. \A k \in Slots : Live(table[k]) => table[k].fd # f /\ Owns(table[k])'
  <2> SUFFICES ASSUME NEW k \in Slots, Live(table[k])
               PROVE  table[k].fd # f /\ Owns(table[k])'
    OBVIOUS
  <2>1. Owns(table[k]) /\ (table[k].cb = "pong" => table[k].arg \in Peers)
    BY DEF TableInv, CallbacksOwnTheirSockets, Registered, Slots
  <2>2. open[table[k].fd] # None /\ table[k].fd \in Fds /\ table[k].fd # NoFd
    BY <2>1, EntryTypes, LoopConstants DEF Owns, Socks, Live
  <2>3. table[k].fd # f
    BY <2>2 DEF Opens, Free
  <2>4. open'[table[k].fd] = open[table[k].fd]
    BY <2>2, <2>3 DEF Opens, TypeOK
  <2> QED BY <1>3, <2>1, <2>3, <2>4 DEF Owns
<1>5. Registered'
  <2>1. Len(table) # 0 /\ Len(table') # 0
    BY <1>2, EmptySeq DEF TypeOK, TableInv, Registered
  <2>2. table' # <<>> /\ 1 \in Slots
    BY <1>2, <2>1, EmptySeq DEF Slots
  <2> QED BY <1>1, <1>2, <1>3, <2>2 DEF Opens, TableInv, Registered, Slots
<1>6. DoneListed'
  BY <1>1, <1>3 DEF TableInv, DoneListed
<1>7. ListedDone'
  BY <1>3 DEF TableInv, ListedDone
<1>8. DoneFirst'
  <2> SUFFICES ASSUME NEW j \in Slots', NEW k \in Slots',
                      table'[k].done, Live(table'[j]), table'[j].fd = table'[k].fd
               PROVE  k < j
    BY DEF DoneFirst
  <2>1. k \in Slots
    BY <1>1, <1>3
  <2>2. CASE j \in Slots
    BY <1>3, <2>1, <2>2 DEF TableInv, DoneFirst
  <2>3. CASE j \notin Slots
    BY <1>2, <1>3, <2>1, <2>3 DEF Slots
  <2> QED BY <2>2, <2>3
<1>9. CallbacksOwnTheirSockets'
  <2> SUFFICES ASSUME NEW k \in Slots', Live(table'[k])
               PROVE  /\ Owns(table[k])'
                      /\ \A j \in Slots' :
                            Live(table'[j]) /\ table'[j].fd = table'[k].fd => j = k
    BY DEF CallbacksOwnTheirSockets, Slots, Live, Owns
  <2>1. CASE k \in Slots
    <3>1. Owns(table[k])'
      BY <1>3, <1>4, <2>1
    <3>2. \A j \in Slots' : Live(table'[j]) /\ table'[j].fd = table'[k].fd => j = k
      BY <1>1, <1>3, <1>4, <2>1 DEF TableInv, CallbacksOwnTheirSockets, Slots
    <3> QED BY <3>1, <3>2
  <2>2. CASE k \notin Slots
    <3>1. table'[k] = e /\ k = n /\ f # NoFd
      BY <1>1, <1>3, <2>2
    <3>2. Owns(table[k])'
      <4>1. f \in Fds /\ (\/ cb = "client" /\ open'[f] \in Conns
                          \/ cb = "pong" /\ open'[f] = arg)
        BY <3>1 DEF Opens, Free, TypeOK
      <4> QED BY <1>1, <3>1, <4>1 DEF Owns
    <3>3. \A j \in Slots' : Live(table'[j]) /\ table'[j].fd = table'[k].fd => j = k
      BY <1>1, <1>3, <1>4, <3>1
    <3> QED BY <3>2, <3>3
  <2> QED BY <2>1, <2>2
<1>10. OnePingPerPeer'
  <2> SUFFICES ASSUME NEW k \in Slots', table'[k].cb = "pong", ~table'[k].done
               PROVE  /\ waiting'[table'[k].arg]
                      /\ \A j \in Slots' :
                            table'[j].cb = "pong" /\ ~table'[j].done
                               /\ table'[j].arg = table'[k].arg => j = k
    BY DEF OnePingPerPeer, Slots
  <2>1. \A j \in Slots : table'[j].cb = "pong" /\ ~table'[j].done =>
           table[j].arg \in Peers /\ waiting[table[j].arg]
    BY <1>3 DEF TableInv, OnePingPerPeer, Registered, Slots
  <2>2. CASE k \in Slots
    BY <1>1, <1>3, <2>1, <2>2 DEF Opens, TableInv, OnePingPerPeer, Slots
  <2>3. CASE k \notin Slots
    BY <1>1, <1>3, <2>1, <2>3 DEF Opens
  <2> QED BY <2>2, <2>3
<1> QED BY <1>2, <1>3, <1>5, <1>6, <1>7, <1>8, <1>9, <1>10 DEF TableInv, e

(* The first entry with a scheduled descriptor is the one that is done. *)
LEMMA FirstIsDone ==
    ASSUME TypeOK, TableInv, to_remove # <<>>
    PROVE  \E k \in Slots :
              /\ table[k].done /\ table[k].fd = LastToRemove /\ k # 1
              /\ Removed(table, LastToRemove) = Shifted(table, k)
<1> DEFINE fd == LastToRemove
           First(k) == table[k].fd = fd /\ \A j \in 1 .. k - 1 : table[j].fd # fd
<1>1. Len(to_remove) \in 1 .. Len(to_remove)
  BY EmptySeq DEF TypeOK
<1>2. PICK k \in Slots : table[k].done /\ table[k].fd = fd
  BY <1>1 DEF TableInv, ListedDone, LastToRemove
<1>3. \A j \in Slots : table[j].fd = fd => j = k \/ k < j
  <2> SUFFICES ASSUME NEW j \in Slots, table[j].fd = fd
               PROVE  j = k \/ k < j
    OBVIOUS
  <2>1. table[j].done \/ Live(table[j])
    BY <1>2 DEF TableInv, Registered, Live
  <2> QED BY <1>2, <2>1 DEF TableInv, DoneListed, DoneFirst
<1> HIDE DEF fd
<1>4. First(k)
  BY <1>2, <1>3 DEF Slots
<1>5. \A j \in Slots : First(j) => j = k
  BY <1>2, <1>3 DEF Slots
<1>6. FirstWith(table, fd) = k
  <2>1. FirstWith(table, fd) = CHOOSE j \in Slots : First(j)
    BY DEF FirstWith, Slots
  <2> HIDE DEF First
  <2> QED BY <1>4, <1>5, <2>1
<1>7. k # 1
  BY <1>2 DEF TableInv, Registered, Live
<1> QED BY <1>2, <1>6, <1>7 DEF Removed, Slots, fd

(* An entry leaves the table, and its descriptor the list. *)
LEMMA RemoveKeeps ==
    ASSUME TypeOK, TableInv, Remove
    PROVE  TableInv' /\ TypeOK'
<1> DEFINE m == Len(to_remove)
<1>1. PICK k \in Slots : /\ table[k].done /\ table[k].fd = LastToRemove /\ k # 1
                         /\ table' = Shifted(table, k)
  BY FirstIsDone DEF Remove
<1> DEFINE Old(j) == IF j < k THEN j ELSE j + 1
<1>2. /\ Len(table) \in Nat /\ table' \in Seq(TableEntry)
      /\ Len(table') = Len(table) - 1
      /\ \A j \in Slots' : table'[j] = table[Old(j)] /\ Old(j) \in Slots \ {k}
  <2>1. table \in Seq(TableEntry) /\ Len(table) \in Nat /\ k \in 1 .. Len(table)
    BY LenProperties DEF TypeOK, Slots
  <2>2. /\ Shifted(table, k) \in Seq(TableEntry)
        /\ Len(Shifted(table, k)) = Len(table) - 1
        /\ \A j \in 1 .. Len(table) - 1 :
              Shifted(table, k)[j] = IF j < k THEN table[j] ELSE table[j + 1]
    BY <2>1, ShiftedEntries
  <2>3. Slots' = 1 .. Len(table) - 1
    BY <1>1, <2>2 DEF Slots
  <2> QED BY <1>1, <2>1, <2>2, <2>3 DEF Slots
<1>3. /\ \A j, l \in Slots' : (j < l <=> Old(j) < Old(l)) /\ (Old(j) = Old(l) => j = l)
      /\ \A j \in Slots \ {k} : \E l \in Slots' : Old(l) = j
  <2>1. \A j \in Slots \ {k} : \E l \in Slots' : Old(l) = j
    <3> SUFFICES ASSUME NEW j \in Slots \ {k}
                 PROVE  \E l \in Slots' : Old(l) = j
      OBVIOUS
    <3>1. CASE j < k
      BY <1>2, <3>1 DEF Slots
    <3>2. CASE j > k
      <4>1. j - 1 \in Slots' /\ Old(j - 1) = j
        BY <1>2, <3>2 DEF Slots
      <4> QED BY <4>1
    <3> QED BY <3>1, <3>2 DEF Slots
  <2> QED BY <1>2, <2>1 DEF Slots
<1>4. Old(1) = 1 /\ 1 \in Slots'
  <2>1. 1 \in Slots
    BY <1>1 DEF Slots
  <2> QED BY <1>1, <1>2, <2>1 DEF Slots
<1> HIDE DEF Old
<1>5. /\ m \in Nat /\ m # 0 /\ LastToRemove = to_remove[m]
      /\ to_remove' \in Seq(Fds)
      /\ Len(to_remove') = m - 1
      /\ \A n \in 1 .. m - 1 : to_remove'[n] = to_remove[n]
  <2>1. to_remove \in Seq(Fds) /\ to_remove # <<>> /\ m \in Nat /\ m # 0
    BY EmptySeq DEF TypeOK, Remove
  <2>2. \A n \in 1 .. m - 1 : to_remove[n] \in Fds
    BY <2>1, ElementOfSeq
  <2>3. to_remove' = SubSeq(to_remove, 1, m - 1)
    BY DEF Remove
  <2> HIDE DEF m
  <2>4. /\ to_remove' \in Seq(Fds)
        /\ Len(to_remove') = IF 1 <= m - 1 THEN m - 1 - 1 + 1 ELSE 0
        /\ \A n \in 1 .. m - 1 - 1 + 1 : to_remove'[n] = to_remove[1 + n - 1]
    BY <2>1, <2>2, <2>3, SubSeqProperties
  <2>5. Len(to_remove') = m - 1
    BY <2>1, <2>4
  <2>6. \A n \in 1 .. m - 1 : to_remove'[n] = to_remove[n]
    <3> SUFFICES ASSUME NEW n \in 1 .. m - 1
                 PROVE  to_remove'[n] = to_remove[n]
      OBVIOUS
    <3>1. n \in 1 .. m - 1 - 1 + 1 /\ 1 + n - 1 = n
      BY <2>1
    <3> QED BY <2>4, <3>1
  <2> QED BY <2>1, <2>4, <2>5, <2>6 DEF LastToRemove, m
<1>6. UNCHANGED <<pc, i, open, backlog, conn, inbox, gone, waiting, reply, todo, due>>
  BY DEF Remove, net, ping
<1>7. TypeOK'
  <2>1. Len(table') <= MaxFds
    BY <1>2, LoopConstants DEF TypeOK
  <2> QED BY <1>2, <1>5, <1>6, <2>1 DEF TypeOK
<1> HIDE DEF m
<1>8. Registered'
  <2>1. table' # <<>>
    BY <1>2, <1>4, EmptySeq DEF Slots
  <2> QED BY <1>2, <1>3, <1>4, <2>1 DEF TableInv, Registered
<1>9. DoneListed'
  <2> SUFFICES ASSUME NEW l \in Slots', table'[l].done
               PROVE  /\ \E n \in 1 .. Len(to_remove') : to_remove'[n] = table'[l].fd
                      /\ \A j \in Slots' :
                            table'[j].done /\ table'[j].fd = table'[l].fd => j = l
    BY DEF DoneListed
  <2>1. Old(l) \in Slots /\ Old(l) # k /\ table'[l] = table[Old(l)]
    BY <1>2
  <2>2. PICK n \in 1 .. m : to_remove[n] = table[Old(l)].fd
    BY <2>1 DEF TableInv, DoneListed, m
  <2>3. n # m
    BY <1>1, <1>5, <2>1, <2>2 DEF TableInv, DoneListed
  <2>4. n \in 1 .. Len(to_remove') /\ to_remove'[n] = table'[l].fd
    BY <1>5, <2>1, <2>2, <2>3
  <2>5. \A j \in Slots' : table'[j].done /\ table'[j].fd = table'[l].fd => j = l
    BY <1>2, <1>3, <2>1 DEF TableInv, DoneListed
  <2> QED BY <2>4, <2>5
<1>10. ListedDone'
  <2> SUFFICES ASSUME NEW n \in 1 .. m - 1
               PROVE  /\ \E j \in Slots' : table'[j].done /\ table'[j].fd = to_remove'[n]
                      /\ \A o \in 1 .. m - 1 : to_remove'[o] = to_remove'[n] => o = n
    BY <1>5 DEF ListedDone
  <2>1. n \in 1 .. m /\ to_remove'[n] = to_remove[n]
    BY <1>5
  <2>2. PICK j \in Slots : table[j].done /\ table[j].fd = to_remove[n]
    BY <2>1 DEF TableInv, ListedDone, m
  <2>3. j # k
    BY <1>1, <1>5, <2>1, <2>2 DEF TableInv, ListedDone, m
  <2>4. \E l \in Slots' : table'[l].done /\ table'[l].fd = to_remove'[n]
    BY <1>2, <1>3, <2>1, <2>2, <2>3
  <2>5. \A o \in 1 .. m - 1 : to_remove'[o] = to_remove'[n] => o = n
    BY <1>5, <2>1 DEF TableInv, ListedDone, m
  <2> QED BY <2>4, <2>5
<1>11. DoneFirst'
  BY <1>2, <1>3 DEF TableInv, DoneFirst
<1>12. CallbacksOwnTheirSockets'
  <2> SUFFICES ASSUME pc # "dead", NEW l \in Slots', Live(table'[l])
               PROVE  /\ Owns(table[l])'
                      /\ \A j \in Slots' :
                            Live(table'[j]) /\ table'[j].fd = table'[l].fd => j = l
    BY <1>6 DEF CallbacksOwnTheirSockets, Slots, Live, Owns
  <2>1. Owns(table[Old(l)])
    BY <1>2 DEF TableInv, CallbacksOwnTheirSockets, Slots
  <2>2. Owns(table[l])'
    BY <1>2, <1>6, <2>1 DEF Owns
  <2>3. ASSUME NEW j \in Slots', Live(table'[j]), table'[j].fd = table'[l].fd
        PROVE  j = l
    <3>1. Old(j) = Old(l)
      BY <1>2, <2>3 DEF TableInv, CallbacksOwnTheirSockets, Slots
    <3> QED BY <1>3, <3>1
  <2> QED BY <2>2, <2>3
<1>13. OnePingPerPeer'
  <2> SUFFICES ASSUME NEW l \in Slots', table'[l].cb = "pong", ~table'[l].done
               PROVE  /\ waiting'[table'[l].arg]
                      /\ \A j \in Slots' :
                            table'[j].cb = "pong" /\ ~table'[j].done
                               /\ table'[j].arg = table'[l].arg => j = l
    BY DEF OnePingPerPeer, Slots
  <2>1. waiting'[table'[l].arg]
    BY <1>2, <1>6 DEF TableInv, OnePingPerPeer, Slots
  <2>2. ASSUME NEW j \in Slots',
               table'[j].cb = "pong", ~table'[j].done, table'[j].arg = table'[l].arg
        PROVE  j = l
    <3>1. Old(j) = Old(l)
      BY <1>2, <2>2 DEF TableInv, OnePingPerPeer, Slots
    <3> QED BY <1>3, <3>1
  <2> QED BY <2>1, <2>2
<1> QED BY <1>7, <1>8, <1>9, <1>10, <1>11, <1>12, <1>13 DEF TableInv

-----------------------------------------------------------------------------
(* The invariant holds at the start. *)
LEMMA InitIInv == Init => IInv
<1> SUFFICES ASSUME Init PROVE IInv
  OBVIOUS
<1> DEFINE e == NewEntry(3, "master", None)
<1>1. /\ e \in TableEntry /\ e.fd = 3 /\ e.cb = "master" /\ ~e.done
      /\ 3 \in Fds /\ 3 # NoFd
  BY LoopConstants DEF NewEntry, TableEntry, Fds, NoFd
<1>2. table = <<e>> /\ Len(table) = 1 /\ table[1] = e /\ table \in Seq(TableEntry) /\ Slots = {1}
  BY <1>1 DEF Init, Slots
<1> HIDE DEF e
<1>3. to_remove = <<>> /\ Len(to_remove) = 0 /\ to_remove \in Seq(Fds)
  BY DEF Init
<1>4. open[3] = Master /\ open \in [Fds -> Socks \cup {None}]
  BY <1>1 DEF Init, Socks
<1>5. TypeOK
  <2>1. Len(table) <= MaxFds
    BY <1>2, LoopConstants
  <2>2. backlog \in Seq(Conns)
    BY DEF Init
  <2>3. /\ conn \in [Conns -> {"new", "queued", "accepted", "closed"}]
        /\ inbox \in [Conns -> {"none", "hello", "request", "push", "reset"}]
        /\ gone \in [Conns -> BOOLEAN]
        /\ waiting \in [Peers -> BOOLEAN]
        /\ reply \in [Peers -> {"idle", "asked", "pong", "bad"}]
    BY DEF Init
  <2> QED BY <1>2, <1>3, <1>4, <2>1, <2>2, <2>3 DEF Init, TypeOK
<1>6. Registered
  BY <1>1, <1>2, EmptySeq DEF Registered, Live
<1>7. DoneListed /\ ListedDone /\ DoneFirst
  BY <1>1, <1>2, <1>3 DEF DoneListed, ListedDone, DoneFirst
<1>8. CallbacksOwnTheirSockets
  BY <1>1, <1>2, <1>4 DEF CallbacksOwnTheirSockets, Owns, Live, Slots
<1>9. OnePingPerPeer
  BY <1>1, <1>2 DEF OnePingPerPeer, Slots
<1>10. TurnInv
  BY <1>3 DEF TurnInv, Init
<1> QED BY <1>5, <1>6, <1>7, <1>8, <1>9, <1>10 DEF IInv, TableInv

(* The entry whose callback runs is alive, and the socket is the one it was registered for. *)
LEMMA DispatchedOwns ==
    ASSUME IInv, pc = "dispatch", i <= Len(table), table[i].ready
    PROVE  /\ i \in Slots /\ i >= 1
           /\ Live(table[i]) /\ Fd \in Fds
           /\ table[i].cb = "master" => i = 1 /\ to_remove = <<>> /\ backlog # <<>>
           /\ table[i].cb = "client" => i # 1 /\ Sock \in Conns
           /\ table[i].cb = "pong" => i # 1 /\ Sock = table[i].arg /\ Sock \in Peers
<1>1. i \in Slots /\ i >= 1
  BY DEF IInv, TurnInv, TypeOK, Slots
<1>2. Live(table[i]) /\ Fd \in Fds /\ (table[i].cb = "master" => backlog # <<>>)
  BY <1>1, EntryTypes DEF IInv, TurnInv, Fd
<1>3. /\ table[i].cb = "master" <=> i = 1
      /\ table[i].cb = "pong" => table[i].arg \in Peers
  BY <1>1 DEF IInv, TableInv, Registered
<1>4. Owns(table[i])
  BY <1>1, <1>2 DEF IInv, TableInv, CallbacksOwnTheirSockets, Slots
<1>5. i = 1 => to_remove = <<>>
  BY DEF IInv, TurnInv
<1> QED BY <1>1, <1>2, <1>3, <1>4, <1>5 DEF Owns, Sock, Fd

(* Without removals scheduled, no entry is done. *)
LEMMA NothingDone ==
    ASSUME TableInv, to_remove = <<>>
    PROVE  \A k \in Slots : ~table[k].done
<1>1. Len(to_remove) = 0
  OBVIOUS
<1> QED BY <1>1 DEF TableInv, DoneListed

(* Callbacks that keep their entry. *)
LEMMA KeptKeeps ==
    ASSUME IInv, pc = "dispatch", i <= Len(table), table[i].ready,
           pc' = "dispatch", i' = i + 1, table' = Kept, backlog' = backlog,
           UNCHANGED <<to_remove, open, waiting>>
    PROVE  TableInv' /\ TurnInv' /\ table' \in Seq(TableEntry) /\ Len(table') = Len(table)
<1>1. i \in Slots /\ i >= 1 /\ i \in Nat
  BY DispatchedOwns DEF IInv, TypeOK
<1>2. SameEntries(table') /\ ~table'[i].ready /\ (\A k \in Slots \ {i} : table'[k] = table[k])
  BY <1>1, KeptEntries DEF IInv
<1>3. TableInv'
  BY <1>2, QuietKeeps DEF IInv
<1>4. Slots' = Slots /\ Len(table') = Len(table) /\ table' \in Seq(TableEntry)
  BY <1>2 DEF SameEntries, Slots
<1>5. TurnInv'
  <2>1. i' >= 1 /\ i' # 1
    BY <1>1
  <2>2. \A k \in Slots : table'[k].ready =>
           Live(table'[k]) /\ (table'[k].cb = "master" => backlog' # <<>>)
    BY <1>2 DEF IInv, TurnInv
  <2>3. \A j, k \in Slots :
           table'[k].done /\ Live(table'[j]) => table'[j].fd # table'[k].fd
    BY <1>2 DEF IInv, TurnInv, SameEntries, Live
  <2> QED BY <1>4, <2>1, <2>2, <2>3 DEF TurnInv
<1> QED BY <1>3, <1>4, <1>5

(* Callbacks whose entry is on its way out. *)
LEMMA RetiredTurn ==
    ASSUME IInv, pc = "dispatch", i <= Len(table), table[i].ready, i # 1, Retired,
           pc' = "dispatch", i' = i + 1, backlog' = backlog,
           open' = open \/ open' = [open EXCEPT ![Fd] = None],
           \/ waiting' = waiting
           \/ table[i].cb = "pong" /\ waiting' = [waiting EXCEPT ![table[i].arg] = FALSE]
    PROVE  /\ TableInv' /\ TurnInv'
           /\ table' \in Seq(TableEntry) /\ Len(table') = Len(table)
           /\ to_remove' \in Seq(Fds)
<1>1. i \in Slots /\ i >= 1 /\ i \in Nat
  BY DispatchedOwns DEF IInv, TypeOK
<1>2. /\ TableInv' /\ to_remove' \in Seq(Fds)
      /\ \A j, k \in Slots' :
            table'[k].done /\ Live(table'[j]) => table'[j].fd # table'[k].fd
  BY <1>1, RetiredKeeps DEF IInv
<1>3. /\ table' \in Seq(TableEntry) /\ Len(table') = Len(table) /\ Slots' = Slots
      /\ ~table'[i].ready
      /\ \A k \in Slots \ {i} : table'[k] = table[k]
  BY <1>1, RetiredEntries DEF IInv, Slots
<1>4. i' >= 1 /\ i' # 1
  BY <1>1
<1>5. \A k \in Slots : table'[k].ready =>
         Live(table'[k]) /\ (table'[k].cb = "master" => backlog' # <<>>)
  BY <1>3 DEF IInv, TurnInv
<1>6. TurnInv'
  BY <1>2, <1>3, <1>4, <1>5 DEF TurnInv
<1> QED BY <1>2, <1>3, <1>6

(* Every step keeps the invariant. *)
LEMMA NextIInv == IInv /\ [Next]_vars => IInv'
<1> SUFFICES ASSUME IInv, [Next]_vars
             PROVE  IInv'
  OBVIOUS
<1> USE DEF loop, net, ping
<1>a. TypeOK /\ TableInv /\ TurnInv /\ SameEntries(table)
  BY DEF IInv, TypeOK, SameEntries
<1>1. CASE Poll
  <2>1. /\ SameEntries(table') /\ Len(table') = Len(table)
        /\ \A k \in Slots : table'[k].ready =>
              table[k].fd # NoFd /\ HasEvent(open[table[k].fd])
    <3>1. \A k \in Slots : table[k] \in TableEntry
      BY <1>a, EntryTypes
    <3>2. /\ Len(table) \in Nat
          /\ \A k \in Slots :
                [table[k] EXCEPT !.ready = /\ table[k].fd # NoFd
                                           /\ HasEvent(open[table[k].fd])] \in TableEntry
      <4>1. \A k \in Slots :
               (table[k].fd # NoFd /\ HasEvent(open[table[k].fd])) \in BOOLEAN
        OBVIOUS
      <4>2. \A k \in Slots, b \in BOOLEAN : [table[k] EXCEPT !.ready = b] \in TableEntry
        BY <3>1 DEF TableEntry
      <4> QED BY <1>a, <4>1, <4>2, LenProperties DEF TypeOK
    <3>3. table' \in Seq(TableEntry)
      BY <1>1, <3>2, SeqDef DEF Poll, Slots
    <3>4. Len(table') = Len(table)
      BY <1>1, <3>2, <3>3, LenProperties DEF Poll
    <3> QED BY <1>1, <3>1, <3>3, <3>4 DEF Poll, SameEntries, Slots, TableEntry
  <2>2. TableInv'
    BY <1>1, <1>a, <2>1, QuietKeeps DEF Poll
  <2>3. \A k \in Slots : ~table[k].done
    BY <1>1, <1>a, NothingDone DEF Poll, TurnInv
  <2>4. \A k \in Slots : table'[k].ready => Live(table'[k])
    BY <2>1, <2>3 DEF SameEntries, Live
  <2>5. \A k \in Slots : table'[k].ready /\ table'[k].cb = "master" => backlog # <<>>
    <3> SUFFICES ASSUME NEW k \in Slots, table'[k].ready, table'[k].cb = "master"
                 PROVE  backlog # <<>>
      OBVIOUS
    <3>1. table[k].cb = "master" /\ Live(table[k])
      BY <2>1, <2>3 DEF SameEntries, Live
    <3>2. open[table[k].fd] = Master
      BY <1>1, <1>a, <3>1 DEF Poll, TableInv, CallbacksOwnTheirSockets, Slots, Owns
    <3> QED BY <2>1, <3>2, LoopConstants DEF HasEvent, Socks
  <2>6. TurnInv'
    <3>1. Slots' = Slots /\ \A k \in Slots : ~table'[k].done
      BY <2>1, <2>3 DEF SameEntries, Slots
    <3>2. /\ pc' = "dispatch" /\ i' = 1 /\ to_remove' = <<>>
          /\ \A k \in Slots : table'[k].ready =>
                Live(table'[k]) /\ (table'[k].cb = "master" => backlog' # <<>>)
      BY <1>1, <1>a, <2>4, <2>5 DEF Poll, TurnInv
    <3> QED BY <3>1, <3>2 DEF TurnInv
  <2> QED BY <1>1, <1>a, <2>1, <2>2, <2>6 DEF Poll, IInv, TypeOK, SameEntries
<1>2. CASE PollFails
  BY <1>2, <1>a, QuietKeeps DEF PollFails, IInv, TypeOK, TurnInv
<1>3. CASE Skip
  <2>1. i + 1 \in Nat /\ i + 1 >= 1 /\ i + 1 # 1
    BY <1>3, <1>a DEF Skip, TypeOK, TurnInv
  <2>2. TableInv'
    BY <1>3, <1>a, QuietKeeps DEF Skip
  <2> QED BY <1>3, <1>a, <2>1, <2>2 DEF Skip, IInv, TypeOK, TurnInv, Slots, Live
<1>4. CASE EndDispatch
  BY <1>4, <1>a, QuietKeeps DEF EndDispatch, IInv, TypeOK, TurnInv
<1>5. CASE Accept
  <2>1. /\ i = 1 /\ i \in Slots /\ to_remove = <<>>
        /\ backlog # <<>> /\ backlog \in Seq(Conns)
    BY <1>5, DispatchedOwns DEF Accept, Dispatched, IInv, TypeOK
  <2>2. /\ Head(backlog) \in Conns /\ Tail(backlog) \in Seq(Conns)
        /\ LowestFree \in Free
    BY <1>5, <2>1, HeadTailProperties, LowestFreeIsFree DEF Accept
  <2>3. SameEntries(Kept) /\ ~Kept[i].ready /\ (\A k \in Slots \ {i} : Kept[k] = table[k])
    BY <1>a, <2>1, KeptEntries
  <2>4. /\ TableInv' /\ table' \in Seq(TableEntry) /\ Len(table') <= MaxFds
        /\ Slots \subseteq Slots'
        /\ \A k \in Slots : table'[k] = Kept[k]
        /\ \A k \in Slots' \ Slots : table'[k] = NewEntry(LowestFree, "client", None)
    <3>1. /\ Opens(LowestFree, "client", None)
          /\ table' = Added(Kept, NewEntry(LowestFree, "client", None))
          /\ to_remove' = to_remove /\ pc # "dead"
          /\ \A p \in Peers : waiting[p] => waiting'[p]
      BY <1>5, <2>2 DEF Accept, Dispatched, Opens
    <3> HIDE DEF loop, net, ping
    <3> QED BY <1>a, <2>2, <2>3, <3>1, AddedKeeps
  <2>5. \A k \in Slots' : ~table'[k].done
    <3>1. \A k \in Slots : ~table[k].done
      BY <1>a, <2>1, NothingDone
    <3> QED BY <2>3, <2>4, <3>1 DEF SameEntries, NewEntry
  <2>6. \A k \in Slots' : table'[k].ready => Live(table'[k]) /\ table'[k].cb # "master"
    <3> SUFFICES ASSUME NEW k \in Slots', table'[k].ready
                 PROVE  Live(table'[k]) /\ table'[k].cb # "master"
      OBVIOUS
    <3>1. k \in Slots /\ k # i /\ table'[k] = table[k]
      BY <2>3, <2>4 DEF NewEntry
    <3> QED BY <1>5, <1>a, <2>1, <3>1
            DEF Accept, Dispatched, TurnInv, TableInv, Registered
  <2>7. TurnInv'
    BY <1>5, <2>1, <2>5, <2>6 DEF Accept, Dispatched, TurnInv
  <2>8. TypeOK'
    <3>1. open' \in [Fds -> Socks \cup {None}]
      BY <1>5, <1>a, <2>2 DEF Accept, TypeOK, Socks
    <3>2. conn' \in [Conns -> {"new", "queued", "accepted", "closed"}]
      BY <1>5, <1>a, <2>2 DEF Accept, TypeOK
    <3> QED BY <1>5, <1>a, <2>1, <2>2, <2>4, <3>1, <3>2 DEF Accept, Dispatched, TypeOK
  <2> QED BY <2>4, <2>7, <2>8 DEF IInv
<1>6. CASE AcceptFails
  <2>1. i = 1 /\ i \in Slots /\ to_remove = <<>>
    BY <1>6, DispatchedOwns DEF AcceptFails, Dispatched
  <2>2. SameEntries(Kept) /\ ~Kept[i].ready /\ (\A k \in Slots \ {i} : Kept[k] = table[k])
    BY <1>a, <2>1, KeptEntries
  <2>3. /\ TableInv' /\ table' \in Seq(TableEntry) /\ Len(table') <= MaxFds
        /\ Slots \subseteq Slots'
        /\ \A k \in Slots : table'[k] = Kept[k]
        /\ \A k \in Slots' \ Slots : table'[k] = NewEntry(NoFd, "client", None)
    BY <1>6, <1>a, <2>2, AddedKeeps DEF AcceptFails, Dispatched, Opens
  <2>4. \A k \in Slots' : ~table'[k].done
    <3>1. \A k \in Slots : ~table[k].done
      BY <1>a, <2>1, NothingDone
    <3> QED BY <2>2, <2>3, <3>1 DEF SameEntries, NewEntry
  <2>5. \A k \in Slots' : table'[k].ready => Live(table'[k]) /\ table'[k].cb # "master"
    <3> SUFFICES ASSUME NEW k \in Slots', table'[k].ready
                 PROVE  Live(table'[k]) /\ table'[k].cb # "master"
      OBVIOUS
    <3>1. k \in Slots /\ k # i /\ table'[k] = table[k]
      BY <2>2, <2>3 DEF NewEntry
    <3> QED BY <1>6, <1>a, <2>1, <3>1
            DEF AcceptFails, Dispatched, TurnInv, TableInv, Registered
  <2>6. TurnInv'
    BY <1>6, <2>1, <2>4, <2>5 DEF AcceptFails, Dispatched, TurnInv
  <2> QED BY <1>6, <1>a, <2>1, <2>3, <2>6 DEF AcceptFails, Dispatched, IInv, TypeOK
<1>7. CASE HandleHello
  <2>1. Sock \in Conns /\ i + 1 \in Nat
    BY <1>7, <1>a, DispatchedOwns DEF HandleHello, Dispatched, TypeOK
  <2>2. TableInv' /\ TurnInv' /\ table' \in Seq(TableEntry) /\ Len(table') = Len(table)
    BY <1>7, KeptKeeps DEF HandleHello, Dispatched
  <2>3. inbox' \in [Conns -> {"none", "hello", "request", "push", "reset"}]
    BY <1>7, <1>a, <2>1 DEF HandleHello, TypeOK
  <2> QED BY <1>7, <1>a, <2>1, <2>2, <2>3 DEF HandleHello, Dispatched, IInv, TypeOK
<1>8. ASSUME Dispatched("client"), CloseClient
      PROVE  IInv'
  <2>1. Sock \in Conns /\ i + 1 \in Nat /\ i # 1 /\ Fd \in Fds
    BY <1>8, <1>a, DispatchedOwns DEF Dispatched, TypeOK
  <2>2. /\ TableInv' /\ TurnInv'
        /\ table' \in Seq(TableEntry) /\ Len(table') = Len(table)
        /\ to_remove' \in Seq(Fds)
    BY <1>8, <2>1, RetiredTurn DEF CloseClient, Dispatched
  <2>3. /\ open' \in [Fds -> Socks \cup {None}]
        /\ conn' \in [Conns -> {"new", "queued", "accepted", "closed"}]
        /\ inbox' \in [Conns -> {"none", "hello", "request", "push", "reset"}]
    BY <1>8, <1>a, <2>1 DEF CloseClient, TypeOK
  <2> QED BY <1>8, <1>a, <2>1, <2>2, <2>3 DEF CloseClient, Dispatched, IInv, TypeOK
<1>9. CASE HandleRequest
  BY <1>8, <1>9 DEF HandleRequest
<1>10. CASE HandleEof
  <2>1. CASE CloseClient
    BY <1>8, <1>10, <2>1 DEF HandleEof
  <2>2. CASE ~CloseClient
    <3>1. /\ Dispatched("client")
          /\ inbox' = [inbox EXCEPT ![Sock] = "reset"]
          /\ table' = Kept
          /\ UNCHANGED <<to_remove, open, backlog, conn, gone, ping>>
      BY <1>10, <2>2 DEF HandleEof
    <3>2. Sock \in Conns /\ i + 1 \in Nat
      BY <1>a, <3>1, DispatchedOwns DEF Dispatched, TypeOK
    <3>3. TableInv' /\ TurnInv' /\ table' \in Seq(TableEntry) /\ Len(table') = Len(table)
      BY <3>1, KeptKeeps DEF Dispatched
    <3>4. inbox' \in [Conns -> {"none", "hello", "request", "push", "reset"}]
      BY <1>a, <3>1, <3>2 DEF TypeOK
    <3> QED BY <1>a, <3>1, <3>2, <3>3, <3>4 DEF Dispatched, IInv, TypeOK
  <2> QED BY <2>1, <2>2
<1>11. ASSUME pc # "dead", Exit
       PROVE  IInv'
  <2>1. TableInv'
    BY <1>11, <1>a, QuietKeeps DEF Exit
  <2> QED BY <1>11, <1>a, <2>1 DEF Exit, IInv, TypeOK, TurnInv
<1>12. CASE HandlerDies
  BY <1>11, <1>12 DEF HandlerDies
<1>13. CASE HandlePong
  <2>1. /\ Sock \in Peers /\ i + 1 \in Nat /\ i # 1 /\ Fd \in Fds
        /\ table[i].cb = "pong" /\ table[i].arg \in Peers
    BY <1>13, <1>a, DispatchedOwns DEF HandlePong, Dispatched, TypeOK
  <2>2. /\ TableInv' /\ TurnInv'
        /\ table' \in Seq(TableEntry) /\ Len(table') = Len(table)
        /\ to_remove' \in Seq(Fds)
    BY <1>13, <2>1, RetiredTurn DEF HandlePong, Dispatched
  <2>3. /\ waiting' \in [Peers -> BOOLEAN]
        /\ reply' \in [Peers -> {"idle", "asked", "pong", "bad"}]
    BY <1>13, <1>a, <2>1 DEF HandlePong, TypeOK
  <2> QED BY <1>13, <1>a, <2>1, <2>2, <2>3 DEF HandlePong, Dispatched, IInv, TypeOK
<1>14. CASE HandleBadPong
  <2>1. Sock \in Peers /\ i + 1 \in Nat /\ i # 1 /\ Fd \in Fds
    BY <1>14, <1>a, DispatchedOwns DEF HandleBadPong, Dispatched, TypeOK
  <2>2. /\ TableInv' /\ TurnInv'
        /\ table' \in Seq(TableEntry) /\ Len(table') = Len(table)
        /\ to_remove' \in Seq(Fds)
    BY <1>14, <2>1, RetiredTurn DEF HandleBadPong, Dispatched
  <2>3. /\ open' \in [Fds -> Socks \cup {None}]
        /\ reply' \in [Peers -> {"idle", "asked", "pong", "bad"}]
    BY <1>14, <1>a, <2>1 DEF HandleBadPong, TypeOK
  <2> QED BY <1>14, <1>a, <2>1, <2>2, <2>3 DEF HandleBadPong, Dispatched, IInv, TypeOK
<1>15. CASE Periodic
  <2>1. TableInv'
    BY <1>15, <1>a, QuietKeeps DEF Periodic
  <2> QED BY <1>15, <1>a, <2>1 DEF Periodic, IInv, TypeOK, TurnInv
<1>16. ASSUME NEW p \in Peers, PingSkips(p)
       PROVE  IInv'
  <2>1. TableInv'
    BY <1>16, <1>a, QuietKeeps DEF PingSkips
  <2> QED BY <1>16, <1>a, <2>1 DEF PingSkips, IInv, TypeOK, TurnInv
<1>17. ASSUME NEW p \in Peers, PingSent(p)
       PROVE  IInv'
  <2>1. LowestFree \in Free /\ LowestFree \in Fds
    BY <1>17, LowestFreeIsFree DEF PingSent, Free
  <2>2. \A q \in Peers : (waiting[q] => waiting'[q]) /\ waiting'[p]
    BY <1>17, <1>a DEF PingSent, TypeOK
  <2>3. TableInv' /\ table' \in Seq(TableEntry) /\ Len(table') <= MaxFds
    BY <1>17, <1>a, <2>1, <2>2, AddedKeeps DEF PingSent, Opens
  <2>4. /\ open' \in [Fds -> Socks \cup {None}]
        /\ waiting' \in [Peers -> BOOLEAN]
        /\ reply' \in [Peers -> {"idle", "asked", "pong", "bad"}]
        /\ todo' \in SUBSET Peers
    BY <1>17, <1>a, <2>1 DEF PingSent, TypeOK, Socks
  <2> QED BY <1>17, <1>a, <2>3, <2>4 DEF PingSent, IInv, TypeOK, TurnInv
<1>18. ASSUME NEW p \in Peers, PingFails(p)
       PROVE  IInv'
  <2>1. /\ \A q \in Peers : waiting[q] => waiting'[q]
        /\ waiting' \in [Peers -> BOOLEAN]
    BY <1>18, <1>a DEF PingFails, TypeOK
  <2>2. TableInv'
    BY <1>18, <1>a, <2>1, QuietKeeps DEF PingFails
  <2> QED BY <1>18, <1>a, <2>1, <2>2 DEF PingFails, IInv, TypeOK, TurnInv
<1>19. CASE EndPings
  <2>1. TableInv'
    BY <1>19, <1>a, QuietKeeps DEF EndPings
  <2> QED BY <1>19, <1>a, <2>1 DEF EndPings, IInv, TypeOK, TurnInv
<1>20. CASE Remove
  BY <1>20, <1>a, RemoveKeeps DEF IInv, TurnInv, Remove
<1>21. CASE EndTurn
  <2>1. TableInv'
    BY <1>21, <1>a, QuietKeeps DEF EndTurn
  <2> QED BY <1>21, <1>a, <2>1 DEF EndTurn, IInv, TypeOK, TurnInv
<1>22. ASSUME NEW c \in Conns, Connect(c)
       PROVE  IInv'
  <2>1. TableInv'
    BY <1>22, <1>a, QuietKeeps DEF Connect
  <2>2. /\ backlog' \in Seq(Conns) /\ backlog' # <<>>
        /\ conn' \in [Conns -> {"new", "queued", "accepted", "closed"}]
    BY <1>22, <1>a, AppendProperties DEF Connect, TypeOK
  <2> QED BY <1>22, <1>a, <2>1, <2>2 DEF Connect, IInv, TypeOK, TurnInv, Slots, Live
<1>23. ASSUME NEW c \in Conns, NEW m \in {"hello", "request", "push"}, Send(c, m)
       PROVE  IInv'
  <2>1. TableInv'
    BY <1>23, <1>a, QuietKeeps DEF Send
  <2>2. inbox' \in [Conns -> {"none", "hello", "request", "push", "reset"}]
    BY <1>23, <1>a DEF Send, TypeOK
  <2> QED BY <1>23, <1>a, <2>1, <2>2 DEF Send, IInv, TypeOK, TurnInv, Slots, Live
<1>24. ASSUME NEW c \in Conns, Close(c)
       PROVE  IInv'
  <2>1. TableInv'
    BY <1>24, <1>a, QuietKeeps DEF Close
  <2> QED BY <1>24, <1>a, <2>1 DEF Close, IInv, TypeOK, TurnInv, Slots, Live
<1>25. ASSUME NEW p \in Peers, NEW r \in {"pong", "bad"}, Answer(p, r)
       PROVE  IInv'
  <2>1. TableInv'
    BY <1>25, <1>a, QuietKeeps DEF Answer
  <2>2. reply' \in [Peers -> {"idle", "asked", "pong", "bad"}]
    BY <1>25, <1>a DEF Answer, TypeOK
  <2> QED BY <1>25, <1>a, <2>1, <2>2 DEF Answer, IInv, TypeOK, TurnInv, Slots, Live
<1>26. CASE Tick
  <2>1. TableInv'
    BY <1>26, <1>a, QuietKeeps DEF Tick
  <2> QED BY <1>26, <1>a, <2>1 DEF Tick, IInv, TypeOK, TurnInv, Slots, Live
<1>27. CASE Sigterm
  BY <1>11, <1>27 DEF Sigterm
<1>28. CASE UNCHANGED vars
  BY <1>28 DEF vars, IInv, TypeOK, TableInv, TurnInv, Registered, DoneListed, ListedDone,
               DoneFirst, CallbacksOwnTheirSockets, OnePingPerPeer, Slots, Live, Owns
<1> QED
  BY <1>1, <1>2, <1>3, <1>4, <1>5, <1>6, <1>7, <1>9, <1>10, <1>12, <1>13, <1>14, <1>15,
     <1>16, <1>17, <1>18, <1>19, <1>20, <1>21, <1>22, <1>23, <1>24, <1>25, <1>26, <1>27, <1>28
     DEF Next, LoopStep, EnvStep

(* No step of the loop, of a client or of a peer breaks the agreement of table and descriptors. *)
THEOREM InductiveInvariant == Spec => []IInv
BY InitIInv, NextIInv, PTL DEF Spec

-----------------------------------------------------------------------------
(* What follows for the loop. *)

(* Every reachable state is well typed; in particular the table keeps within its arrays. *)
THEOREM TypeCorrect == Spec => []TypeOK
<1>1. IInv => TypeOK
  BY DEF IInv
<1> QED BY <1>1, InductiveInvariant, PTL

(* Whatever closes, fails or is reused within a turn, the callback of a live entry finds the *)
(* socket that it was registered for, and no two live entries share a descriptor.            *)
THEOREM DescriptorsAgree == Spec => []CallbacksOwnTheirSockets
<1>1. IInv => CallbacksOwnTheirSockets
  BY DEF IInv, TableInv
<1> QED BY <1>1, InductiveInvariant, PTL

(* The listening socket keeps its entry and stays open. *)
THEOREM NeverStopsListening == Spec => []AlwaysListening
<1>1. IInv => AlwaysListening
  <2> SUFFICES ASSUME IInv, pc # "dead"
               PROVE  open[table[1].fd] = Master /\ table[1].cb = "master"
                      /\ table # <<>> /\ Live(table[1])
    BY DEF AlwaysListening
  <2>1. 1 \in Slots
    BY EmptySeq DEF IInv, TypeOK, TableInv, Registered, Slots
  <2>2. table # <<>> /\ Live(table[1]) /\ table[1].cb = "master"
    BY <2>1 DEF IInv, TableInv, Registered
  <2> QED BY <2>1, <2>2 DEF IInv, TableInv, CallbacksOwnTheirSockets, Slots, Owns
<1> QED BY <1>1, InductiveInvariant, PTL

(* A peer has one ping under way at most, and is marked as long as it is. *)
THEOREM NoSecondPing == Spec => []OnePingPerPeer
<1>1. IInv => OnePingPerPeer
  BY DEF IInv, TableInv
<1> QED BY <1>1, InductiveInvariant, PTL

(* Every scheduled removal has an entry of its own, so that the list never outgrows the table. *)
LEMMA OneEntryPerRemoval == IInv => RemovalListFits
<1> SUFFICES ASSUME IInv
             PROVE  RemovalListFits
  OBVIOUS
<1> DEFINE N == 1 .. Len(to_remove)
           D == {k \in Slots : table[k].done}
           f == [n \in N |-> CHOOSE k \in D : table[k].fd = to_remove[n]]
<1>1. \A n \in N : \E k \in D : table[k].fd = to_remove[n]
  BY DEF IInv, TableInv, ListedDone
<1>2. \A n \in N : f[n] \in D /\ table[f[n]].fd = to_remove[n]
  BY <1>1
<1>3. \A m, n \in N : f[m] = f[n] => m = n
  BY <1>2 DEF IInv, TableInv, ListedDone
<1>4. f \in [N -> D]
  BY <1>2
<1> HIDE DEF f
<1>5. f \in Injection(N, D)
  BY <1>3, <1>4 DEF Injection, IsInjective
<1>6. Len(table) \in Nat /\ Len(to_remove) \in Nat
  BY LenProperties DEF IInv, TypeOK
<1>7. IsFiniteSet(Slots)
  BY <1>6, UpTo DEF Slots
<1>8. IsFiniteSet(D)
  BY <1>7, FS_Subset
<1>9. Cardinality(N) <= Cardinality(D)
  BY <1>5, <1>8, FS_Injection
<1>10. Cardinality(N) = Len(to_remove)
  BY <1>6, UpTo
<1> QED BY <1>9, <1>10 DEF RemovalListFits, Slots

(* A turn schedules no more removals than there is place for, and leaves none behind. *)
THEOREM RemovalIsTidy == Spec => []RemovalTidy
<1>1. IInv => PollSetClean
  BY NothingDone DEF IInv, TurnInv, PollSetClean, Slots
<1> QED BY <1>1, OneEntryPerRemoval, InductiveInvariant, PTL DEF RemovalTidy

(* Whatever the descriptors, a step of the removal takes out an entry that is done. *)
THEOREM RemovalTakesOnlyDone == Spec => RemovalSparesTheLive
<1>1. IInv /\ [Next]_vars =>
         [pc = "remove" => table' \in {table} \cup WithoutOneDone(table)]_vars
  <2> SUFFICES ASSUME IInv, [Next]_vars, pc = "remove", table' # table
               PROVE  table' \in WithoutOneDone(table)
    BY Zenon
  <2>1. CASE Remove
    BY <2>1, FirstIsDone DEF IInv, Remove, WithoutOneDone, Slots
  <2>2. CASE ~Remove
    BY <2>2 DEF Next, LoopStep, EnvStep, Poll, PollFails, Skip, EndDispatch, Accept, AcceptFails,
                HandleHello, HandleRequest, HandleEof, HandlerDies, HandlePong, HandleBadPong,
                Periodic, PingSkips, PingSent, PingFails, EndPings, EndTurn, Dispatched,
                Connect, Send, Close, Answer, Tick, Sigterm, Exit, vars, loop
  <2> QED BY <2>1, <2>2
<1> QED BY <1>1, InductiveInvariant, PTL DEF Spec, RemovalSparesTheLive

(* Once poll has failed for want of room, nothing is dispatched any more, ever. *)
THEOREM DeafStaysDeaf == Spec => DeafForGood
<1> DEFINE Full == pc = "poll" /\ Len(table) > FdLimit
           Deaf == Len(table) > FdLimit /\ pc # "dispatch" /\ to_remove = <<>>
<1>1. IInv /\ Full => Deaf
  BY DEF IInv, TurnInv
<1>2. IInv /\ Deaf /\ [Next]_vars => Deaf'
  <2> SUFFICES ASSUME IInv, Deaf, [Next]_vars
               PROVE  Deaf'
    OBVIOUS
  <2>1. ASSUME NEW p \in Peers, PingSent(p)
        PROVE  Deaf'
    <3>1. LowestFree \in Free
      BY <2>1, LowestFreeIsFree DEF PingSent
    <3>2. NewEntry(LowestFree, "pong", p) \in TableEntry
      BY <3>1 DEF NewEntry, TableEntry, Free
    <3>3. table \in Seq(TableEntry) /\ Len(table) <= MaxFds /\ Len(table) \in Nat
      BY LenProperties DEF IInv, TypeOK
    <3>4. Len(table') = Len(table) \/ Len(table') = Len(table) + 1
      BY <2>1, <3>2, <3>3, AddedEntries DEF PingSent
    <3> QED BY <2>1, <3>3, <3>4, LoopConstants DEF PingSent
  <2>2. ASSUME ~\E p \in Peers : PingSent(p)
        PROVE  Deaf'
    <3>1. Len(table) \in Nat /\ FdLimit \in Nat
      BY LenProperties, LoopConstants DEF IInv, TypeOK
    <3> QED
      BY <2>2, <3>1
         DEF Next, LoopStep, EnvStep, Poll, PollFails, Skip, EndDispatch, Accept, AcceptFails,
                HandleHello, HandleRequest, HandleEof, HandlerDies, HandlePong, HandleBadPong,
                Periodic, PingSkips, PingFails, EndPings, Remove, EndTurn, Dispatched,
                Connect, Send, Close, Answer, Tick, Sigterm, Exit, vars, loop
  <2> QED BY <2>1, <2>2
<1>3. Deaf => pc # "dispatch"
  OBVIOUS
<1> HIDE DEF Full, Deaf
<1>4. Spec => [](Full => [](pc # "dispatch"))
  BY <1>1, <1>2, <1>3, InductiveInvariant, PTL DEF Spec
<1> QED BY <1>4 DEF DeafForGood, Full
=============================================================================
