----------------------------- MODULE DaemonProofs -----------------------------
(***************************************************************************)
(* Proofs about the server: first its life, which ServerLifecycle is       *)
(* about, then the program from main on, which Daemon is about.  What the  *)
(* runs check with three clients and the standard descriptors open is      *)
(* proved for any clients and descriptors, whatever fails and whenever the *)
(* signal comes: where a theorem needs a condition on them, it states it.  *)
(***************************************************************************)
EXTENDS Daemon, SequenceLemmas

-----------------------------------------------------------------------------
(* The life of the server: the inductive invariant *)

Unjoined(c) == thread[c] \in Created \ {"joined"}
Serving == main \notin Exiting /\ Running

\* What main does with the connection it has accepted, and with the item it looks at.
MainHolds ==
  /\ main \in {"check", "listening", "accept"} => socket = NULL
  /\ main \in {"open", "find", "join", "init"} => socket # NULL
  /\ main = "join" => current \in DOMAIN slots /\ slots[current].status = "processed"
  /\ main = "init" =>
       \/ current = Len(slots) + 1
       \/ current \in DOMAIN slots /\ thread[slots[current].thread] = "joined"

\* A connection has no thread until main has found a place for it.
NewHaveNoThread ==
  /\ \A c \in pending : thread[c] = "none" /\ socket # c
  /\ socket # NULL => thread[socket] = "none"

\* An item has a thread that was created, and no other item has it until it is joined.
ItemsHaveThreads ==
  /\ \A k \in DOMAIN slots : thread[slots[k].thread] # "none"
  /\ \A c \in Clients : Unjoined(c) => \E k \in DOMAIN slots : slots[k].thread = c
  /\ \A j, k \in DOMAIN slots : slots[j].thread = slots[k].thread /\ Unjoined(slots[k].thread) => j = k

\* The file is opened before the first thread is created, and closed only in server_exit.
FileBeforeThreads ==
  Serving =>
    /\ file \in {"none", "open"}
    /\ main \in {"find", "join", "init"} \/ (\E c \in Clients : thread[c] # "none") => file = "open"

\* The inductive invariant.
IInv ==
  /\ TypeOK /\ MainHolds /\ NewHaveNoThread /\ ItemsHaveThreads /\ ProcessedIsFinal /\ FileBeforeThreads

\* How far main has come with joining, when no pthread_create fails.
JoinedInOrder ==
  \A k \in DOMAIN slots :
    CASE main = "exit_join" -> thread[slots[k].thread] = "joined" <=> k < current
      [] main = "exited"    -> thread[slots[k].thread] = "joined"
      [] main = "crashed"   -> TRUE
      [] main = "init"      -> thread[slots[k].thread] = "joined" <=> k = current
      [] OTHER              -> thread[slots[k].thread] # "joined"

JoinInv == IInv /\ JoinedInOrder /\ (main = "exit_join" => current > 0)

-----------------------------------------------------------------------------
(* Items and threads *)

Item == [thread : Clients, status : {"unknown", "in_progress", "processed"}]

LEMMA SlotsHaveClients ==
  ASSUME TypeOK
  PROVE  /\ slots \in Seq(Item) /\ DOMAIN slots = 1 .. Len(slots) /\ Len(slots) \in Nat
         /\ \A k \in DOMAIN slots : slots[k] \in Item /\ slots[k].thread \in Clients
  <1>1. slots \in Seq(Item)
    BY DEF TypeOK, Item
  <1>2. \A k \in DOMAIN slots : slots[k] \in Item
    BY <1>1
  <1>3. QED
    BY <1>1, <1>2 DEF Item

LEMMA SlotOfThread ==
  ASSUME TypeOK, ItemsHaveThreads, NEW c \in Clients, Unjoined(c)
  PROVE  /\ SlotOf(c) \in DOMAIN slots /\ slots[SlotOf(c)].thread = c
         /\ \A k \in DOMAIN slots : slots[k].thread = c => k = SlotOf(c)
  <1>1. \E k \in DOMAIN slots : slots[k].thread = c
    BY DEF ItemsHaveThreads
  <1>2. SlotOf(c) \in DOMAIN slots /\ slots[SlotOf(c)].thread = c
    BY <1>1, Zenon DEF SlotOf
  <1>3. QED
    BY <1>2 DEF ItemsHaveThreads

\* A thread changes the status in its own item only.
LEMMA StatusIsSet ==
  ASSUME TypeOK, ItemsHaveThreads, NEW c \in Clients, Unjoined(c),
         NEW status \in {"in_progress", "processed"}, SetStatus(c, status)
  PROVE  /\ slots' \in Seq(Item) /\ Len(slots') = Len(slots)
         /\ \A k \in DOMAIN slots :
              /\ slots'[k].thread = slots[k].thread
              /\ slots'[k].status = IF slots[k].thread = c THEN status ELSE slots[k].status
  <1> DEFINE i == SlotOf(c)
             item == [slots[i] EXCEPT !.status = status]
  <1>1. slots \in Seq(Item) /\ DOMAIN slots = 1 .. Len(slots)
    BY DEF TypeOK, Item
  <1>2. slots' = [slots EXCEPT ![i] = item]
    BY DEF SetStatus
  <1>3. i \in 1 .. Len(slots) /\ slots[i] \in Item
    BY <1>1, SlotOfThread, ElementOfSeq
  <1>4. item \in Item /\ item.thread = slots[i].thread /\ item.status = status
    <2> HIDE DEF i
    <2>1. QED
      BY <1>3 DEF Item
  <1>5. /\ slots' \in Seq(Item) /\ Len(slots') = Len(slots)
        /\ \A k \in DOMAIN slots : slots'[k] = IF k = i THEN item ELSE slots[k]
    <2> HIDE DEF i, item
    <2>1. QED
      BY <1>1, <1>2, <1>3, <1>4, ExceptSeq
  <1>6. QED
    BY <1>4, <1>5, SlotOfThread DEF i

\* A client gets the item that main has found, and the others keep theirs.
LEMMA ClientIsPlaced ==
  ASSUME TypeOK, socket # NULL, current > 0,
         slots' = IF current > Len(slots) THEN Append(slots, NewClient)
                  ELSE [slots EXCEPT ![current] = NewClient]
  PROVE  /\ slots' \in Seq(Item) /\ DOMAIN slots' = DOMAIN slots \cup {current}
         /\ slots'[current].thread = socket /\ slots'[current].status = "unknown"
         /\ \A k \in DOMAIN slots : k # current => slots'[k] = slots[k]
  <1>1. NewClient \in Item /\ NewClient.thread = socket /\ NewClient.status = "unknown"
    BY DEF TypeOK, Item, NewClient
  <1>2. slots \in Seq(Item) /\ current \in 1 .. Len(slots) + 1
    BY DEF TypeOK, Item
  <1> DEFINE new == NewClient
  <1> HIDE DEF new
  <1>3. CASE current > Len(slots)
    <2>1. slots' = Append(slots, new) /\ current = Len(slots) + 1 /\ new \in Item
      BY <1>1, <1>2, <1>3 DEF new
    <2>2. slots' \in Seq(Item) /\ DOMAIN slots' = DOMAIN slots \cup {current} /\ slots'[current] = new
      BY <1>2, <2>1
    <2>3. QED
      BY <1>1, <1>2, <2>1, <2>2 DEF new
  <1>4. CASE current <= Len(slots)
    <2>1. slots' = [slots EXCEPT ![current] = new] /\ current \in DOMAIN slots /\ new \in Item
      BY <1>1, <1>2, <1>4 DEF new
    <2>2. slots' \in Seq(Item) /\ DOMAIN slots' = DOMAIN slots \cup {current} /\ slots'[current] = new
      BY <1>2, <2>1
    <2>3. QED
      BY <1>1, <1>2, <2>1, <2>2 DEF new
  <1>5. QED
    BY <1>2, <1>3, <1>4

\* What a step of a client's thread, and a signal that it handles, leave alone.
GoesOn(c) ==
  /\ Unjoined(c) /\ Unjoined(c)'
  /\ thread[c] \in Finished => thread'[c] \in Finished
  /\ \A d \in Clients \ {c} : thread'[d] = thread[d]
  /\ Len(slots') = Len(slots) /\ DOMAIN slots' = DOMAIN slots
  /\ \A k \in DOMAIN slots :
       /\ slots'[k].thread = slots[k].thread
       /\ slots[k].status = "processed" => slots'[k].status = "processed"
       /\ slots'[k].status = "processed" =>
            slots[k].status = "processed" \/ (slots[k].thread = c /\ thread'[c] \in Finished)
  /\ main' \in {main, "crashed"}
  /\ UNCHANGED << socket, current, file, pending, ticks >>

LEMMA ClientGoesOn ==
  ASSUME TypeOK, ItemsHaveThreads, ProcessedIsFinal, NEW c \in Clients, Client(c) \/ SignalClient(c)
  PROVE  TypeOK' /\ GoesOn(c)
  <1>1. CASE Start(c)
    <2>1. /\ thread[c] = "start" /\ thread' = [thread EXCEPT ![c] = "recv"] /\ SetStatus(c, "in_progress")
          /\ UNCHANGED << main, socket, current, file, mutex, world >>
      BY <1>1 DEF Start, Step
    <2>2. Unjoined(c)
      BY <2>1 DEF Unjoined, Created
    <2>3. /\ slots' \in Seq(Item) /\ Len(slots') = Len(slots)
          /\ \A k \in DOMAIN slots :
               /\ slots'[k].thread = slots[k].thread
               /\ slots'[k].status = IF slots[k].thread = c THEN "in_progress" ELSE slots[k].status
      BY <2>1, <2>2, StatusIsSet
    <2>4. TypeOK'
      BY <2>1, <2>3 DEF TypeOK, world, Created, Item
    <2>5. \A k \in DOMAIN slots : slots[k].status = "processed" => slots[k].thread # c
      BY <2>1 DEF ProcessedIsFinal, Finished
    <2>6. DOMAIN slots' = DOMAIN slots
      BY <2>3 DEF TypeOK
    <2>7. QED
      BY <2>1, <2>2, <2>3, <2>4, <2>5, <2>6 DEF GoesOn, TypeOK, Unjoined, Created, Finished, world
  <1>2. CASE StoreStatus(c)
    <2>1. /\ thread[c] = "storing" /\ thread' = [thread EXCEPT ![c] = "ending"] /\ SetStatus(c, "processed")
          /\ UNCHANGED << main, socket, current, file, mutex, world >>
      BY <1>2 DEF StoreStatus, Step
    <2>2. Unjoined(c)
      BY <2>1 DEF Unjoined, Created
    <2>3. /\ slots' \in Seq(Item) /\ Len(slots') = Len(slots)
          /\ \A k \in DOMAIN slots :
               /\ slots'[k].thread = slots[k].thread
               /\ slots'[k].status = IF slots[k].thread = c THEN "processed" ELSE slots[k].status
      BY <2>1, <2>2, StatusIsSet
    <2>4. TypeOK'
      BY <2>1, <2>3 DEF TypeOK, world, Created, Finished, Item
    <2>5. DOMAIN slots' = DOMAIN slots
      BY <2>3 DEF TypeOK
    <2>6. QED
      BY <2>1, <2>2, <2>3, <2>4, <2>5 DEF GoesOn, TypeOK, Unjoined, Created, Finished, world
  <1>3. ASSUME NEW from \in Created \ {"ended", "joined"}, NEW to \in Created \ {"joined"}, Step(c, from, to),
               from \in Finished => to \in Finished, UNCHANGED slots, mutex' \in Clients \cup {NULL}
        PROVE  TypeOK' /\ GoesOn(c)
    <2>1. TypeOK'
      BY <1>3 DEF Step, TypeOK, world
    <2>2. Unjoined(c) /\ Unjoined(c)' /\ (thread[c] \in Finished => thread'[c] \in Finished)
      BY <1>3 DEF Step, TypeOK, Unjoined, Created, Working, OnFile, Finished
    <2>3. QED
      BY <1>3, <2>1, <2>2 DEF GoesOn, Step, TypeOK, world
  <1>4. CASE Recv(c) \/ EndThread(c) \/ UseFile(c) \/ LeaveFile(c)
    <2>1. mutex' \in Clients \cup {NULL} /\ UNCHANGED slots
      BY <1>4 DEF TypeOK, Recv, EndThread, UseFile, LeaveFile
    <2>2. \E from \in {"recv", "ending", "write", "read", "writing", "reading"},
             to \in {"write", "storing", "ended", "writing", "reading", "read"} :
            Step(c, from, to) /\ (from = "ending" => to = "ended")
      BY <1>4 DEF Recv, EndThread, UseFile, LeaveFile
    <2>3. QED
      BY <1>3, <2>1, <2>2 DEF Created, Working, OnFile, Finished
  <1>5. CASE UseFreedFile(c)
    <2>1. CASE /\ \E from \in {"write", "read"}, to \in {"read", "stuck"} : Step(c, from, to)
               /\ UNCHANGED << slots, mutex >>
      BY <1>3, <2>1 DEF TypeOK, Created, Working, OnFile, Finished
    <2>2. CASE thread[c] \in {"write", "read"} /\ main' = "crashed"
               /\ UNCHANGED << socket, current, slots, thread, file, mutex, world >>
      <3>1. TypeOK'
        BY <2>2 DEF TypeOK, world
      <3>2. QED
        BY <2>2, <3>1 DEF GoesOn, TypeOK, Unjoined, Created, Working, OnFile, Finished, world
    <2>3. QED
      BY <1>5, <2>1, <2>2 DEF UseFreedFile
  <1>6. CASE SignalClient(c)
    <2> DEFINE to == IF thread[c] = "recv" THEN "storing" ELSE thread[c]
    <2>1. /\ thread[c] \in Created \ {"ended", "joined"} /\ thread' = [thread EXCEPT ![c] = to]
          /\ signaled' = TRUE
          /\ UNCHANGED << main, socket, current, slots, pending, file, mutex, ticks >>
      BY <1>6 DEF SignalClient, TypeOK
    <2>2. to \in Created \ {"joined"} /\ (thread[c] \in Finished => to \in Finished)
      BY <2>1 DEF Created, Finished
    <2> HIDE DEF to
    <2>3. TypeOK'
      BY <2>1, <2>2 DEF TypeOK
    <2>4. Unjoined(c) /\ Unjoined(c)' /\ (thread[c] \in Finished => thread'[c] \in Finished)
      BY <2>1, <2>2 DEF TypeOK, Unjoined
    <2>5. QED
      BY <2>1, <2>3, <2>4 DEF GoesOn, TypeOK
  <1>7. QED
    BY <1>1, <1>2, <1>4, <1>5, <1>6 DEF Client

-----------------------------------------------------------------------------
(* The inductive invariant *)

LEMMA InitIInv == Init => IInv
  <1> SUFFICES ASSUME Init
               PROVE  IInv
    OBVIOUS
  <1>1. TypeOK
    <2>1. << >> \in Seq(Item) /\ Len(<< >>) = 0
      BY EmptySeq
    <2>2. slots \in Seq(Item) /\ current \in 0 .. Len(slots) + 1 /\ ticks \in 0 .. MaxTicks
      BY <2>1, LifecycleAssumption DEF Init
    <2>3. QED
      BY <2>2 DEF Init, TypeOK, Item
  <1>2. DOMAIN slots = {}
    BY DEF Init
  <1>3. QED
    BY <1>1, <1>2
    DEF IInv, Init, MainHolds, NewHaveNoThread, ItemsHaveThreads, ProcessedIsFinal, FileBeforeThreads,
        Unjoined, Created, Working, OnFile, Finished

\* A client's thread goes on.
LEMMA ClientKeepsIInv ==
  ASSUME IInv, NEW c \in Clients, Client(c) \/ SignalClient(c)
  PROVE  IInv'
  <1>1. TypeOK' /\ GoesOn(c)
    BY ClientGoesOn DEF IInv
  <1>2. \A d \in Clients :
          /\ thread'[d] = "none" <=> thread[d] = "none"
          /\ thread'[d] = "joined" <=> thread[d] = "joined"
          /\ Unjoined(d)' <=> Unjoined(d)
    <2>1. "none" \notin Created
      BY DEF Created, Working, OnFile, Finished
    <2>2. Unjoined(c) /\ Unjoined(c)' /\ \A d \in Clients \ {c} : thread'[d] = thread[d]
      BY <1>1 DEF GoesOn
    <2>3. QED
      BY <2>1, <2>2 DEF Unjoined
  <1>3. Len(slots') = Len(slots) /\ \A k \in DOMAIN slots : slots[k].thread \in Clients
    BY <1>1, SlotsHaveClients DEF IInv, GoesOn
  <1>4. MainHolds'
    BY <1>1, <1>2, <1>3 DEF IInv, MainHolds, GoesOn
  <1>5. NewHaveNoThread'
    BY <1>1, <1>2, LifecycleAssumption DEF IInv, TypeOK, NewHaveNoThread, GoesOn
  <1>6. ItemsHaveThreads'
    BY <1>1, <1>2, <1>3 DEF IInv, ItemsHaveThreads, GoesOn
  <1>7. ProcessedIsFinal'
    BY <1>1, <1>3 DEF IInv, ProcessedIsFinal, GoesOn
  <1>8. FileBeforeThreads'
    BY <1>1, <1>2 DEF IInv, FileBeforeThreads, GoesOn, Serving, Running
  <1>9. QED
    BY <1>1, <1>4, <1>5, <1>6, <1>7, <1>8 DEF IInv

\* Nothing that concerns the items and their threads changes.
LEMMA ItemsStay ==
  ASSUME IInv, UNCHANGED << thread, slots >>
  PROVE  ItemsHaveThreads' /\ ProcessedIsFinal'
  BY DEF IInv, ItemsHaveThreads, ProcessedIsFinal, Unjoined

\* Main, before it has a connection or in server_exit, or the world: threads and items stay.
LEMMA OthersKeepIInv ==
  ASSUME IInv,
         \/ CheckSignal \/ ListenFails \/ BlockInAccept \/ AcceptFails
         \/ Accept \/ OpenFile \/ OpenFileFails \/ FindProcessed
         \/ CloseFile \/ DestroyFile \/ SignalMain \/ Tick \/ \E c \in Clients : Connect(c)
  PROVE  IInv'
  <1>1. TypeOK /\ MainHolds /\ NewHaveNoThread /\ FileBeforeThreads
    BY DEF IInv
  <1>2. UNCHANGED << thread, slots >>
    BY DEF CheckSignal, ListenFails, BlockInAccept, AcceptFails, Accept, OpenFile, OpenFileFails, FindProcessed,
           CloseFile, DestroyFile, SignalMain, Tick, Connect
  <1>3. ItemsHaveThreads' /\ ProcessedIsFinal'
    BY <1>2, ItemsStay
  <1>4. CASE CheckSignal \/ ListenFails \/ BlockInAccept \/ AcceptFails
    <2>1. TypeOK'
      BY <1>1, <1>4
      DEF TypeOK, CheckSignal, ListenFails, BlockInAccept, AcceptFails, world, Exiting
    <2>2. MainHolds' /\ NewHaveNoThread' /\ FileBeforeThreads'
      BY <1>1, <1>4
      DEF CheckSignal, ListenFails, BlockInAccept, AcceptFails, world,
          MainHolds, NewHaveNoThread, FileBeforeThreads, Serving, Running, Exiting
    <2>3. QED
      BY <1>3, <2>1, <2>2 DEF IInv
  <1>5. CASE Accept
    <2>1. TypeOK'
      BY <1>1, <1>5 DEF TypeOK, Accept
    <2>2. MainHolds' /\ NewHaveNoThread' /\ FileBeforeThreads'
      BY <1>1, <1>5, LifecycleAssumption
      DEF TypeOK, Accept, MainHolds, NewHaveNoThread, FileBeforeThreads, Serving, Running, Exiting
    <2>3. QED
      BY <1>3, <2>1, <2>2 DEF IInv
  <1>6. CASE OpenFile \/ OpenFileFails
    <2>1. TypeOK'
      BY <1>1, <1>6 DEF TypeOK, OpenFile, OpenFileFails, world, Exiting
    <2>2. MainHolds' /\ NewHaveNoThread' /\ FileBeforeThreads'
      BY <1>1, <1>6
      DEF OpenFile, OpenFileFails, world, MainHolds, NewHaveNoThread, FileBeforeThreads, Serving, Running, Exiting
    <2>3. QED
      BY <1>3, <2>1, <2>2 DEF IInv
  <1>7. CASE FindProcessed
    <2>0. Processed # {} => Min(Processed) \in Processed
      <3>1. Processed \in SUBSET Nat
        BY <1>1, SlotsHaveClients DEF Processed
      <3>2. QED
        BY <3>1, MinIsMember
    <2>1. /\ main = "find"
          /\ \/ current' \in Processed /\ main' = "join"
             \/ current' = Len(slots) + 1 /\ main' = "init"
          /\ UNCHANGED << socket, slots, thread, file, mutex, world >>
      BY <1>7, <2>0 DEF FindProcessed
    <2>2. \A k \in Processed : k \in 1 .. Len(slots) /\ slots[k].status = "processed"
      BY <1>1 DEF Processed, TypeOK
    <2>3. current' \in 0 .. Len(slots) + 1
      BY <1>1, <2>1, <2>2, LenProperties DEF TypeOK
    <2>4. TypeOK'
      BY <1>1, <2>1, <2>3 DEF TypeOK, world
    <2>5. MainHolds' /\ NewHaveNoThread' /\ FileBeforeThreads'
      BY <1>1, <2>1, <2>2
      DEF TypeOK, world, MainHolds, NewHaveNoThread, FileBeforeThreads, Serving, Running, Exiting
    <2>6. QED
      BY <1>3, <2>4, <2>5 DEF IInv
  <1>8. CASE CloseFile \/ DestroyFile
    <2>1. TypeOK'
      BY <1>1, <1>8, LenProperties DEF TypeOK, CloseFile, DestroyFile, OnFreedFile, world, Exiting
    <2>2. MainHolds' /\ NewHaveNoThread' /\ FileBeforeThreads'
      BY <1>1, <1>8
      DEF CloseFile, DestroyFile, OnFreedFile, world,
          MainHolds, NewHaveNoThread, FileBeforeThreads, Serving, Running, Exiting
    <2>3. QED
      BY <1>3, <2>1, <2>2 DEF IInv
  <1>9. CASE SignalMain \/ Tick
    <2>1. TypeOK'
      <3>1. CASE SignalMain
        BY <1>1, <3>1 DEF TypeOK, SignalMain, Exiting
      <3>2. CASE Tick
        <4>1. ticks' \in 0 .. MaxTicks
          BY <1>1, <3>2, LifecycleAssumption DEF TypeOK, Tick
        <4>2. main' \in {main, "crashed"} /\ UNCHANGED << socket, current, slots, thread, pending, signaled, file, mutex >>
          BY <3>2 DEF Tick, OnFreedFile
        <4>3. QED
          BY <1>1, <4>1, <4>2 DEF TypeOK
      <3>3. QED
        BY <1>9, <3>1, <3>2
    <2>2. MainHolds' /\ NewHaveNoThread' /\ FileBeforeThreads'
      BY <1>1, <1>9
      DEF SignalMain, Tick, OnFreedFile,
          MainHolds, NewHaveNoThread, FileBeforeThreads, Serving, Running, Exiting
    <2>3. QED
      BY <1>3, <2>1, <2>2 DEF IInv
  <1>10. CASE \E c \in Clients : Connect(c)
    <2>1. TypeOK'
      BY <1>1, <1>10 DEF TypeOK, Connect
    <2>2. MainHolds' /\ NewHaveNoThread' /\ FileBeforeThreads'
      BY <1>1, <1>10
      DEF Connect, MainHolds, NewHaveNoThread, FileBeforeThreads, Serving, Running, Exiting
    <2>3. QED
      BY <1>3, <2>1, <2>2 DEF IInv
  <1>11. QED
    BY <1>4, <1>5, <1>6, <1>7, <1>8, <1>9, <1>10

\* Main joins the thread of an item.
LEMMA JoinKeepsThreads ==
  ASSUME IInv, NEW k \in DOMAIN slots, Join(slots[k].thread), UNCHANGED << slots, socket, pending >>
  PROVE  /\ thread' \in [Clients -> Created \cup {"none"}] /\ thread'[slots[k].thread] = "joined"
         /\ \A c \in Clients : thread'[c] = "none" <=> thread[c] = "none"
         /\ NewHaveNoThread' /\ ItemsHaveThreads' /\ ProcessedIsFinal'
  <1> DEFINE joined == slots[k].thread
  <1>1. joined \in Clients /\ thread[joined] = "ended" /\ thread' = [thread EXCEPT ![joined] = "joined"]
    BY SlotsHaveClients DEF IInv, Join
  <1> HIDE DEF joined
  <1>2. thread \in [Clients -> Created \cup {"none"}] /\ {"ended", "joined"} \subseteq Created
    BY DEF IInv, TypeOK, Created, Finished
  <1>3. thread' \in [Clients -> Created \cup {"none"}] /\ thread'[joined] = "joined"
    BY <1>1, <1>2
  <1>4. \A c \in Clients : thread'[c] = "none" <=> thread[c] = "none"
    BY <1>1, <1>2
  <1>5. \A c \in Clients : /\ Unjoined(c)' => Unjoined(c)
                           /\ thread[c] \in Finished => thread'[c] \in Finished
    BY <1>1, <1>2 DEF Unjoined, Finished
  <1>6. NewHaveNoThread'
    BY <1>4, LifecycleAssumption DEF IInv, TypeOK, NewHaveNoThread
  <1>7. ItemsHaveThreads'
    BY <1>4, <1>5, SlotsHaveClients DEF IInv, ItemsHaveThreads
  <1>8. ProcessedIsFinal'
    BY <1>5, SlotsHaveClients DEF IInv, ProcessedIsFinal
  <1>9. QED
    BY <1>3, <1>4, <1>6, <1>7, <1>8 DEF joined

LEMMA JoinKeepsIInv == IInv /\ (JoinProcessed \/ JoinClients) => IInv'
  <1> SUFFICES ASSUME IInv, JoinProcessed \/ JoinClients
               PROVE  IInv'
    OBVIOUS
  <1>1. CASE JoinProcessed
    <2>1. /\ current \in DOMAIN slots /\ Join(slots[current].thread)
          /\ main = "join" /\ main' = "init"
          /\ UNCHANGED << socket, current, slots, file, mutex, pending, signaled, ticks >>
      BY <1>1 DEF IInv, MainHolds, JoinProcessed, world
    <2>2. /\ thread' \in [Clients -> Created \cup {"none"}] /\ thread'[slots[current].thread] = "joined"
          /\ \A c \in Clients : thread'[c] = "none" <=> thread[c] = "none"
          /\ NewHaveNoThread' /\ ItemsHaveThreads' /\ ProcessedIsFinal'
      BY <2>1, JoinKeepsThreads
    <2>3. TypeOK'
      BY <2>1, <2>2 DEF IInv, TypeOK
    <2>4. MainHolds' /\ FileBeforeThreads'
      BY <2>1, <2>2 DEF IInv, MainHolds, FileBeforeThreads, Serving, Running, Exiting
    <2>5. QED
      BY <2>2, <2>3, <2>4 DEF IInv
  <1>2. CASE /\ main = "exit_join" /\ main' = main
             /\ current \in DOMAIN slots /\ Join(slots[current].thread) /\ current' = current + 1
             /\ UNCHANGED << socket, slots, file, mutex, world >>
    <2>1. /\ thread' \in [Clients -> Created \cup {"none"}]
          /\ NewHaveNoThread' /\ ItemsHaveThreads' /\ ProcessedIsFinal'
      BY <1>2, JoinKeepsThreads DEF world
    <2>2. current' \in 0 .. Len(slots) + 1
      BY <1>2, SlotsHaveClients DEF IInv
    <2>3. TypeOK'
      BY <1>2, <2>1, <2>2 DEF IInv, TypeOK, world
    <2>4. MainHolds' /\ FileBeforeThreads'
      BY <1>2 DEF MainHolds, FileBeforeThreads, Serving, Running, Exiting
    <2>5. QED
      BY <2>1, <2>3, <2>4 DEF IInv
  <1>3. CASE /\ main = "exit_join" /\ main' \in {"exited", "crashed"}
             /\ UNCHANGED << current, thread, socket, slots, file, mutex, world >>
    <2>1. TypeOK' /\ MainHolds' /\ FileBeforeThreads' /\ NewHaveNoThread'
      BY <1>3
      DEF IInv, TypeOK, MainHolds, FileBeforeThreads, NewHaveNoThread, Serving, Running, Exiting, world
    <2>2. QED
      BY <1>3, <2>1, ItemsStay DEF IInv
  <1>4. QED
    BY <1>1, <1>2, <1>3 DEF JoinClients

LEMMA InitClientKeepsIInv == IInv /\ (InitClient \/ InitClientFails) => IInv'
  <1> SUFFICES ASSUME IInv, InitClient \/ InitClientFails
               PROVE  IInv'
    OBVIOUS
  <1>1. /\ TypeOK /\ main = "init" /\ socket # NULL /\ thread[socket] = "none" /\ file = "open"
        /\ current \in 1 .. Len(slots) + 1
        /\ current <= Len(slots) => thread[slots[current].thread] = "joined"
    BY SlotsHaveClients
    DEF IInv, InitClient, InitClientFails, MainHolds, NewHaveNoThread, FileBeforeThreads, Serving, Running, Exiting
  <1>2. socket \in Clients /\ current > 0 /\ DOMAIN slots = 1 .. Len(slots) /\ Len(slots) \in Nat
    BY <1>1, SlotsHaveClients DEF TypeOK
  <1>3. "start" \in Created \ {"joined", "none"} /\ "none" \notin Created
    BY DEF Created, Working, OnFile, Finished
  <1>4. CASE InitClient
    <2>1. /\ slots' \in Seq(Item) /\ DOMAIN slots' = DOMAIN slots \cup {current}
          /\ slots'[current].thread = socket /\ slots'[current].status = "unknown"
          /\ \A k \in DOMAIN slots : k # current => slots'[k] = slots[k]
      BY <1>1, <1>2, <1>4, ClientIsPlaced DEF InitClient
    <2>2. /\ thread' = [thread EXCEPT ![socket] = "start"] /\ socket' = NULL /\ current' = 0 /\ main' = "check"
          /\ UNCHANGED << file, mutex, pending, signaled, ticks >>
      BY <1>4 DEF InitClient, world
    <2>3. /\ thread' \in [Clients -> Created \cup {"none"}] /\ thread'[socket] = "start"
          /\ \A c \in Clients : c # socket => thread'[c] = thread[c]
      BY <1>2, <1>3, <2>2 DEF IInv, TypeOK
    <2>4. TypeOK'
      <3>1. Len(slots') \in Nat
        BY <2>1
      <3>2. QED
        BY <2>1, <2>2, <2>3, <3>1 DEF IInv, TypeOK, Item
    <2>5. MainHolds' /\ FileBeforeThreads'
      BY <1>1, <2>2 DEF IInv, MainHolds, FileBeforeThreads
    <2>6. NewHaveNoThread'
      BY <2>2, <2>3, LifecycleAssumption DEF IInv, TypeOK, NewHaveNoThread
    <2>7. \A k \in DOMAIN slots : slots[k].thread # socket /\ slots[k].thread \in Clients
      BY <1>1, SlotsHaveClients DEF IInv, ItemsHaveThreads
    <2>8. \A k \in DOMAIN slots' :
            \/ k = current
            \/ k \in DOMAIN slots /\ slots'[k] = slots[k] /\ thread'[slots[k].thread] = thread[slots[k].thread]
      BY <2>1, <2>3, <2>7
    <2>9. ItemsHaveThreads'
      <3>1. \A k \in DOMAIN slots' : thread'[slots'[k].thread] # "none"
        BY <1>3, <2>1, <2>3, <2>8 DEF IInv, ItemsHaveThreads
      <3>2. ASSUME NEW c \in Clients, Unjoined(c)'
            PROVE  \E k \in DOMAIN slots' : slots'[k].thread = c
        <4>1. CASE c = socket
          BY <2>1, <4>1
        <4>2. CASE c # socket
          <5>1. PICK k \in DOMAIN slots : slots[k].thread = c
            BY <2>3, <3>2, <4>2 DEF IInv, ItemsHaveThreads, Unjoined
          <5>2. k # current
            BY <1>1, <1>2, <2>3, <3>2, <4>2, <5>1 DEF Unjoined
          <5>3. QED
            BY <2>1, <5>1, <5>2
        <4>3. QED
          BY <4>1, <4>2
      <3>3. ASSUME NEW j \in DOMAIN slots', NEW k \in DOMAIN slots',
                   slots'[j].thread = slots'[k].thread, Unjoined(slots[k].thread)'
            PROVE  j = k
        <4>1. j = current <=> k = current
          BY <2>1, <2>7, <2>8, <3>3
        <4>2. CASE k # current
          BY <2>8, <3>3, <4>1, <4>2 DEF IInv, ItemsHaveThreads, Unjoined
        <4>3. QED
          BY <4>1, <4>2
      <3>4. QED
        BY <3>1, <3>2, <3>3 DEF ItemsHaveThreads
    <2>10. ProcessedIsFinal'
      BY <2>1, <2>8 DEF IInv, ProcessedIsFinal
    <2>11. QED
      BY <2>4, <2>5, <2>6, <2>9, <2>10 DEF IInv
  <1>5. CASE InitClientFails
    <2>1. /\ slots' \in Seq(Item) /\ Len(slots') = Len(slots) /\ DOMAIN slots' = DOMAIN slots
          /\ \A k \in DOMAIN slots :
               slots'[k].thread = slots[k].thread /\ slots'[k].status \in {slots[k].status, "unknown"}
      <3> DEFINE item == [slots[current] EXCEPT !.status = "unknown"]
      <3>1. CASE current <= Len(slots)
        <4>1. slots' = [slots EXCEPT ![current] = item] /\ current \in 1 .. Len(slots) /\ slots[current] \in Item
          BY <1>1, <1>2, <1>5, <3>1, SlotsHaveClients DEF InitClientFails
        <4>2. item \in Item /\ item.thread = slots[current].thread /\ item.status = "unknown"
          BY <4>1 DEF Item
        <4> HIDE DEF item
        <4>3. QED
          BY <1>1, <4>1, <4>2, SlotsHaveClients, ExceptSeq
      <3>2. CASE current > Len(slots)
        BY <1>1, <1>5, <3>2, SlotsHaveClients DEF InitClientFails
      <3>3. QED
        BY <1>1, <1>2, <3>1, <3>2
    <2>2. /\ current' = 0 /\ main' = "exit_close"
          /\ UNCHANGED << socket, thread, file, mutex, pending, signaled, ticks >>
      BY <1>5 DEF InitClientFails, world
    <2>3. TypeOK'
      BY <1>2, <2>1, <2>2 DEF IInv, TypeOK, Item, Exiting
    <2>4. MainHolds' /\ FileBeforeThreads' /\ NewHaveNoThread'
      BY <2>2 DEF IInv, MainHolds, FileBeforeThreads, NewHaveNoThread, Serving, Exiting
    <2>5. ItemsHaveThreads'
      BY <2>1, <2>2 DEF IInv, ItemsHaveThreads, Unjoined
    <2>6. ProcessedIsFinal'
      BY <2>1, <2>2 DEF IInv, ProcessedIsFinal
    <2>7. QED
      BY <2>3, <2>4, <2>5, <2>6 DEF IInv
  <1>6. QED
    BY <1>4, <1>5

LEMMA NextIInv == IInv /\ [Next]_vars => IInv'
  <1> SUFFICES ASSUME IInv, [Next]_vars
               PROVE  IInv'
    OBVIOUS
  <1>1. ASSUME NEW c \in Clients, Client(c) \/ SignalClient(c)
        PROVE  IInv'
    BY <1>1, ClientKeepsIInv
  <1>2. CASE JoinProcessed \/ JoinClients
    BY <1>2, JoinKeepsIInv
  <1>3. CASE InitClient \/ InitClientFails
    BY <1>3, InitClientKeepsIInv
  <1>4. ASSUME \/ CheckSignal \/ ListenFails \/ BlockInAccept \/ AcceptFails
               \/ Accept \/ OpenFile \/ OpenFileFails \/ FindProcessed
               \/ CloseFile \/ DestroyFile \/ SignalMain \/ Tick \/ \E c \in Clients : Connect(c)
        PROVE  IInv'
    BY <1>4, OthersKeepIInv
  <1>5. CASE UNCHANGED vars
    BY <1>5, ItemsStay
    DEF vars, IInv, TypeOK, MainHolds, NewHaveNoThread, FileBeforeThreads, Serving, Running
  <1>6. QED
    BY <1>1, <1>2, <1>3, <1>4, <1>5 DEF Next, Main, World

LEMMA InvariantsFollow == IInv => ThreadsOwnTheirSlots /\ FileOpenWhileServing
  <1> SUFFICES ASSUME IInv
               PROVE  ThreadsOwnTheirSlots /\ FileOpenWhileServing
    OBVIOUS
  <1>1. ASSUME NEW c \in Clients, thread[c] \in Created \ {"joined"}
        PROVE  \E k \in DOMAIN slots : \A j \in DOMAIN slots : slots[j].thread = c <=> j = k
    BY <1>1, SlotOfThread DEF IInv, Unjoined
  <1>2. "none" \notin Working
    BY DEF Working, OnFile
  <1>3. QED
    BY <1>1, <1>2 DEF ThreadsOwnTheirSlots, FileOpenWhileServing, IInv, FileBeforeThreads, Serving

-----------------------------------------------------------------------------
(* Joining *)

LEMMA InitJoinInv == Init => JoinInv
  <1> SUFFICES ASSUME Init
               PROVE  JoinInv
    OBVIOUS
  <1>1. DOMAIN slots = {} /\ main # "exit_join"
    BY DEF Init
  <1>2. QED
    BY <1>1, InitIInv DEF JoinInv, JoinedInOrder

\* A client's thread joins no one.
LEMMA ClientKeepsJoinInv ==
  ASSUME JoinInv, NEW c \in Clients, Client(c) \/ SignalClient(c)
  PROVE  JoinInv'
  <1>1. IInv' /\ GoesOn(c)
    BY ClientKeepsIInv, ClientGoesOn DEF JoinInv, IInv
  <1>2. \A d \in Clients : thread'[d] = "joined" <=> thread[d] = "joined"
    BY <1>1 DEF GoesOn, Unjoined
  <1>3. DOMAIN slots' = DOMAIN slots /\ \A k \in DOMAIN slots : slots'[k].thread = slots[k].thread
    BY <1>1 DEF GoesOn
  <1>4. \A k \in DOMAIN slots : slots[k].thread \in Clients
    BY SlotsHaveClients DEF JoinInv, IInv
  <1>5. current' = current /\ main' \in {main, "crashed"}
    BY <1>1 DEF GoesOn
  <1>6. QED
    BY <1>1, <1>2, <1>3, <1>4, <1>5 DEF JoinInv, JoinedInOrder

LEMMA NextJoinInv ==
  ASSUME "thread" \notin Failures
  PROVE  JoinInv /\ [Next]_vars => JoinInv'
  <1> SUFFICES ASSUME JoinInv, [Next]_vars
               PROVE  JoinedInOrder' /\ (main' = "exit_join" => current' > 0)
    BY NextIInv DEF JoinInv
  <1>1. /\ IInv /\ JoinedInOrder /\ (main = "exit_join" => current > 0)
        /\ DOMAIN slots = 1 .. Len(slots) /\ Len(slots) \in Nat
        /\ current \in 0 .. Len(slots) + 1
        /\ \A k \in DOMAIN slots : slots[k].thread \in Clients
    BY SlotsHaveClients DEF JoinInv, IInv, TypeOK
  <1>2. ASSUME NEW c \in Clients, Client(c) \/ SignalClient(c)
        PROVE  JoinInv'
    BY <1>2, ClientKeepsJoinInv
  <1>3. ASSUME NEW k \in DOMAIN slots, Join(slots[k].thread)
        PROVE  \A j \in DOMAIN slots :
                 thread'[slots[j].thread] = "joined" <=> (j = k \/ thread[slots[j].thread] = "joined")
    <2>1. thread[slots[k].thread] = "ended" /\ thread' = [thread EXCEPT ![slots[k].thread] = "joined"]
      BY <1>3 DEF Join
    <2>2. Unjoined(slots[k].thread)
      BY <2>1 DEF Unjoined, Created, Finished
    <2>3. \A j \in DOMAIN slots : slots[j].thread = slots[k].thread => j = k
      BY <1>1, <2>2 DEF IInv, ItemsHaveThreads
    <2>4. QED
      BY <1>1, <2>1, <2>3 DEF IInv, TypeOK
  <1>4. CASE JoinProcessed
    <2>1. main = "join" /\ main' = "init" /\ current \in DOMAIN slots /\ UNCHANGED << slots, current >>
      BY <1>1, <1>4 DEF JoinProcessed, IInv, MainHolds
    <2>2. QED
      BY <1>1, <1>3, <1>4, <2>1 DEF JoinProcessed, JoinedInOrder
  <1>5. CASE JoinClients
    <2>1. main = "exit_join" /\ UNCHANGED slots
      BY <1>5 DEF JoinClients
    <2>2. \A k \in DOMAIN slots : thread[slots[k].thread] = "joined" <=> k < current
      BY <1>1, <2>1 DEF JoinedInOrder
    <2>3. CASE current \in DOMAIN slots
      <3>1. Join(slots[current].thread) /\ main' = main /\ current' = current + 1
        BY <1>1, <1>5, <2>2, <2>3 DEF JoinClients
      <3>2. QED
        BY <1>1, <1>3, <2>1, <2>2, <2>3, <3>1 DEF JoinedInOrder
    <2>4. CASE current \notin DOMAIN slots
      BY <1>1, <1>5, <2>1, <2>2, <2>4 DEF JoinClients, JoinedInOrder
    <2>5. QED
      BY <2>3, <2>4
  <1>6. CASE InitClient
    <2>1. main = "init" /\ main' = "check" /\ thread' = [thread EXCEPT ![socket] = "start"]
      BY <1>6 DEF InitClient
    <2>2. socket # NULL /\ current > 0
      BY <1>1, <2>1 DEF IInv, MainHolds
    <2>3. /\ DOMAIN slots' = DOMAIN slots \cup {current} /\ slots'[current].thread = socket
          /\ \A k \in DOMAIN slots : k # current => slots'[k] = slots[k]
      BY <1>1, <1>6, <2>2, ClientIsPlaced DEF InitClient, IInv
    <2>4. \A k \in DOMAIN slots' : thread'[slots'[k].thread] # "joined"
      BY <1>1, <2>1, <2>2, <2>3 DEF JoinedInOrder, IInv, TypeOK
    <2>5. QED
      BY <2>1, <2>4 DEF JoinedInOrder
  <1>7. CASE InitClientFails
    BY <1>7 DEF InitClientFails
  <1>8. ASSUME UNCHANGED << thread, slots >>,
               main \notin {"exit_join", "exited", "init", "crashed"},
               main' = "init" => current' = Len(slots) + 1,
               main' = "exit_join" => current' = 1,
               main' # "exited"
        PROVE  JoinedInOrder' /\ (main' = "exit_join" => current' > 0)
    BY <1>1, <1>8 DEF JoinedInOrder
  <1>9. CASE CheckSignal \/ ListenFails \/ BlockInAccept \/ AcceptFails \/ Accept \/ OpenFile \/ OpenFileFails
    BY <1>8, <1>9
    DEF CheckSignal, ListenFails, BlockInAccept, AcceptFails, Accept, OpenFile, OpenFileFails, world
  <1>10. CASE FindProcessed \/ CloseFile \/ DestroyFile
    BY <1>8, <1>10 DEF FindProcessed, CloseFile, DestroyFile, OnFreedFile, world
  <1>11. CASE SignalMain \/ Tick \/ (\E c \in Clients : Connect(c)) \/ UNCHANGED vars
    <2>1. UNCHANGED << thread, slots, current >> /\ (main' \in {main, "crashed"} \/ (main = "accept" /\ main' = "exit_close"))
      BY <1>11 DEF SignalMain, Tick, OnFreedFile, Connect, vars
    <2>2. QED
      BY <1>1, <2>1 DEF JoinedInOrder
  <1>12. QED
    BY <1>2, <1>4, <1>5, <1>6, <1>7, <1>9, <1>10, <1>11 DEF Next, Main, World, JoinInv

LEMMA JoinInvMeansJoined == JoinInv => NoClientLeftBehind
  <1> SUFFICES ASSUME JoinInv, main = "exited", NEW c \in Clients, Unjoined(c)
               PROVE  FALSE
    BY DEF NoClientLeftBehind, JoinInv, IInv, TypeOK, Unjoined
  <1>1. PICK k \in DOMAIN slots : slots[k].thread = c
    BY DEF JoinInv, IInv, ItemsHaveThreads
  <1>2. QED
    BY <1>1 DEF JoinInv, JoinedInOrder, Unjoined

-----------------------------------------------------------------------------
(* Theorems *)

LEMMA Invariance == Spec => []IInv
  BY InitIInv, NextIInv, PTL DEF Spec

\* The variables have their types; the item main looks at is in the list, or after its end.
THEOREM TypeCorrect == Spec => []TypeOK
  <1>1. IInv => TypeOK
    BY DEF IInv
  <1>2. QED
    BY Invariance, <1>1, PTL

\* No item is handed to another client before its thread was joined, and no thread is
\* forgotten, also when pthread_create fails or a signal comes.
THEOREM OneSlotEach == Spec => []ThreadsOwnTheirSlots
  BY Invariance, InvariantsFollow, PTL

\* A status of processed is that of the thread the item has now.
THEOREM StatusIsFinal == Spec => []ProcessedIsFinal
  <1>1. IInv => ProcessedIsFinal
    BY DEF IInv
  <1>2. QED
    BY Invariance, <1>1, PTL

\* Client threads find the file open until server_exit, however many there are and
\* whatever fails.
THEOREM FileIsOpen == Spec => []FileOpenWhileServing
  BY Invariance, InvariantsFollow, PTL

\* If every pthread_create succeeds, the process ends after all its threads.
THEOREM EveryClientJoined ==
  ASSUME "thread" \notin Failures
  PROVE  Spec => []NoClientLeftBehind
  BY InitJoinInv, NextJoinInv, JoinInvMeansJoined, PTL DEF Spec
-----------------------------------------------------------------------------
(* The order of the stages *)

Order == Detaching \o Preparing \o << "serving" >>

StageNames ==
  {"bind", "fork", "setsid", "chdir", "close", "null", "dup2",
   "signals", "timer_create", "timer_settime", "list", "report", "serving", "failed"}

LEMMA DetachingIs ==
  /\ Detaching \in Seq(StageNames) /\ Len(Detaching) = 6
  /\ Detaching[1] = "fork" /\ Detaching[2] = "setsid" /\ Detaching[3] = "chdir"
  /\ Detaching[4] = "close" /\ Detaching[5] = "null" /\ Detaching[6] = "dup2"
  <1>1. Detaching \in Seq(StageNames)
    BY DEF Detaching, StageNames
  <1>2. Len(Detaching) = 6
    BY DEF Detaching
  <1>3. /\ Detaching[1] = "fork" /\ Detaching[2] = "setsid" /\ Detaching[3] = "chdir"
        /\ Detaching[4] = "close" /\ Detaching[5] = "null" /\ Detaching[6] = "dup2"
    BY DEF Detaching
  <1>4. QED
    BY <1>1, <1>2, <1>3

LEMMA PreparingIs ==
  /\ Preparing \in Seq(StageNames) /\ Len(Preparing) = 5
  /\ Preparing[1] = "signals" /\ Preparing[2] = "timer_create" /\ Preparing[3] = "timer_settime"
  /\ Preparing[4] = "list" /\ Preparing[5] = "report"
  <1>1. Preparing \in Seq(StageNames)
    BY DEF Preparing, StageNames
  <1>2. Len(Preparing) = 5
    BY DEF Preparing
  <1>3. /\ Preparing[1] = "signals" /\ Preparing[2] = "timer_create" /\ Preparing[3] = "timer_settime"
        /\ Preparing[4] = "list" /\ Preparing[5] = "report"
    BY DEF Preparing
  <1>4. QED
    BY <1>1, <1>2, <1>3

LEMMA StageSets ==
  /\ ToSet(Detaching) = {"fork", "setsid", "chdir", "close", "null", "dup2"}
  /\ ToSet(Preparing) = {"signals", "timer_create", "timer_settime", "list", "report"}
  <1>1. DOMAIN Detaching = 1 .. 6 /\ DOMAIN Preparing = 1 .. 5
    BY DetachingIs, PreparingIs
  <1>2. ToSet(Detaching) = {"fork", "setsid", "chdir", "close", "null", "dup2"}
    BY <1>1, DetachingIs DEF ToSet
  <1>3. ToSet(Preparing) = {"signals", "timer_create", "timer_settime", "list", "report"}
    BY <1>1, PreparingIs DEF ToSet
  <1>4. QED
    BY <1>2, <1>3

LEMMA OrderIs ==
  /\ DOMAIN Order = 1 .. 12
  /\ Order[1] = "fork" /\ Order[2] = "setsid" /\ Order[3] = "chdir"
  /\ Order[4] = "close" /\ Order[5] = "null" /\ Order[6] = "dup2"
  /\ Order[7] = "signals" /\ Order[8] = "timer_create" /\ Order[9] = "timer_settime"
  /\ Order[10] = "list" /\ Order[11] = "report" /\ Order[12] = "serving"
  <1> DEFINE end == << "serving" >>
             first == Then(Detaching, Preparing)
             both == Then(first, end)
  <1>1. end \in Seq(StageNames) /\ Len(end) = 1 /\ end[1] = "serving"
    BY DEF StageNames
  <1> HIDE DEF end
  <1>2. /\ first \in Seq(StageNames) /\ Len(first) = 11
        /\ \A i \in 1 .. 6 : first[i] = Detaching[i]
        /\ \A i \in 1 .. 5 : first[6 + i] = Preparing[i]
    <2> DEFINE s == Detaching
               t == Preparing
    <2>0. s \in Seq(StageNames) /\ t \in Seq(StageNames)
      BY DetachingIs, PreparingIs
    <2>7. Len(s) = 6 /\ Len(t) = 5
      BY DetachingIs, PreparingIs
    <2> HIDE DEF s, t
    <2>1. Then(s, t) \in Seq(StageNames) /\ Len(Then(s, t)) = Len(s) + Len(t)
      BY <2>0, ThenProperties
    <2>2. \A i \in 1 .. Len(s) : Then(s, t)[i] = s[i]
      BY <2>0, ThenProperties
    <2>3. \A i \in 1 .. Len(t) : Then(s, t)[Len(s) + i] = t[i]
      BY <2>0, ThenProperties
    <2> DEFINE both1 == Then(s, t)
    <2> HIDE DEF both1
    <2>4. both1 \in Seq(StageNames) /\ Len(both1) = 11 /\ \A i \in 1 .. 6 : both1[i] = s[i]
      BY <2>1, <2>2, <2>7 DEF both1
    <2>5. \A i \in 1 .. 5 : both1[6 + i] = t[i]
      BY <2>3, <2>7 DEF both1
    <2>6. QED
      BY <2>4, <2>5 DEF both1, s, t
  <1> HIDE DEF first
  <1>3. /\ both \in Seq(StageNames) /\ Len(both) = 12
        /\ \A i \in 1 .. 11 : both[i] = first[i]
        /\ both[12] = end[1]
    <2>0. first \in Seq(StageNames) /\ end \in Seq(StageNames)
      BY <1>1, <1>2
    <2>1. Then(first, end) \in Seq(StageNames) /\ Len(Then(first, end)) = Len(first) + Len(end)
      BY <2>0, ThenProperties
    <2>2. \A i \in 1 .. Len(first) : Then(first, end)[i] = first[i]
      BY <2>0, ThenProperties
    <2>3. \A i \in 1 .. Len(end) : Then(first, end)[Len(first) + i] = end[i]
      BY <2>0, ThenProperties
    <2> HIDE DEF both
    <2>4. both \in Seq(StageNames) /\ Len(both) = 12 /\ \A i \in 1 .. 11 : both[i] = first[i]
      BY <1>1, <1>2, <2>1, <2>2 DEF both
    <2>5. both[11 + 1] = end[1]
      BY <1>1, <1>2, <2>3 DEF both
    <2>6. QED
      BY <2>4, <2>5
  <1>4. Order = both
    BY DEF Order, first, end, Then
  <1> HIDE DEF both
  <1>5. DOMAIN both = 1 .. 12
    BY <1>3
  <1>6. /\ first[7] = Preparing[1] /\ first[8] = Preparing[2] /\ first[9] = Preparing[3]
        /\ first[10] = Preparing[4] /\ first[11] = Preparing[5]
    <2>1. first[6 + 1] = Preparing[1] /\ first[6 + 2] = Preparing[2] /\ first[6 + 3] = Preparing[3]
      BY <1>2
    <2>2. first[6 + 4] = Preparing[4] /\ first[6 + 5] = Preparing[5]
      BY <1>2
    <2>3. QED
      BY <2>1, <2>2
  <1>7. QED
    BY <1>1, <1>2, <1>3, <1>4, <1>5, <1>6, DetachingIs, PreparingIs

LEMMA NextStage ==
  /\ StageAfter("fork") = "setsid" /\ StageAfter("setsid") = "chdir" /\ StageAfter("chdir") = "close"
  /\ StageAfter("close") = "null" /\ StageAfter("null") = "dup2" /\ StageAfter("dup2") = "signals"
  /\ StageAfter("signals") = "timer_create" /\ StageAfter("timer_create") = "timer_settime"
  /\ StageAfter("timer_settime") = "list" /\ StageAfter("list") = "report"
  /\ StageAfter("report") = "serving"
  <1>1. ASSUME NEW k \in 1 .. 11
        PROVE  StageAfter(Order[k]) = Order[k + 1]
    <2> DEFINE j == CHOOSE i \in DOMAIN Order : Order[i] = Order[k]
    <2>1. StageAfter(Order[k]) = Order[1 + j]
      BY Zenon DEF StageAfter, Order
    <2>2. j \in DOMAIN Order /\ Order[j] = Order[k]
      BY OrderIs
    <2> HIDE DEF j
    <2>3. j = k
      BY <2>2, OrderIs
    <2>4. 1 + j = k + 1
      BY <2>3
    <2>5. QED
      BY <2>1, <2>4
  <1>2. /\ StageAfter(Order[1]) = Order[2] /\ StageAfter(Order[2]) = Order[3] /\ StageAfter(Order[3]) = Order[4]
        /\ StageAfter(Order[4]) = Order[5] /\ StageAfter(Order[5]) = Order[6] /\ StageAfter(Order[6]) = Order[7]
        /\ StageAfter(Order[7]) = Order[8] /\ StageAfter(Order[8]) = Order[9] /\ StageAfter(Order[9]) = Order[10]
        /\ StageAfter(Order[10]) = Order[11] /\ StageAfter(Order[11]) = Order[12]
    BY <1>1
  <1>3. QED
    BY <1>2, OrderIs

-----------------------------------------------------------------------------
(* The inductive invariant *)

Over == {"serving", "failed"}

\* Until the start-up is over, the server has done nothing.
ServerUntouched ==
  stage \notin Over =>
    /\ main \in {"check", "crashed"} /\ slots = << >> /\ pending = {}
    /\ socket = NULL /\ file = "none" /\ \A c \in Clients : thread[c] = "none"

\* A start-up that failed ends the server.
FailedExits == stage = "failed" => main \in Exiting \cup {"crashed"}

StartUpTypeOK ==
  /\ daemon \in BOOLEAN
  /\ stage \in StageNames
  /\ fds \in [Descriptors -> {"closed", "inherited", "socket", "null"}]
  /\ base \in Descriptors \cup {-1}
  /\ code \in {NoStatus, GENERAL_ERROR, CANNOT_CREATE_TIMER}

\* There is a descriptor for the socket, and for /dev/null.
DescriptorsAreLeft ==
  /\ stage = "bind" => fds[3] = "closed"
  /\ stage = "null" => \E d \in Descriptors : fds[d] = "closed"

Reports == {EXIT_SUCCESS, GENERAL_ERROR, CANNOT_CREATE_TIMER}

\* The parent waits while the child starts up, and was told, or killed, when that is over.
ParentWaits ==
  /\ parent \in IF stage \in Over THEN {"none", "informed"} \cup Gone ELSE {"none", "forked", "waiting"}
  /\ parent \in {"informed", "exited"} =>
       told \in Reports /\ IF told = EXIT_SUCCESS THEN stage = "serving" ELSE stage = "failed" /\ told = code
  /\ stray \in BOOLEAN

DaemonIInv ==
  /\ IInv /\ ServerUntouched /\ FailedExits
  /\ StartUpTypeOK /\ DescriptorsAreLeft
  /\ ParentWaits

-----------------------------------------------------------------------------
(* The stages *)

\* The call of a stage succeeds.
Succeeds == Bind \/ Fork \/ Prepare \/ CloseOthers \/ OpenNull \/ RedirectToNull \/ ReportStart

LEMMA StageMoves ==
  ASSUME Succeeds
  PROVE  /\ main = "check" /\ vars' = vars
         /\ stage \notin Over /\ stage' \in StageNames \ {"bind", "failed"}
         /\ stage' = "serving" <=> stage = "report"
         /\ stage' = "null" <=> stage = "close"
         /\ daemon' = daemon /\ code' = code
  <1>1. CASE Bind
    BY <1>1 DEF Bind, Starting, Over, StageNames
  <1>2. CASE Fork
    BY <1>2, NextStage DEF Fork, Starting, Over, StageNames
  <1>3. CASE Prepare
    BY <1>3, NextStage DEF Prepare, Starting, Over, StageNames
  <1>4. CASE CloseOthers
    BY <1>4, NextStage DEF CloseOthers, Starting, Over, StageNames
  <1>5. CASE OpenNull \/ RedirectToNull
    BY <1>5, NextStage DEF OpenNull, RedirectToNull, Starting, Over, StageNames
  <1>6. CASE ReportStart
    BY <1>6, NextStage DEF ReportStart, Starting, Over, StageNames
  <1>7. QED
    BY <1>1, <1>2, <1>3, <1>4, <1>5, <1>6 DEF Succeeds

LEMMA FailureStage ==
  ASSUME DaemonIInv, Fail
  PROVE  /\ main = "check" /\ stage \notin Over /\ stage' = "failed"
         /\ main' \in {"exit_close", "exited"}
         /\ UNCHANGED << socket, current, slots, thread, file, mutex, world, daemon, fds, base >>
         /\ code' = FailureCode /\ FailureCode \in {GENERAL_ERROR, CANNOT_CREATE_TIMER}
         /\ SendExitSignal(FailureCode)
  <1>1. "serving" \notin StartUpFailures /\ "failed" \notin StartUpFailures
    BY DaemonAssumption, StageSets
  <1>2. stage \notin Over
    BY <1>1 DEF Fail, BindFails, Over
  <1>3. QED
    BY <1>2 DEF Fail, Starting, FailureCode

\* What steps do to the server.
LEMMA ServerSteps ==
  ASSUME DaemonIInv, [DaemonNext]_all
  PROVE  [Next]_vars \/ Fail \/ SignalStartUp
  <1>1. CASE Succeeds
    BY <1>1, StageMoves
  <1>2. CASE Parent
    BY <1>2 DEF Parent, Wait, ExitParent
  <1>3. CASE MainServes
    BY <1>3 DEF MainServes, Next
  <1>4. CASE ServedWorld \/ \E c \in Clients : ClientServed(c)
    BY <1>4 DEF ServedWorld, ClientServed, Next
  <1>5. CASE UNCHANGED all
    BY <1>5 DEF all
  <1>6. QED
    BY <1>1, <1>2, <1>3, <1>4, <1>5 DEF DaemonNext, StartUp, Succeeds

\* The server is killed or gives up before it has served anyone.
LEMMA StartUpGivesUp ==
  ASSUME DaemonIInv, Fail \/ SignalStartUp
  PROVE  /\ IInv' /\ slots' = << >>
         /\ main' \in {"check", "exit_close", "exited", "crashed"}
  <1>1. /\ main = "check" /\ stage \notin Over
        /\ UNCHANGED << socket, current, slots, thread, file, mutex, pending, ticks >>
        /\ main' \in {"check", "exit_close", "exited", "crashed"} /\ signaled' \in {signaled, TRUE}
    <2>1. CASE Fail
      BY <2>1, FailureStage DEF world
    <2>2. CASE SignalStartUp
      <3>1. stage \in {"bind", "signals", "fork", "setsid", "chdir", "close", "null", "dup2",
                       "timer_create", "timer_settime", "list", "report"}
        BY <2>2 DEF SignalStartUp, Starting, DaemonIInv, StartUpTypeOK, StageNames, FailedExits, Exiting
      <3>2. QED
        BY <2>2, <3>1 DEF SignalStartUp, Starting, Over
    <2>3. QED
      BY <2>1, <2>2
  <1>2. /\ IInv /\ slots = << >> /\ pending = {} /\ socket = NULL /\ file = "none"
        /\ \A c \in Clients : thread[c] = "none"
    BY <1>1 DEF DaemonIInv, ServerUntouched
  <1>3. TypeOK'
    BY <1>1, <1>2 DEF IInv, TypeOK, Exiting
  <1>4. MainHolds' /\ NewHaveNoThread'
    BY <1>1, <1>2 DEF MainHolds, NewHaveNoThread
  <1>5. slots' = slots /\ thread' = thread
    BY <1>1
  <1>6. ItemsHaveThreads' /\ ProcessedIsFinal'
    BY <1>2, <1>5 DEF IInv, ItemsHaveThreads, ProcessedIsFinal, Unjoined
  <1>7. FileBeforeThreads'
    BY <1>1, <1>2 DEF FileBeforeThreads, Serving
  <1>8. QED
    BY <1>1, <1>2, <1>3, <1>4, <1>5, <1>6, <1>7 DEF IInv

LEMMA ServerKeeps ==
  ASSUME DaemonIInv, [DaemonNext]_all
  PROVE  IInv' /\ ServerUntouched' /\ FailedExits'
  <1>1. IInv'
    <2>1. CASE [Next]_vars
      BY <2>1, NextIInv DEF DaemonIInv
    <2>2. CASE Fail \/ SignalStartUp
      BY <2>2, StartUpGivesUp
    <2>3. QED
      BY <2>1, <2>2, ServerSteps
  <1>2. CASE Succeeds
    <2>1. /\ main' = main /\ slots' = slots /\ pending' = pending /\ socket' = socket /\ file' = file
          /\ thread' = thread /\ stage \notin Over /\ stage' # "failed"
      BY <1>2, StageMoves DEF vars
    <2>2. QED
      BY <1>1, <2>1 DEF DaemonIInv, ServerUntouched, FailedExits
  <1>3. CASE Fail
    BY <1>1, <1>3, FailureStage DEF ServerUntouched, FailedExits, Over, Exiting
  <1>4. CASE SignalStartUp
    <2>1. stage' = stage /\ stage # "failed"
      BY <1>4 DEF SignalStartUp, startUp, Starting, DaemonIInv, FailedExits, Exiting
    <2>2. UNCHANGED << socket, slots, thread, file, pending >> /\ main' \in {main, "crashed"}
      BY <1>4 DEF SignalStartUp
    <2>3. QED
      BY <1>1, <2>1, <2>2 DEF DaemonIInv, ServerUntouched, FailedExits
  <1>5. CASE Parent \/ UNCHANGED all
    <2>1. /\ main' = main /\ slots' = slots /\ pending' = pending /\ socket' = socket /\ file' = file
          /\ thread' = thread /\ stage' = stage
      BY <1>5 DEF Parent, Wait, ExitParent, all, vars, startUp
    <2>2. QED
      BY <1>1, <2>1 DEF DaemonIInv, ServerUntouched, FailedExits
  <1>6. CASE MainServes
    <2>1. stage' = stage /\ (stage = "serving" \/ main \in Exiting) /\ Main
      BY <1>6 DEF MainServes, startUp
    <2>2. stage \in Over
      BY <2>1 DEF DaemonIInv, ServerUntouched, Over, Exiting
    <2>3. ASSUME main \in Exiting
          PROVE  main' \in Exiting \cup {"crashed"}
      <3>1. CloseFile \/ DestroyFile \/ JoinClients
        BY <2>1, <2>3 DEF Main, CheckSignal, ListenFails, BlockInAccept, Accept, OpenFile, OpenFileFails,
                          FindProcessed, JoinProcessed, InitClient, InitClientFails, Exiting
      <3>2. QED
        BY <3>1 DEF CloseFile, DestroyFile, JoinClients, OnFreedFile, Exiting
    <2>4. QED
      BY <1>1, <2>1, <2>2, <2>3 DEF ServerUntouched, FailedExits, Over
  <1>7. CASE ServedWorld \/ \E c \in Clients : ClientServed(c)
    <2>1. stage = "serving" /\ stage' = stage
      BY <1>7 DEF ServedWorld, ClientServed, startUp
    <2>2. QED
      BY <1>1, <2>1 DEF ServerUntouched, FailedExits, Over
  <1>8. QED
    BY <1>2, <1>3, <1>4, <1>5, <1>6, <1>7 DEF DaemonNext, StartUp, Succeeds

\* socket and open return the lowest descriptor that is closed.
LEMMA NextDescriptorIsClosed ==
  ASSUME StartUpTypeOK, NEW d \in Descriptors, fds[d] = "closed"
  PROVE  NextDescriptor \in Descriptors /\ fds[NextDescriptor] = "closed"
  <1> DEFINE closed == {e \in Descriptors : fds[e] = "closed"}
  <1>1. closed \in SUBSET Nat /\ closed # {}
    BY DEF Descriptors
  <1>2. NextDescriptor = Min(closed)
    BY DEF NextDescriptor
  <1>3. Min(closed) \in closed
    <2> HIDE DEF closed
    <2>1. QED
      BY <1>1, MinIsMember
  <1> HIDE DEF NextDescriptor
  <1>4. QED
    BY <1>2, <1>3

LEMMA DescriptorsKeep ==
  ASSUME DaemonIInv, [DaemonNext]_all
  PROVE  StartUpTypeOK' /\ DescriptorsAreLeft'
  <1>0. StartUpTypeOK /\ DescriptorsAreLeft
    BY DEF DaemonIInv
  <1>1. CASE Succeeds
    <2>1. /\ stage \notin Over /\ stage' \in StageNames \ {"bind", "failed"}
          /\ stage' = "null" <=> stage = "close"
          /\ daemon' = daemon /\ code' = code
      BY <1>1, StageMoves
    <2>2. CASE Bind
      <3>1. NextDescriptor \in Descriptors
        <4>1. stage = "bind" /\ 3 \in Descriptors
          BY <2>2 DEF Bind, Starting, Descriptors
        <4>2. fds[3] = "closed"
          BY <1>0, <4>1 DEF DescriptorsAreLeft
        <4>3. QED
          BY <1>0, <4>1, <4>2, NextDescriptorIsClosed
      <3>2. base' = NextDescriptor /\ fds' = [fds EXCEPT ![NextDescriptor] = "socket"] /\ stage = "bind"
        BY <2>2 DEF Bind, Starting
      <3> HIDE DEF NextDescriptor
      <3>3. QED
        BY <1>0, <2>1, <3>1, <3>2 DEF StartUpTypeOK, DescriptorsAreLeft
    <2>3. CASE OpenNull
      <3>1. NextDescriptor \in Descriptors
        <4>1. PICK d \in Descriptors : fds[d] = "closed"
          BY <1>0, <2>3 DEF DescriptorsAreLeft, OpenNull, Starting
        <4>2. QED
          BY <1>0, <4>1, NextDescriptorIsClosed
      <3>2. base' = base /\ fds' = [fds EXCEPT ![NextDescriptor] = "null"] /\ stage = "null"
        BY <2>3 DEF OpenNull, Starting
      <3> HIDE DEF NextDescriptor
      <3>3. QED
        BY <1>0, <2>1, <3>1, <3>2 DEF StartUpTypeOK, DescriptorsAreLeft
    <2>4. CASE CloseOthers
      <3>1. base' = base /\ fds' = [d \in Descriptors |-> IF d = base THEN fds[d] ELSE "closed"]
        BY <2>4 DEF CloseOthers
      <3>2. StartUpTypeOK'
        BY <1>0, <2>1, <3>1 DEF StartUpTypeOK
      <3>3. \E d \in Descriptors : fds'[d] = "closed"
        <4>1. fds'[0] = "closed" \/ fds'[1] = "closed"
          BY <3>1 DEF Descriptors
        <4>2. QED
          BY <4>1 DEF Descriptors
      <3>4. QED
        BY <2>1, <3>2, <3>3 DEF DescriptorsAreLeft
    <2>5. CASE RedirectToNull
      BY <1>0, <2>1, <2>5 DEF RedirectToNull, Starting, StartUpTypeOK, DescriptorsAreLeft
    <2>6. CASE Fork \/ Prepare \/ ReportStart
      <3>1. fds' = fds /\ base' = base /\ stage # "close"
        BY <2>6 DEF Fork, Prepare, ReportStart, Starting
      <3>2. QED
        BY <1>0, <2>1, <3>1 DEF StartUpTypeOK, DescriptorsAreLeft
    <2>7. QED
      BY <1>1, <2>2, <2>3, <2>4, <2>5, <2>6 DEF Succeeds
  <1>2. CASE Fail
    BY <1>0, <1>2, FailureStage DEF StartUpTypeOK, DescriptorsAreLeft, StageNames
  <1>3. CASE SignalStartUp \/ Parent \/ MainServes \/ ServedWorld \/ (\E c \in Clients : ClientServed(c)) \/ UNCHANGED all
    <2>1. UNCHANGED startUp
      BY <1>3 DEF SignalStartUp, Parent, Wait, ExitParent, MainServes, ServedWorld, ClientServed, all
    <2>2. QED
      BY <1>0, <2>1 DEF startUp, StartUpTypeOK, DescriptorsAreLeft
  <1>4. QED
    BY <1>1, <1>2, <1>3 DEF DaemonNext, StartUp, Succeeds

-----------------------------------------------------------------------------
(* The parent *)

\* The signal that ends the start-up.
LEMMA FirstSignal ==
  ASSUME parent \in {"none", "forked", "waiting"}, NEW status, SendExitSignal(status)
  PROVE  /\ parent' \in {"none", "informed", "killed"}
         /\ parent' = "informed" => told' = status
         /\ stray \in BOOLEAN => stray' = stray
  <1>1. CASE parent = "none"
    BY <1>1 DEF SendExitSignal, report
  <1>2. CASE parent \in {"forked", "waiting"}
    <2>1. parent \notin Gone
      BY <1>2 DEF Gone
    <2>2. stray' = (stray \/ parent \in Gone)
      BY <1>2 DEF SendExitSignal
    <2>3. stray \in BOOLEAN => stray' = stray
      BY <2>1, <2>2, Zenon
    <2>4. Receive(status) \/ parent' = "killed"
      BY <1>2 DEF SendExitSignal
    <2>5. QED
      BY <1>2, <2>3, <2>4 DEF Receive
  <1>3. QED
    BY <1>1, <1>2

\* A signal after it.
LEMMA LaterSignal ==
  ASSUME parent \in {"none", "informed"} \cup Gone, NEW status, SendExitSignal(status)
  PROVE  /\ parent' \in {"none", "killed", "exited"}
         /\ parent' = "exited" => parent = "exited"
         /\ told' = told
         /\ stray \in BOOLEAN => stray' \in BOOLEAN
  <1>1. CASE parent = "none"
    BY <1>1 DEF SendExitSignal, report
  <1>2. CASE parent \in {"informed", "exited", "killed"}
    <2>1. stray' = (stray \/ parent \in Gone)
      BY <1>2 DEF SendExitSignal
    <2>2. stray' \in BOOLEAN
      BY <2>1, Zenon
    <2>3. Receive(status) \/ (parent' = "killed" /\ told' = told)
      BY <1>2 DEF SendExitSignal
    <2>4. QED
      BY <1>2, <2>2, <2>3 DEF Receive
  <1>3. QED
    BY <1>1, <1>2 DEF Gone

LEMMA ParentKeeps ==
  ASSUME DaemonIInv, [DaemonNext]_all
  PROVE  ParentWaits'
  <1>0. ParentWaits /\ stage \in StageNames
    BY DEF DaemonIInv, StartUpTypeOK
  <1>1. CASE Bind \/ Prepare \/ CloseOthers \/ OpenNull \/ RedirectToNull
    <2>1. stage \notin Over /\ stage' \in StageNames \ {"bind", "failed"} /\ (stage' = "serving" <=> stage = "report")
      BY <1>1, StageMoves DEF Succeeds
    <2>2. stage # "report" /\ UNCHANGED report
      BY <1>1 DEF Bind, Prepare, CloseOthers, OpenNull, RedirectToNull, Starting
    <2>3. QED
      BY <1>0, <2>1, <2>2 DEF ParentWaits, Over, report
  <1>2. CASE Fork
    <2>1. stage \notin Over /\ stage' \notin Over
      BY <1>2, StageMoves DEF Succeeds, Fork, Starting, Over
    <2>2. parent' = "forked" /\ stray' = stray
      BY <1>2 DEF Fork
    <2>3. QED
      BY <1>0, <2>1, <2>2 DEF ParentWaits
  <1>3. CASE ReportStart
    <2>1. stage \notin Over /\ stage' = "serving" /\ SendExitSignal(EXIT_SUCCESS)
      BY <1>3, StageMoves DEF Succeeds, ReportStart, Starting
    <2>2. parent \in {"none", "forked", "waiting"} /\ stray \in BOOLEAN
      BY <1>0, <2>1 DEF ParentWaits
    <2>3. /\ parent' \in {"none", "informed", "killed"}
          /\ parent' = "informed" => told' = EXIT_SUCCESS
          /\ stray' \in BOOLEAN
      BY <2>1, <2>2, FirstSignal
    <2>4. QED
      BY <2>1, <2>3 DEF ParentWaits, Over, Gone, Reports
  <1>4. CASE Fail
    <2>1. /\ stage \notin Over /\ stage' = "failed" /\ code' = FailureCode
          /\ FailureCode \in {GENERAL_ERROR, CANNOT_CREATE_TIMER} /\ SendExitSignal(FailureCode)
      BY <1>4, FailureStage
    <2>2. parent \in {"none", "forked", "waiting"} /\ stray \in BOOLEAN
      BY <1>0, <2>1 DEF ParentWaits
    <2> DEFINE status == FailureCode
    <2> HIDE DEF status
    <2>3. /\ parent' \in {"none", "informed", "killed"}
          /\ parent' = "informed" => told' = status
          /\ stray' \in BOOLEAN
      BY <2>1, <2>2, FirstSignal DEF status
    <2>4. status \in Reports /\ status # EXIT_SUCCESS /\ code' = status
      BY <2>1 DEF status, Reports, EXIT_SUCCESS, GENERAL_ERROR, CANNOT_CREATE_TIMER
    <2>5. QED
      BY <2>1, <2>3, <2>4 DEF ParentWaits, Over, Gone
  <1>5. CASE SignalStartUp \/ ServedWorld \/ (\E c \in Clients : ClientServed(c)) \/ UNCHANGED all
    <2>1. UNCHANGED << report, startUp >>
      BY <1>5 DEF SignalStartUp, ServedWorld, ClientServed, all
    <2>2. QED
      BY <1>0, <2>1 DEF ParentWaits, report, startUp
  <1>6. CASE Parent
    <2>1. UNCHANGED << told, stray, startUp >>
      BY <1>6 DEF Parent, Wait, ExitParent
    <2>2. CASE Wait
      <3>1. stage \notin Over /\ parent' = "waiting"
        BY <1>0, <2>2 DEF Wait, ParentWaits, Gone
      <3>2. QED
        BY <1>0, <2>1, <3>1 DEF ParentWaits, startUp
    <2>3. CASE ExitParent
      <3>1. stage \in Over /\ parent = "informed" /\ parent' = "exited"
        BY <1>0, <2>3 DEF ExitParent, ParentWaits
      <3>2. QED
        BY <1>0, <2>1, <3>1 DEF ParentWaits, startUp, Gone
    <2>4. QED
      BY <1>6, <2>2, <2>3 DEF Parent
  <1>7. CASE MainServes
    <2>1. UNCHANGED startUp /\ stage \in Over
      BY <1>7 DEF MainServes, DaemonIInv, ServerUntouched, Over, Exiting
    <2>2. SendExitSignal(GENERAL_ERROR) \/ UNCHANGED report
      BY <1>7 DEF MainServes
    <2>3. CASE UNCHANGED report
      BY <1>0, <2>1, <2>3 DEF ParentWaits, report, startUp
    <2>4. CASE SendExitSignal(GENERAL_ERROR)
      <3>1. parent \in {"none", "informed"} \cup Gone /\ stray \in BOOLEAN
        BY <1>0, <2>1 DEF ParentWaits
      <3>2. /\ parent' \in {"none", "killed", "exited"} /\ (parent' = "exited" => parent = "exited")
            /\ told' = told /\ stray' \in BOOLEAN
        BY <2>4, <3>1, LaterSignal
      <3>3. QED
        BY <1>0, <2>1, <3>1, <3>2 DEF ParentWaits, startUp, Gone
    <2>5. QED
      BY <2>2, <2>3, <2>4
  <1>8. QED
    BY <1>1, <1>2, <1>3, <1>4, <1>5, <1>6, <1>7 DEF DaemonNext, StartUp

-----------------------------------------------------------------------------
(* Theorems *)

LEMMA InitDaemonIInv == DaemonInit => DaemonIInv
  <1> SUFFICES ASSUME DaemonInit
               PROVE  DaemonIInv
    OBVIOUS
  <1>1. IInv
    BY InitIInv DEF DaemonInit
  <1>2. ServerUntouched /\ FailedExits
    BY DEF DaemonInit, Init, ServerUntouched, FailedExits
  <1>3. StartUpTypeOK /\ DescriptorsAreLeft
    <2>1. fds \in [Descriptors -> {"closed", "inherited", "socket", "null"}]
      BY DEF DaemonInit
    <2>2. fds[3] = "closed"
      BY DaemonAssumption DEF DaemonInit, Descriptors
    <2>3. QED
      BY <2>1, <2>2 DEF DaemonInit, StartUpTypeOK, DescriptorsAreLeft, StageNames
  <1>4. ParentWaits
    BY DEF DaemonInit, ParentWaits, Over, Gone
  <1>5. QED
    BY <1>1, <1>2, <1>3, <1>4 DEF DaemonIInv

LEMMA NextDaemonIInv == DaemonIInv /\ [DaemonNext]_all => DaemonIInv'
  BY ServerKeeps, DescriptorsKeep, ParentKeeps DEF DaemonIInv

LEMMA DaemonInvariance == DaemonSpec => []DaemonIInv
  BY InitDaemonIInv, NextDaemonIInv, PTL DEF DaemonSpec

\* Every variable keeps its type, whichever stage fails, signals and whatever is open
\* when the program starts: there is always a descriptor for the socket and /dev/null.
THEOREM DaemonTypeCorrect == DaemonSpec => []DaemonTypeOK
  <1>1. ASSUME DaemonIInv
        PROVE  DaemonTypeOK
    <2>1. TypeOK /\ StartUpTypeOK /\ ParentWaits
      BY <1>1 DEF DaemonIInv, IInv
    <2>2. stage \in {"bind", "serving", "failed"} \cup ToSet(Detaching) \cup ToSet(Preparing)
      BY <2>1, StageSets DEF StartUpTypeOK, StageNames
    <2>3. parent \in {"none", "forked", "waiting", "informed"} \cup Gone
      BY <2>1 DEF ParentWaits
    <2>4. QED
      BY <2>1, <2>2, <2>3 DEF DaemonTypeOK, StartUpTypeOK, ParentWaits, Reports
  <1>2. QED
    BY <1>1, DaemonInvariance, PTL

\* The promises of the server hold for the program from main on: a start-up that fails
\* or is killed by a signal breaks none of them.
THEOREM DaemonServes ==
  DaemonSpec => [](ThreadsOwnTheirSlots /\ ProcessedIsFinal /\ FileOpenWhileServing)
  <1>1. DaemonIInv => ThreadsOwnTheirSlots /\ ProcessedIsFinal /\ FileOpenWhileServing
    BY InvariantsFollow DEF DaemonIInv, IInv
  <1>2. QED
    BY <1>1, DaemonInvariance, PTL

\* If every pthread_create succeeds, the program ends after all its threads, a start-up
\* that fails and goes through server_exit included.
THEOREM DaemonJoinsEveryClient ==
  ASSUME "thread" \notin Failures
  PROVE  DaemonSpec => []NoClientLeftBehind
  <1>1. DaemonInit => JoinInv
    BY InitJoinInv DEF DaemonInit
  <1>2. ASSUME DaemonIInv, JoinInv, [DaemonNext]_all
        PROVE  JoinInv'
    <2>1. CASE [Next]_vars
      BY <1>2, <2>1, NextJoinInv
    <2>2. CASE Fail \/ SignalStartUp
      <3>1. IInv' /\ slots' = << >> /\ main' \in {"check", "exit_close", "exited", "crashed"}
        BY <1>2, <2>2, StartUpGivesUp
      <3>2. QED
        BY <3>1 DEF JoinInv, JoinedInOrder
    <2>3. QED
      BY <1>2, <2>1, <2>2, ServerSteps
  <1>3. QED
    BY <1>1, <1>2, DaemonInvariance, JoinInvMeansJoined, PTL DEF DaemonSpec

\* If the server can open its file, no signal goes to the pid of a parent that ended.
LEMMA ParentIsSignalledOnce ==
  ASSUME "open" \notin Failures, DaemonIInv, ~stray, [DaemonNext]_all
  PROVE  ~stray'
  <1>1. CASE ReportStart
    <2>1. stage \notin Over /\ SendExitSignal(EXIT_SUCCESS)
      BY <1>1 DEF ReportStart, Starting, Over
    <2>2. QED
      BY <2>1, FirstSignal DEF DaemonIInv, ParentWaits
  <1>2. CASE Fail
    <2>1. stage \notin Over /\ SendExitSignal(FailureCode)
      BY <1>2, FailureStage
    <2>2. parent \in {"none", "forked", "waiting"} /\ stray \in BOOLEAN
      BY <2>1 DEF DaemonIInv, ParentWaits
    <2> DEFINE status == FailureCode
    <2> HIDE DEF status
    <2>3. SendExitSignal(status)
      BY <2>1 DEF status
    <2>4. stray' = stray
      BY <2>2, <2>3, FirstSignal
    <2>5. QED
      BY <2>4
  <1>3. CASE MainServes
    <2>1. main = "open" /\ main' = "exit_close" => FALSE
      BY <1>3 DEF MainServes, Main, CheckSignal, ListenFails, BlockInAccept, Accept, OpenFile, OpenFileFails,
                  FindProcessed, JoinProcessed, InitClient, InitClientFails, CloseFile, DestroyFile, JoinClients
    <2>2. UNCHANGED report
      BY <1>3, <2>1 DEF MainServes
    <2>3. QED
      BY <2>2 DEF report
  <1>4. CASE \/ Bind \/ Fork \/ Prepare \/ CloseOthers \/ OpenNull \/ RedirectToNull \/ SignalStartUp \/ Parent
             \/ ServedWorld \/ (\E c \in Clients : ClientServed(c)) \/ UNCHANGED all
    <2>1. stray' = stray
      BY <1>4 DEF Bind, Fork, Prepare, CloseOthers, OpenNull, RedirectToNull, SignalStartUp, Parent, Wait,
                  ExitParent, ServedWorld, ClientServed, all, report
    <2>2. QED
      BY <2>1
  <1>5. QED
    BY <1>1, <1>2, <1>3, <1>4 DEF DaemonNext, StartUp

\* If the server can open its file, the parent of a daemon exits with the status of the
\* start-up and is told once, whichever stage fails and however the signal is sent.
THEOREM ParentIsTold ==
  ASSUME "open" \notin Failures
  PROVE  DaemonSpec => []ParentReportsStartUp
  <1>1. DaemonInit => ~stray
    BY DEF DaemonInit
  <1>2. DaemonIInv /\ ~stray /\ [DaemonNext]_all => ~stray'
    BY ParentIsSignalledOnce
  <1>3. DaemonIInv /\ ~stray => ParentReportsStartUp
    BY DEF DaemonIInv, ParentWaits, ParentReportsStartUp
  <1>4. QED
    BY <1>1, <1>2, <1>3, DaemonInvariance, PTL DEF DaemonSpec

\* Where the socket is in a program that was started with 0, 1 and 2 open.
SocketIsLast ==
  /\ stage = "bind" => \A d \in Descriptors : fds[d] = "closed" <=> d = 3
  /\ stage \in {"fork", "setsid", "chdir", "close", "null", "dup2"} => base = 3 /\ fds[3] = "socket"
  /\ stage = "null" => \A d \in 0 .. 2 : fds[d] = "closed"
  /\ daemon /\ stage \in {"signals", "timer_create", "timer_settime", "list", "report", "serving"} =>
       base = 3 /\ fds = [d \in Descriptors |-> IF d = 3 THEN "socket" ELSE "null"]

LEMMA SocketStays ==
  ASSUME DaemonIInv, SocketIsLast, [DaemonNext]_all
  PROVE  SocketIsLast'
  <1>0. StartUpTypeOK /\ 3 \in Descriptors
    BY DEF DaemonIInv, Descriptors
  <1>1. CASE Bind
    <2>1. stage = "bind" /\ base' = NextDescriptor /\ fds' = [fds EXCEPT ![NextDescriptor] = "socket"]
          /\ stage' = (IF daemon THEN "fork" ELSE "signals") /\ daemon' = daemon
      BY <1>1 DEF Bind, Starting
    <2>2. fds[3] = "closed"
      BY <1>0, <2>1 DEF SocketIsLast
    <2>3. NextDescriptor = 3
      BY <1>0, <2>1, <2>2, NextDescriptorIsClosed DEF SocketIsLast
    <2> HIDE DEF NextDescriptor
    <2>4. base' = 3 /\ fds'[3] = "socket"
      BY <1>0, <2>1, <2>3 DEF StartUpTypeOK
    <2>5. QED
      BY <2>1, <2>4 DEF SocketIsLast
  <1>2. CASE Fork \/ Prepare \/ ReportStart
    <2>1. fds' = fds /\ base' = base /\ daemon' = daemon
      BY <1>2 DEF Fork, Prepare, ReportStart
    <2>2. \/ stage \in {"fork", "setsid"} /\ stage' \in {"setsid", "chdir"}
          \/ stage = "chdir" /\ stage' = "close"
          \/ stage \in {"signals", "timer_create", "timer_settime", "list", "report"}
             /\ stage' \in {"timer_create", "timer_settime", "list", "report", "serving"}
      BY <1>2, NextStage DEF Fork, Prepare, ReportStart, Starting
    <2>3. QED
      BY <2>1, <2>2 DEF SocketIsLast
  <1>3. CASE CloseOthers
    <2>1. /\ stage = "close" /\ stage' = "null" /\ base' = base
          /\ fds' = [d \in Descriptors |-> IF d = base THEN fds[d] ELSE "closed"]
      BY <1>3, NextStage DEF CloseOthers, Starting
    <2>2. base = 3 /\ fds[3] = "socket"
      BY <2>1 DEF SocketIsLast
    <2>3. fds'[3] = "socket" /\ \A d \in 0 .. 2 : fds'[d] = "closed"
      BY <2>1, <2>2 DEF Descriptors
    <2>4. QED
      BY <2>1, <2>2, <2>3 DEF SocketIsLast
  <1>4. CASE OpenNull
    <2>1. /\ stage = "null" /\ stage' = "dup2" /\ base' = base
          /\ fds' = [fds EXCEPT ![NextDescriptor] = "null"]
      BY <1>4, NextStage DEF OpenNull, Starting
    <2>2. base = 3 /\ fds[3] = "socket" /\ fds[0] = "closed" /\ 0 \in Descriptors
      BY <2>1 DEF SocketIsLast, Descriptors
    <2>3. fds[NextDescriptor] = "closed"
      BY <1>0, <2>2, NextDescriptorIsClosed
    <2> HIDE DEF NextDescriptor
    <2>4. NextDescriptor # 3
      BY <2>2, <2>3
    <2>5. fds'[3] = "socket"
      BY <1>0, <2>1, <2>2, <2>4 DEF StartUpTypeOK
    <2>6. QED
      BY <2>1, <2>2, <2>5 DEF SocketIsLast
  <1>5. CASE RedirectToNull
    <2>1. /\ stage = "dup2" /\ stage' = "signals" /\ base' = base
          /\ fds' = [d \in Descriptors |-> IF d \in 0 .. 2 THEN "null" ELSE fds[d]]
      BY <1>5, NextStage DEF RedirectToNull, Starting
    <2>2. base = 3 /\ fds[3] = "socket"
      BY <2>1 DEF SocketIsLast
    <2>3. fds' = [d \in Descriptors |-> IF d = 3 THEN "socket" ELSE "null"]
      BY <2>1, <2>2 DEF Descriptors
    <2>4. QED
      BY <2>1, <2>2, <2>3 DEF SocketIsLast
  <1>6. CASE Fail
    BY <1>6, FailureStage DEF SocketIsLast
  <1>7. CASE SignalStartUp \/ Parent \/ MainServes \/ ServedWorld \/ (\E c \in Clients : ClientServed(c)) \/ UNCHANGED all
    <2>1. UNCHANGED startUp
      BY <1>7 DEF SignalStartUp, Parent, Wait, ExitParent, MainServes, ServedWorld, ClientServed, all
    <2>2. QED
      BY <2>1 DEF startUp, SocketIsLast
  <1>8. QED
    BY <1>1, <1>2, <1>3, <1>4, <1>5, <1>6, <1>7 DEF DaemonNext, StartUp

\* A daemon that was started with its standard descriptors open serves with its socket,
\* and /dev/null for each of those: neither the closing nor dup2 hits the socket.
THEOREM SocketIsKept ==
  ASSUME Inherited = 0 .. 2
  PROVE  DaemonSpec => []KeepsSocketOnly
  <1>1. DaemonInit => SocketIsLast
    BY DEF DaemonInit, SocketIsLast, Descriptors
  <1>2. DaemonIInv /\ SocketIsLast /\ [DaemonNext]_all => SocketIsLast'
    BY SocketStays
  <1>3. SocketIsLast => KeepsSocketOnly
    BY DEF SocketIsLast, KeepsSocketOnly
  <1>4. QED
    BY <1>1, <1>2, <1>3, DaemonInvariance, PTL DEF DaemonSpec
=============================================================================
