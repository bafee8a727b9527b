----------------------------- MODULE LinkedList -----------------------------
(***************************************************************************)
(* server/list.c: a doubly linked list of items, each of which holds its   *)
(* value in a union of eight bytes or in a block of its own.               *)
(*                                                                         *)
(* The list has no lock: its calls are one step each, and the program that *)
(* uses it makes them one at a time.  It passes items of this list, or     *)
(* items it has created and not inserted yet.  Calls that return an error  *)
(* before they have changed anything are left out: those without memory    *)
(* for the item, and those refused for their arguments, but for the        *)
(* functions that add an item first and then look at its value.            *)
(*                                                                         *)
(* Functions of list.c call each other; here they are operators from the   *)
(* memory they find to the memory they leave, and an action is a call from *)
(* outside.                                                                *)
(***************************************************************************)
EXTENDS Integers, FiniteSets, SequencesExt

CONSTANTS
  Blocks,     \* addresses calloc can return
  NULL,       \* the null pointer
  Values,     \* what is stored: records with the type it is stored as, and what it is
  Large,      \* those that do not fit in the union: long strings and large structs
  Unset,      \* the union of an item that was never set
  Failing,    \* what may fail: to push a "string" or a "struct", for want of memory or for
              \* its arguments; to "construct" a struct for list_emplace_back, or to
              \* "reconstruct" it in an item, in list_item_emplace_struct
  Overwrites, \* whether items that hold a block are set again, or deleted on their own
  SignedChar  \* whether the compiler's char is signed

ASSUME ListAssumption ==
  /\ IsFiniteSet(Blocks)
  /\ NULL \notin Blocks \cup [first : Blocks \cup {NULL}, last : Blocks \cup {NULL}, size : Nat]
  /\ Unset \notin Values /\ Blocks \cap (Values \cup {Unset}) = {}
  /\ \A value \in Values : value.type \in {"byte", "digit", "pointer", "string", "struct"}
  /\ Large \subseteq {value \in Values : value.type \in {"string", "struct"}}
  /\ Failing \subseteq {"string", "struct", "construct", "reconstruct"}
  /\ Overwrites \in BOOLEAN /\ SignedChar \in BOOLEAN

VARIABLES
  block,  \* what is at each address
  list,   \* the list_t, or NULL
  held,   \* the items that were created on their own and are in no list
  failed  \* whether the last call has returned an error

vars == << block, list, held, failed >>

Free == [kind |-> "free"]
Payload(value) == [kind |-> "payload", bytes |-> value]

\* list_item_struct, as calloc leaves it.  The data of an item is a value, or the
\* address of the block with the value: with the type, that is the internal type.
NewItem == [kind |-> "item", next |-> NULL, prev |-> NULL, type |-> "unknown", data |-> Unset]

EmptyList == [first |-> NULL, last |-> NULL, size |-> 0]

Memory == [block |-> block, list |-> list]

FreeBlocks == {a \in Blocks : block[a] = Free}
Items == {a \in Blocks : block[a].kind = "item"}
Listed == Items \ held

OwnsBlock(item) == item.data \in Blocks

Pointer == Blocks \cup {NULL}

Init ==
  /\ block = [a \in Blocks |-> Free]
  /\ list = NULL
  /\ held = {}
  /\ failed = FALSE

-----------------------------------------------------------------------------
(* The functions of list.c on a memory m *)

\* add_list_item, with the new item at a
AddItem(m, a) ==
  LET last == m.list.last
  IN  IF m.list.first = NULL
      THEN [block |-> [m.block EXCEPT ![a] = NewItem],
            list  |-> [first |-> a, last |-> a, size |-> 1]]
      ELSE [block |-> [m.block EXCEPT ![a] = [NewItem EXCEPT !.prev = last], ![last].next = a],
            list  |-> [m.list EXCEPT !.last = a, !.size = @ + 1]]

\* list_item_set_* and list_item_emplace_struct, with the block at b for a large value.
\* What the item held before is forgotten.
SetItem(m, a, value, b) ==
  IF value \in Large
  THEN [m EXCEPT !.block[b] = Payload(value),
                 !.block[a].type = value.type, !.block[a].data = b]
  ELSE [m EXCEPT !.block[a].type = value.type, !.block[a].data = value]

\* Mutant: the neighbour before keeps its pointer.
UnlinkedBehind(m, item) ==
  IF item.next = NULL THEN m.block ELSE [m.block EXCEPT ![item.next].prev = item.prev]

\* The blocks once item is taken out of its neighbours' pointers.
Unlinked(m, item) ==
  LET behind == IF item.next = NULL THEN m.block
                ELSE [m.block EXCEPT ![item.next].prev = item.prev]
  IN  IF item.prev = NULL THEN behind ELSE [behind EXCEPT ![item.prev].next = item.next]

\* Mutant: an item leaves its block behind.
FreedAlone(a, item) == {a}

\* What is freed with the item at a.
FreedWith(a, item) == {a} \cup ({item.data} \cap Blocks)

\* first, last and size without the item at a
EndsWithout(ends, a, item) ==
  LET size == ends.size - 1
  IN  CASE a = ends.first ->
             [first |-> item.next, last |-> IF size < 2 THEN item.next ELSE ends.last, size |-> size]
        [] a # ends.first /\ a = ends.last ->
             [first |-> IF size < 2 THEN item.prev ELSE ends.first, last |-> item.prev, size |-> size]
        [] OTHER -> [ends EXCEPT !.size = size]

\* list_remove_item
RemoveItem(m, a) ==
  LET item == m.block[a]
      kept == Unlinked(m, item)
  IN  [block |-> [b \in Blocks |-> IF b \in FreedWith(a, item) THEN Free ELSE kept[b]],
       list  |-> EndsWithout(m.list, a, item)]

\* list_clear: from the last item on, as long as there is a previous one.
ClearItems(m) ==
  LET at[k \in 0 .. Cardinality(Blocks)] ==
        IF k = 0 THEN [memory |-> m, iterator |-> m.list.last]
        ELSE LET before == at[k - 1]
             IN  IF before.iterator = NULL THEN before
                 ELSE [memory   |-> RemoveItem(before.memory, before.iterator),
                       iterator |-> before.memory.block[before.iterator].prev]
  IN  at[Cardinality(Blocks)].memory

\* Mutant: the item goes behind position.
InsertItemAfter(m, position, a) ==
  IF position = NULL
  THEN [block |-> m.block, list |-> [first |-> a, last |-> a, size |-> 1]]
  ELSE LET next   == m.block[position].next
           linked == [m.block EXCEPT ![a].prev = position, ![a].next = next, ![position].next = a]
       IN  [block |-> IF next = NULL THEN linked ELSE [linked EXCEPT ![next].prev = a],
            list  |-> [m.list EXCEPT !.last = IF @ = position THEN a ELSE @, !.size = @ + 1]]

\* list_insert: position is NULL only for an empty list.
InsertItem(m, position, a) ==
  LET prev   == IF position = NULL THEN NULL ELSE m.block[position].prev
      behind == IF prev = NULL THEN m.block ELSE [m.block EXCEPT ![prev].next = a]
  IN  [block |-> IF position = NULL THEN m.block
                 ELSE [behind EXCEPT ![a].prev = prev, ![a].next = position, ![position].prev = a],
       list  |-> [first |-> IF position = m.list.first THEN a ELSE m.list.first,
                  last  |-> IF position = m.list.first /\ m.list.size = 0 THEN a ELSE m.list.last,
                  size  |-> m.list.size + 1]]

-----------------------------------------------------------------------------
(* The calls *)

Become(m) == block' = m.block /\ list' = m.list

Succeeds == failed' = FALSE
Fails == failed' = TRUE

\* list_create
Create ==
  /\ list = NULL
  /\ list' = EmptyList
  /\ UNCHANGED << block, held >> /\ Succeeds

\* list_clear
Clear ==
  /\ list # NULL
  /\ Become(ClearItems(Memory))
  /\ UNCHANGED held /\ Succeeds

\* list_delete
Delete ==
  /\ list # NULL
  /\ block' = ClearItems(Memory).block
  /\ list' = NULL
  /\ UNCHANGED held /\ Succeeds

\* Where calloc may put the block of a value, and NULL for a value that needs none.
Places(value, taken) == IF value \in Large THEN FreeBlocks \ taken ELSE {NULL}

\* list_push_back_* and list_emplace_back
PushBack(value) ==
  /\ list # NULL
  /\ \E a \in FreeBlocks : \E b \in Places(value, {a}) :
       Become(SetItem(AddItem(Memory, a), a, value, b))
  /\ UNCHANGED held /\ Succeeds

\* The value is refused, or its block cannot be allocated.  Only list_push_back_string
\* does not remove the item it has added.
PushBackFails(value) ==
  /\ list # NULL
  /\ value.type \in Failing
  /\ \E a \in FreeBlocks :
       LET added == AddItem(Memory, a)
       IN  Become(IF value.type = "string" THEN added ELSE RemoveItem(added, a))
  /\ UNCHANGED held /\ Fails

\* The constructor that list_emplace_back calls fails, on a value that is in place.
ConstructorFails(value) ==
  /\ "construct" \in Failing
  /\ list # NULL
  /\ value.type = "struct"
  /\ \E a \in FreeBlocks : \E b \in Places(value, {a}) :
       Become(RemoveItem(SetItem(AddItem(Memory, a), a, value, b), a))
  /\ UNCHANGED held /\ Fails

\* list_item_create
CreateItem ==
  /\ \E a \in FreeBlocks : block' = [block EXCEPT ![a] = NewItem] /\ held' = held \cup {a}
  /\ UNCHANGED list /\ Succeeds

\* list_item_delete frees the item, and not the block it may own.
DeleteItem(a) ==
  /\ a \in held
  /\ OwnsBlock(block[a]) => Overwrites
  /\ block' = [block EXCEPT ![a] = Free]
  /\ held' = held \ {a}
  /\ UNCHANGED list /\ Succeeds

\* list_item_set_* and list_item_emplace_struct, which sets the item before it calls the
\* constructor, whose error it returns
Set(a, value) ==
  /\ a \in Items
  /\ OwnsBlock(block[a]) => Overwrites
  /\ \E b \in Places(value, {}) : Become(SetItem(Memory, a, value, b))
  /\ failed' \in {FALSE, value.type = "struct" /\ "reconstruct" \in Failing}
  /\ UNCHANGED held

\* list_insert
Insert(position, a) ==
  /\ list # NULL
  /\ a \in held
  /\ IF list.size = 0 THEN position = NULL ELSE position \in Listed
  /\ Become(InsertItem(Memory, position, a))
  /\ held' = held \ {a}
  /\ Succeeds

\* list_remove_item
RemoveListed(a) ==
  /\ list # NULL
  /\ a \in Listed
  /\ Become(RemoveItem(Memory, a))
  /\ UNCHANGED held /\ Succeeds

-----------------------------------------------------------------------------

Next ==
  \/ Create \/ Clear \/ Delete \/ CreateItem
  \/ \E value \in Values : PushBack(value) \/ PushBackFails(value) \/ ConstructorFails(value)
  \/ \E a \in Blocks :
       \/ DeleteItem(a) \/ RemoveListed(a)
       \/ \E value \in Values : Set(a, value)
       \/ \E position \in Pointer : Insert(position, a)

Spec == Init /\ [][Next]_vars

-----------------------------------------------------------------------------
(* What callers see *)

\* list_get_next
NextOf(a) == IF a # NULL /\ block[a].kind = "item" THEN block[a].next ELSE NULL

\* list_begin and then list_get_next, as list_for_each and list_find_if go
Iterator[k \in 1 .. Cardinality(Blocks)] ==
  IF k = 1 THEN list.first ELSE NextOf(Iterator[k - 1])

\* The items an iteration visits.
Visited ==
  IF list = NULL THEN << >>
  ELSE Restrict(Iterator, {k \in DOMAIN Iterator : Iterator[k] # NULL})

\* The digit is read through the member byte of the union, a char.
LowByte(digit) == IF SignedChar THEN ((digit + 128) % 256) - 128 ELSE digit % 256

\* list_item_get_*, for the type the item says it has
Get(a) ==
  LET item == block[a]
  IN  CASE item.type = "unknown" -> Unset
        [] item.type = "digit"   -> [item.data EXCEPT !.of = LowByte(@)]
        [] OTHER -> IF OwnsBlock(item) THEN block[item.data].bytes ELSE item.data

-----------------------------------------------------------------------------
(* Properties *)

\* Whatever is pushed, inserted and removed, at either end or between two items: an
\* iteration visits every item of the list once and comes to an end, size counts them,
\* and last and the prev pointers, on which list_clear and list_end depend, lead the
\* same way back.
LinksAgree ==
  LET order == Visited
      size  == Len(order)
  IN  /\ ToSet(order) = Listed /\ IsInjective(order)
      /\ list # NULL =>
           list = [first |-> IF size = 0 THEN NULL ELSE order[1],
                   last  |-> IF size = 0 THEN NULL ELSE order[size],
                   size  |-> size]
      /\ \A k \in 1 .. size : block[order[k]].prev = IF k = 1 THEN NULL ELSE order[k - 1]

\* A value that does not fit into an item is in a block of the item's own, which exists
\* as long as the item: no block belongs to two items or to one that was freed, and, as
\* long as callers do not set or delete items that own one, none is forgotten, by
\* removing, clearing or a call that fails.
BlocksHaveOneOwner ==
  /\ \A a \in Items : block[a].data \notin Large /\ (OwnsBlock(block[a]) => block[block[a].data].kind = "payload")
  /\ \A b \in Blocks : block[b].kind = "payload" => Cardinality({a \in Items : block[a].data = b}) = 1

\* The values in the order of an iteration: the refinement mapping to ItemSequence.
Contents == LET order == Visited IN [k \in DOMAIN order |-> Get(order[k])]

Promised == INSTANCE ItemSequence WITH items <- Contents

\* To the program that uses it, the list is a sequence of the values it has stored, each
\* read back as it was stored, and a call that returns an error has not changed it: with
\* Failing as in the run, list_push_back_string and list_item_emplace_struct always succeed.
ImplementsItemSequence == Promised!Spec
=============================================================================
