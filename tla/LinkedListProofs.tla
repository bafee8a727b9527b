---------------------------- MODULE LinkedListProofs ----------------------------
(***************************************************************************)
(* What the run of MCLinkedList checks for five blocks and four values,    *)
(* for any finite memory and any values: an iteration visits the items in  *)
(* the order they were put in, every block has one owner, and callers see  *)
(* an ItemSequence.  The first holds for all programs that use the list,   *)
(* the others under the hypotheses their theorems state.                   *)
(*                                                                         *)
(* The operators here take the blocks as an argument, as those of          *)
(* LinkedList do: a call goes through memories that are no state.          *)
(***************************************************************************)
EXTENDS LinkedList, SequenceLemmas, FiniteSetTheorems

Types == {"unknown", "byte", "digit", "pointer", "string", "struct"}

Item ==
  [kind : {"item"}, next : Pointer, prev : Pointer, type : Types,
   data : (Values \ Large) \cup {Unset} \cup Blocks]

BlockTypes(blk) == blk \in [Blocks -> {Free} \cup Item \cup [kind : {"payload"}, bytes : Large]]

ItemsOf(blk) == {a \in Blocks : blk[a].kind = "item"}

\* The neighbours of the item k in the order s, and the list_t with that order.
Before(s, k) == IF k = 1 THEN NULL ELSE s[k - 1]
After(s, k) == IF k = Len(s) THEN NULL ELSE s[k + 1]

Ends(s) ==
  IF Len(s) = 0 THEN EmptyList ELSE [first |-> s[1], last |-> s[Len(s)], size |-> Len(s)]

IsOrder(s) == s \in Seq(Blocks) /\ \A i, j \in 1 .. Len(s) : s[i] = s[j] => i = j

\* The order s is that of the items but those held, which have no neighbours.
Chained(blk, h, s) ==
  /\ IsOrder(s)
  /\ h \subseteq ItemsOf(blk)
  /\ \A a \in Blocks : a \in ItemsOf(blk) \ h <=> \E k \in 1 .. Len(s) : s[k] = a
  /\ \A k \in 1 .. Len(s) : blk[s[k]].next = After(s, k) /\ blk[s[k]].prev = Before(s, k)
  /\ \A a \in h : blk[a].next = NULL /\ blk[a].prev = NULL

\* What is stored in the item at a, wherever it is.
ValueOf(blk, a) == IF blk[a].data \in Blocks THEN blk[blk[a].data].bytes ELSE blk[a].data

TypeOf(value) == IF value = Unset THEN "unknown" ELSE value.type

\* Each item says the type of its value, and has a block of its own for it, or none.
Owned(blk) ==
  \A a \in ItemsOf(blk) :
    /\ blk[a].type = TypeOf(ValueOf(blk, a))
    /\ blk[a].data \in Blocks =>
         /\ blk[blk[a].data].kind = "payload"
         /\ \A c \in ItemsOf(blk) : blk[c].data = blk[a].data => c = a

NoneLost(blk) ==
  \A b \in Blocks : blk[b].kind = "payload" => \E a \in ItemsOf(blk) : blk[a].data = b

InOrder(s) == Chained(block, held, s) /\ IF list = NULL THEN s = Nothing ELSE list = Ends(s)

\* The inductive invariant, and what it is for an order.
InvFor(s) ==
  /\ BlockTypes(block) /\ Owned(block)
  /\ ~Overwrites => NoneLost(block)
  /\ InOrder(s)

IInv == \E s \in Seq(Blocks) : InvFor(s)

-----------------------------------------------------------------------------
(* Orders *)

\* The order s without its element k, and with a put in at k.
Without(s, k) == [i \in 1 .. Len(s) - 1 |-> s[IF i < k THEN i ELSE i + 1]]
With(s, k, a) == [i \in 1 .. Len(s) + 1 |-> IF i < k THEN s[i] ELSE IF i = k THEN a ELSE s[i - 1]]

LEMMA WithoutElements ==
  ASSUME NEW S, NEW s \in Seq(S), NEW k \in 1 .. Len(s)
  PROVE  /\ Without(s, k) \in Seq(S) /\ Len(Without(s, k)) = Len(s) - 1
         /\ \A i \in 1 .. Len(s) - 1 : Without(s, k)[i] = s[IF i < k THEN i ELSE i + 1]
  <1>1. Len(s) \in Nat /\ Len(s) - 1 \in Nat
    OBVIOUS
  <1>2. \A i \in 1 .. Len(s) - 1 : s[IF i < k THEN i ELSE i + 1] \in S
    <2> TAKE i \in 1 .. Len(s) - 1
    <2>1. (IF i < k THEN i ELSE i + 1) \in 1 .. Len(s)
      OBVIOUS
    <2>2. QED
      BY <2>1, ElementOfSeq
  <1>3. QED
    BY <1>1, <1>2 DEF Without

LEMMA WithElements ==
  ASSUME NEW S, NEW s \in Seq(S), NEW k \in 1 .. Len(s) + 1, NEW a \in S
  PROVE  /\ With(s, k, a) \in Seq(S) /\ Len(With(s, k, a)) = Len(s) + 1
         /\ \A i \in 1 .. Len(s) + 1 :
              With(s, k, a)[i] = IF i < k THEN s[i] ELSE IF i = k THEN a ELSE s[i - 1]
  <1>1. Len(s) \in Nat /\ Len(s) + 1 \in Nat
    OBVIOUS
  <1>2. \A i \in 1 .. Len(s) + 1 : (IF i < k THEN s[i] ELSE IF i = k THEN a ELSE s[i - 1]) \in S
    <2> TAKE i \in 1 .. Len(s) + 1
    <2>1. CASE i < k
      BY <2>1, ElementOfSeq
    <2>2. CASE i = k
      BY <2>2
    <2>3. CASE i > k
      <3>1. i - 1 \in 1 .. Len(s) /\ i # k /\ ~(i < k)
        BY <2>3
      <3>2. QED
        BY <3>1, ElementOfSeq
    <2>4. QED
      BY <2>1, <2>2, <2>3
  <1>3. QED
    BY <1>1, <1>2 DEF With

LEMMA OrderElements ==
  ASSUME NEW s, IsOrder(s)
  PROVE  /\ s \in Seq(Blocks) /\ Len(s) \in Nat /\ \A k \in 1 .. Len(s) : s[k] \in Blocks /\ s[k] # NULL
         /\ \A i, j \in 1 .. Len(s) : s[i] = s[j] => i = j
  <1>1. s \in Seq(Blocks) /\ \A i, j \in 1 .. Len(s) : s[i] = s[j] => i = j
    BY DEF IsOrder
  <1>2. \A k \in 1 .. Len(s) : s[k] \in Blocks
    BY <1>1, ElementOfSeq
  <1>3. QED
    BY <1>1, <1>2, ListAssumption

\* The pointers of the neighbours.
LEMMA Neighbours ==
  ASSUME NEW s, IsOrder(s), NEW k \in 1 .. Len(s)
  PROVE  /\ Before(s, k) \in Pointer /\ (Before(s, k) = NULL <=> k = 1)
         /\ Before(s, k) # NULL => k - 1 \in 1 .. Len(s) /\ Before(s, k) = s[k - 1]
         /\ After(s, k) \in Pointer /\ (After(s, k) = NULL <=> k = Len(s))
         /\ After(s, k) # NULL => k + 1 \in 1 .. Len(s) /\ After(s, k) = s[k + 1]
         /\ Before(s, k) # s[k] /\ After(s, k) # s[k]
         /\ \A j \in 1 .. Len(s) : /\ s[j] = Before(s, k) <=> j = k - 1
                                   /\ s[j] = After(s, k) <=> j = k + 1
  <1>1. /\ s \in Seq(Blocks) /\ Len(s) \in Nat /\ \A j \in 1 .. Len(s) : s[j] \in Blocks /\ s[j] # NULL
        /\ \A i, j \in 1 .. Len(s) : s[i] = s[j] => i = j
    BY OrderElements
  <1>2. k # 1 => k - 1 \in 1 .. Len(s)
    BY <1>1
  <1>3. k # Len(s) => k + 1 \in 1 .. Len(s)
    BY <1>1
  <1>4. CASE k = 1 /\ k = Len(s)
    <2>1. Before(s, k) = NULL /\ After(s, k) = NULL
      BY <1>4 DEF Before, After
    <2>2. \A j \in 1 .. Len(s) : j # k - 1 /\ j # k + 1 /\ s[j] # NULL
      <3> DEFINE n == Len(s)
      <3>1. n = 1 /\ k = 1
        BY <1>4
      <3> HIDE DEF n
      <3>2. \A j \in 1 .. n : j # k - 1 /\ j # k + 1
        BY <3>1
      <3>3. QED
        BY <1>1, <3>2 DEF n
    <2>3. s[k] # NULL
      BY <1>1
    <2>4. QED
      BY <1>1, <1>4, <2>1, <2>2, <2>3, Zenon DEF Pointer
  <1>5. CASE k = 1 /\ k # Len(s)
    BY <1>1, <1>3, <1>5 DEF Before, After, Pointer
  <1>6. CASE k # 1 /\ k = Len(s)
    BY <1>1, <1>2, <1>6 DEF Before, After, Pointer
  <1>7. CASE k # 1 /\ k # Len(s)
    BY <1>1, <1>2, <1>3, <1>7 DEF Before, After, Pointer
  <1>8. QED
    BY <1>4, <1>5, <1>6, <1>7

LEMMA WithoutIsOrder ==
  ASSUME NEW s, IsOrder(s), NEW k \in 1 .. Len(s)
  PROVE  /\ IsOrder(Without(s, k))
         /\ \A a : (\E i \in 1 .. Len(Without(s, k)) : Without(s, k)[i] = a)
                     <=> a # s[k] /\ \E i \in 1 .. Len(s) : s[i] = a
  <1> DEFINE t == Without(s, k)
  <1>1. /\ s \in Seq(Blocks) /\ Len(s) \in Nat
        /\ \A i, j \in 1 .. Len(s) : s[i] = s[j] => i = j
    BY OrderElements
  <1>2. /\ t \in Seq(Blocks) /\ Len(t) = Len(s) - 1
        /\ \A i \in 1 .. Len(s) - 1 : t[i] = s[IF i < k THEN i ELSE i + 1]
    BY <1>1, WithoutElements
  <1> HIDE DEF t
  <1>3. IsOrder(t)
    <2>1. ASSUME NEW i \in 1 .. Len(t), NEW j \in 1 .. Len(t), t[i] = t[j]
          PROVE  i = j
      <3> DEFINE p == IF i < k THEN i ELSE i + 1
                 q == IF j < k THEN j ELSE j + 1
      <3>1. p \in 1 .. Len(s) /\ q \in 1 .. Len(s) /\ (p = q => i = j)
        BY <1>1, <1>2
      <3>2. t[i] = s[p] /\ t[j] = s[q]
        BY <1>2
      <3> HIDE DEF p, q
      <3>3. QED
        BY <1>1, <2>1, <3>1, <3>2
    <2>2. QED
      BY <1>2, <2>1 DEF IsOrder
  <1>4. ASSUME NEW i \in 1 .. Len(t)
        PROVE  t[i] # s[k] /\ \E j \in 1 .. Len(s) : s[j] = t[i]
    <2> DEFINE p == IF i < k THEN i ELSE i + 1
    <2>1. p \in 1 .. Len(s) /\ p # k /\ t[i] = s[p]
      BY <1>1, <1>2
    <2> HIDE DEF p
    <2>2. QED
      BY <1>1, <2>1
  <1>5. ASSUME NEW j \in 1 .. Len(s), s[j] # s[k]
        PROVE  \E i \in 1 .. Len(t) : t[i] = s[j]
    <2> DEFINE i == IF j < k THEN j ELSE j - 1
    <2>1. i \in 1 .. Len(t) /\ t[i] = s[j]
      <3>1. CASE j < k
        BY <1>1, <1>2, <3>1
      <3>2. CASE j > k
        BY <1>1, <1>2, <3>2
      <3>3. j # k
        BY <1>5
      <3>4. QED
        BY <1>1, <3>1, <3>2, <3>3
    <2> HIDE DEF i
    <2>2. QED
      BY <2>1
  <1>6. QED
    BY <1>3, <1>4, <1>5 DEF t

LEMMA WithIsOrder ==
  ASSUME NEW s, IsOrder(s), NEW k \in 1 .. Len(s) + 1, NEW a \in Blocks, \A i \in 1 .. Len(s) : s[i] # a
  PROVE  /\ IsOrder(With(s, k, a))
         /\ \A b : (\E i \in 1 .. Len(With(s, k, a)) : With(s, k, a)[i] = b)
                     <=> b = a \/ \E i \in 1 .. Len(s) : s[i] = b
  <1> DEFINE t == With(s, k, a)
  <1>1. /\ s \in Seq(Blocks) /\ Len(s) \in Nat
        /\ \A i, j \in 1 .. Len(s) : s[i] = s[j] => i = j
    BY OrderElements
  <1>2. /\ t \in Seq(Blocks) /\ Len(t) = Len(s) + 1
        /\ \A i \in 1 .. Len(s) + 1 : t[i] = IF i < k THEN s[i] ELSE IF i = k THEN a ELSE s[i - 1]
    BY <1>1, WithElements
  <1> HIDE DEF t
  <1>3. ASSUME NEW i \in 1 .. Len(t)
        PROVE  IF i = k THEN t[i] = a
               ELSE \E j \in 1 .. Len(s) : t[i] = s[j] /\ j = IF i < k THEN i ELSE i - 1
    <2>1. CASE i = k
      BY <1>2, <2>1
    <2>2. CASE i < k
      BY <1>1, <1>2, <2>2
    <2>3. CASE i > k
      <3>1. i - 1 \in 1 .. Len(s) /\ i \in 1 .. Len(s) + 1 /\ i # k /\ ~(i < k)
        BY <1>1, <1>2, <2>3
      <3>3. t[i] = s[i - 1]
        BY <1>2, <3>1
      <3>2. QED
        BY <3>1, <3>3
    <2>4. QED
      BY <1>1, <1>2, <2>1, <2>2, <2>3
  <1>4. IsOrder(t)
    <2>1. ASSUME NEW i \in 1 .. Len(t), NEW j \in 1 .. Len(t), t[i] = t[j]
          PROVE  i = j
      <3>1. CASE i = k \/ j = k
        BY <1>3, <2>1, <3>1
      <3>2. CASE i # k /\ j # k
        <4>1. PICK p \in 1 .. Len(s) : t[i] = s[p] /\ p = IF i < k THEN i ELSE i - 1
          BY <1>3, <3>2
        <4>2. PICK q \in 1 .. Len(s) : t[j] = s[q] /\ q = IF j < k THEN j ELSE j - 1
          BY <1>3, <3>2
        <4>3. p = q
          BY <1>1, <2>1, <4>1, <4>2
        <4>4. QED
          BY <1>2, <3>2, <4>1, <4>2, <4>3
      <3>3. QED
        BY <3>1, <3>2
    <2>2. QED
      BY <1>2, <2>1 DEF IsOrder
  <1>5. ASSUME NEW j \in 1 .. Len(s)
        PROVE  \E i \in 1 .. Len(t) : t[i] = s[j]
    <2>1. CASE j < k
      <3>1. j \in 1 .. Len(t) /\ j \in 1 .. Len(s) + 1
        BY <1>1, <1>2
      <3>2. t[j] = s[j]
        BY <1>2, <2>1, <3>1
      <3>3. QED
        BY <3>1, <3>2
    <2>2. CASE j >= k
      <3>1. j + 1 \in 1 .. Len(t) /\ ~(j + 1 < k) /\ j + 1 # k /\ (j + 1) - 1 = j
        BY <1>1, <1>2, <2>2
      <3>2. t[j + 1] = s[j]
        BY <1>2, <3>1
      <3>3. QED
        BY <3>1, <3>2
    <2>3. QED
      BY <1>1, <2>1, <2>2
  <1>6. k \in 1 .. Len(t) /\ t[k] = a
    BY <1>1, <1>2
  <1>7. QED
    BY <1>3, <1>4, <1>5, <1>6 DEF t

-----------------------------------------------------------------------------
(* What is at an address *)

LEMMA BlockKinds ==
  ASSUME NEW blk, BlockTypes(blk), NEW x \in Blocks
  PROVE  /\ blk[x] = Free \/ blk[x] \in Item \/ blk[x] \in [kind : {"payload"}, bytes : Large]
         /\ blk[x].kind = "item" <=> blk[x] \in Item
         /\ blk[x].kind = "payload" <=> blk[x] \in [kind : {"payload"}, bytes : Large]
         /\ blk[x].kind = "free" <=> blk[x] = Free
  <1>1. blk[x] \in {Free} \cup Item \cup [kind : {"payload"}, bytes : Large]
    BY DEF BlockTypes
  <1>2. /\ Free.kind = "free"
        /\ \A item \in Item : item.kind = "item"
        /\ \A payload \in [kind : {"payload"}, bytes : Large] : payload.kind = "payload"
    BY DEF Free, Item
  <1>3. "free" # "item" /\ "free" # "payload" /\ "item" # "payload"
    OBVIOUS
  <1>4. QED
    BY <1>1, <1>2, <1>3, Zenon

\* No address is a value, and so no value an address.
LEMMA ValuesAreNoAddresses ==
  /\ \A value \in Values \cup {Unset} : value \notin Blocks
  /\ Large \subseteq Values /\ Unset \notin Values
  /\ \A value \in Values : value.type \in Types /\ TypeOf(value) = value.type
  <1>1. /\ Blocks \cap (Values \cup {Unset}) = {} /\ Unset \notin Values
        /\ \A value \in Values : value.type \in {"byte", "digit", "pointer", "string", "struct"}
        /\ Large \subseteq {value \in Values : value.type \in {"string", "struct"}}
    BY ListAssumption
  <1>2. QED
    BY <1>1 DEF Types, TypeOf

LEMMA ItemFields ==
  ASSUME NEW blk, BlockTypes(blk), NEW a \in ItemsOf(blk)
  PROVE  /\ a \in Blocks /\ blk[a] \in Item
         /\ blk[a].next \in Pointer /\ blk[a].prev \in Pointer /\ blk[a].type \in Types
         /\ blk[a].data \in (Values \ Large) \cup {Unset} \cup Blocks
  <1>1. a \in Blocks /\ blk[a] \in Item
    BY BlockKinds DEF ItemsOf
  <1>2. QED
    BY <1>1 DEF Item

\* What a call leaves of the blocks old: those of freed are free, payloads stay as they
\* were, and so do the items but for their pointers.
Keeps(new, old, freed) ==
  /\ DOMAIN new = Blocks /\ new = [x \in Blocks |-> new[x]]
  /\ \A x \in Blocks \cap freed : new[x] = Free
  /\ \A x \in Blocks \ freed :
       /\ old[x].kind # "item" => new[x] = old[x]
       /\ old[x].kind = "item" =>
            new[x] \in Item /\ new[x].type = old[x].type /\ new[x].data = old[x].data

LEMMA KeptBlocks ==
  ASSUME NEW old, NEW new, NEW freed,
         BlockTypes(old), Owned(old), Keeps(new, old, freed),
         \A x \in ItemsOf(old) \ freed : old[x].data \notin freed \cap Blocks
  PROVE  /\ BlockTypes(new) /\ Owned(new) /\ ItemsOf(new) = ItemsOf(old) \ freed
         /\ \A x \in ItemsOf(new) : ValueOf(new, x) = ValueOf(old, x)
         /\ NoneLost(old) /\ (\A x \in ItemsOf(old) \cap freed : old[x].data \in freed \cup {Unset} \cup Values)
              => NoneLost(new)
  <1>1. \A x \in Blocks \cap freed : new[x] = Free /\ new[x].kind = "free"
    BY DEF Keeps, Free
  <1>2. ASSUME NEW x \in Blocks \ freed
        PROVE  /\ new[x].kind = old[x].kind
               /\ old[x].kind = "payload" => new[x] = old[x]
               /\ old[x].kind = "item" => new[x].type = old[x].type /\ new[x].data = old[x].data
               /\ new[x] \in {Free} \cup Item \cup [kind : {"payload"}, bytes : Large]
    <2>1. CASE old[x].kind = "item"
      <3>1. new[x] \in Item /\ new[x].type = old[x].type /\ new[x].data = old[x].data
        BY <2>1 DEF Keeps
      <3>2. new[x].kind = "item"
        BY <3>1 DEF Item
      <3>3. QED
        BY <2>1, <3>1, <3>2
    <2>2. CASE old[x].kind # "item"
      <3>1. new[x] = old[x]
        BY <2>2 DEF Keeps
      <3>2. QED
        BY <2>2, <3>1, BlockKinds
    <2>3. QED
      BY <2>1, <2>2
  <1>3. BlockTypes(new)
    <2>1. \A x \in Blocks : new[x] \in {Free} \cup Item \cup [kind : {"payload"}, bytes : Large]
      BY <1>1, <1>2
    <2>2. new = [x \in Blocks |-> new[x]]
      BY DEF Keeps
    <2>3. QED
      BY <2>1, <2>2 DEF BlockTypes
  <1>4. ItemsOf(new) = ItemsOf(old) \ freed
    BY <1>1, <1>2 DEF ItemsOf
  <1>5. ASSUME NEW x \in ItemsOf(old) \ freed
        PROVE  /\ x \in Blocks /\ new[x].type = old[x].type /\ new[x].data = old[x].data
               /\ ValueOf(new, x) = ValueOf(old, x)
               /\ old[x].data \in Blocks => new[old[x].data] = old[old[x].data]
    <2>1. x \in Blocks /\ old[x].kind = "item"
      BY DEF ItemsOf
    <2>2. new[x].type = old[x].type /\ new[x].data = old[x].data
      BY <1>2, <2>1
    <2>3. ASSUME old[x].data \in Blocks
          PROVE  new[old[x].data] = old[old[x].data]
      <3>1. old[old[x].data].kind = "payload" /\ old[x].data \in Blocks \ freed
        BY <2>3 DEF Owned
      <3>2. QED
        BY <1>2, <3>1
    <2>4. QED
      BY <2>1, <2>2, <2>3 DEF ValueOf
  <1>6. Owned(new)
    <2> SUFFICES ASSUME NEW x \in ItemsOf(old) \ freed
                 PROVE  /\ new[x].type = TypeOf(ValueOf(new, x))
                        /\ new[x].data \in Blocks =>
                             /\ new[new[x].data].kind = "payload"
                             /\ \A c \in ItemsOf(old) \ freed : new[c].data = new[x].data => c = x
      BY <1>4 DEF Owned
    <2>1. new[x].type = TypeOf(ValueOf(new, x))
      BY <1>5 DEF Owned
    <2>2. ASSUME new[x].data \in Blocks
          PROVE  new[new[x].data].kind = "payload"
      BY <1>5, <2>2 DEF Owned
    <2>3. ASSUME new[x].data \in Blocks, NEW c \in ItemsOf(old) \ freed, new[c].data = new[x].data
          PROVE  c = x
      BY <1>5, <2>3 DEF Owned
    <2>4. QED
      BY <2>1, <2>2, <2>3
  <1>7. ASSUME NoneLost(old), \A x \in ItemsOf(old) \cap freed : old[x].data \in freed \cup {Unset} \cup Values
        PROVE  NoneLost(new)
    <2> SUFFICES ASSUME NEW b \in Blocks, new[b].kind = "payload"
                 PROVE  \E x \in ItemsOf(old) \ freed : new[x].data = b
      BY <1>4 DEF NoneLost
    <2>1. b \notin freed /\ old[b].kind = "payload"
      <3>1. b \notin freed
        BY <1>1
      <3>2. QED
        BY <1>2, <3>1
    <2>2. PICK x \in ItemsOf(old) : old[x].data = b
      BY <1>7, <2>1 DEF NoneLost
    <2>3. x \notin freed
      BY <1>7, <2>1, <2>2, ValuesAreNoAddresses
    <2>4. QED
      BY <1>5, <2>2, <2>3
  <1>8. QED
    BY <1>3, <1>4, <1>5, <1>6, <1>7

\* A new item, in a free block.
LEMMA NewItemBlocks ==
  ASSUME NEW old, BlockTypes(old), Owned(old), NEW a \in Blocks, old[a] = Free,
         NEW new, new = [old EXCEPT ![a] = NewItem]
  PROVE  /\ BlockTypes(new) /\ Owned(new)
         /\ a \notin ItemsOf(old) /\ ItemsOf(new) = ItemsOf(old) \cup {a}
         /\ ValueOf(new, a) = Unset /\ \A x \in ItemsOf(old) : ValueOf(new, x) = ValueOf(old, x)
         /\ NoneLost(old) => NoneLost(new)
  <1>1. /\ DOMAIN old = Blocks /\ new[a] = NewItem /\ \A x \in Blocks \ {a} : new[x] = old[x]
        /\ new = [x \in Blocks |-> new[x]]
    BY DEF BlockTypes
  <1>2. NewItem \in Item /\ NewItem.kind = "item" /\ NewItem.data = Unset /\ NewItem.type = "unknown"
    BY DEF NewItem, Item, Pointer, Types
  <1>3. BlockTypes(new)
    <2>1. \A x \in Blocks : new[x] \in {Free} \cup Item \cup [kind : {"payload"}, bytes : Large]
      BY <1>1, <1>2, BlockKinds
    <2>2. QED
      BY <1>1, <2>1 DEF BlockTypes
  <1>4. old[a].kind = "free"
    BY DEF Free
  <1>5. a \notin ItemsOf(old) /\ ItemsOf(new) = ItemsOf(old) \cup {a}
    BY <1>1, <1>2, <1>4 DEF ItemsOf
  <1>6. ASSUME NEW x \in ItemsOf(old)
        PROVE  /\ x \in Blocks /\ x # a /\ new[x] = old[x] /\ ValueOf(new, x) = ValueOf(old, x)
               /\ old[x].data \in Blocks => new[old[x].data] = old[old[x].data]
    <2>1. x \in Blocks /\ x # a /\ new[x] = old[x]
      BY <1>1, <1>5 DEF ItemsOf
    <2>2. ASSUME old[x].data \in Blocks
          PROVE  new[old[x].data] = old[old[x].data]
      <3>1. old[old[x].data].kind = "payload"
        BY <2>2 DEF Owned
      <3>2. QED
        BY <1>1, <1>4, <2>2, <3>1
    <2>3. QED
      BY <2>1, <2>2 DEF ValueOf
  <1>7. new[a].data = Unset /\ Unset \notin Blocks /\ ValueOf(new, a) = Unset
    BY <1>1, <1>2, ValuesAreNoAddresses DEF ValueOf
  <1>8. Owned(new)
    <2> SUFFICES ASSUME NEW x \in ItemsOf(old) \cup {a}
                 PROVE  /\ new[x].type = TypeOf(ValueOf(new, x))
                        /\ new[x].data \in Blocks =>
                             /\ new[new[x].data].kind = "payload"
                             /\ \A c \in ItemsOf(old) \cup {a} : new[c].data = new[x].data => c = x
      BY <1>5 DEF Owned
    <2>1. CASE x = a
      BY <1>1, <1>2, <1>7, <2>1 DEF TypeOf
    <2>2. CASE x \in ItemsOf(old)
      <3>1. new[x].type = TypeOf(ValueOf(new, x))
        BY <1>6, <2>2 DEF Owned
      <3>2. ASSUME new[x].data \in Blocks
            PROVE  new[new[x].data].kind = "payload"
        BY <1>6, <2>2, <3>2 DEF Owned
      <3>3. ASSUME new[x].data \in Blocks, NEW c \in ItemsOf(old), new[c].data = new[x].data
            PROVE  c = x
        BY <1>6, <2>2, <3>3 DEF Owned
      <3>4. QED
        BY <1>7, <3>1, <3>2, <3>3
    <2>3. QED
      BY <2>1, <2>2
  <1>9. ASSUME NoneLost(old)
        PROVE  NoneLost(new)
    <2> SUFFICES ASSUME NEW b \in Blocks, new[b].kind = "payload"
                 PROVE  \E x \in ItemsOf(old) \cup {a} : new[x].data = b
      BY <1>5 DEF NoneLost
    <2>1. b # a /\ old[b].kind = "payload"
      BY <1>1, <1>2
    <2>2. QED
      BY <1>6, <1>9, <2>1 DEF NoneLost
  <1>10. QED
    BY <1>3, <1>5, <1>6, <1>7, <1>8, <1>9

\* The item a is given a value, which is at b if it is a large one.
Gives(new, old, a, value, b) ==
  /\ DOMAIN new = Blocks /\ new = [x \in Blocks |-> new[x]]
  /\ new[a] \in Item /\ new[a].type = value.type /\ new[a].data = IF value \in Large THEN b ELSE value
  /\ new[a].next = old[a].next /\ new[a].prev = old[a].prev
  /\ value \in Large => new[b] = Payload(value)
  /\ \A x \in Blocks \ {a} : (value \in Large => x # b) => new[x] = old[x]

LEMMA GivenBlocks ==
  ASSUME NEW old, NEW new, NEW value \in Values, NEW b, NEW a \in ItemsOf(old),
         BlockTypes(old), Owned(old), Gives(new, old, a, value, b),
         value \in Large => b \in Blocks /\ old[b] = Free
  PROVE  /\ BlockTypes(new) /\ Owned(new) /\ ItemsOf(new) = ItemsOf(old)
         /\ ValueOf(new, a) = value /\ \A x \in ItemsOf(old) \ {a} : ValueOf(new, x) = ValueOf(old, x)
         /\ \A x \in ItemsOf(old) : new[x].next = old[x].next /\ new[x].prev = old[x].prev
         /\ NoneLost(old) /\ old[a].data \notin Blocks => NoneLost(new)
  <1>1. a \in Blocks /\ old[a].kind = "item"
    BY DEF ItemsOf
  <1>2. \A x \in Blocks : old[x] = Free => x \notin ItemsOf(old) /\ old[x].kind = "free"
    BY DEF ItemsOf, Free
  <1>3. ASSUME NEW x \in Blocks \ {a}, old[x] # Free
        PROVE  new[x] = old[x]
    BY <1>3 DEF Gives
  <1>4. new[a].kind = "item"
    BY DEF Gives, Item
  <1>5. ASSUME value \in Large
        PROVE  /\ b \in Blocks /\ b # a /\ new[b] \in [kind : {"payload"}, bytes : Large]
               /\ new[b].kind = "payload" /\ new[b].bytes = value /\ new[a].data = b
               /\ old[b].kind = "free"
    <2>1. b \in Blocks /\ old[b].kind = "free" /\ b # a
      BY <1>1, <1>2, <1>5
    <2>2. new[b] = Payload(value) /\ new[a].data = b
      BY <1>5 DEF Gives
    <2>3. /\ Payload(value) \in [kind : {"payload"}, bytes : Large]
          /\ Payload(value).kind = "payload" /\ Payload(value).bytes = value
      BY <1>5 DEF Payload
    <2>4. QED
      BY <2>1, <2>2, <2>3
  <1>6. ASSUME value \notin Large
        PROVE  new[a].data = value /\ value \notin Blocks /\ \A x \in Blocks \ {a} : new[x] = old[x]
    BY <1>6, ValuesAreNoAddresses DEF Gives
  <1>7. BlockTypes(new)
    <2>1. ASSUME NEW x \in Blocks
          PROVE  new[x] \in {Free} \cup Item \cup [kind : {"payload"}, bytes : Large]
      <3>1. CASE x = a
        BY <3>1 DEF Gives
      <3>2. CASE value \in Large /\ x = b
        BY <1>5, <3>2
      <3>3. CASE x # a /\ (value \in Large => x # b)
        <4>1. new[x] = old[x]
          BY <3>3 DEF Gives
        <4>2. QED
          BY <4>1, BlockKinds
      <3>4. QED
        BY <3>1, <3>2, <3>3
    <2>2. new = [x \in Blocks |-> new[x]]
      BY DEF Gives
    <2>3. QED
      BY <2>1, <2>2 DEF BlockTypes
  <1>8. ItemsOf(new) = ItemsOf(old)
    <2>1. ASSUME NEW x \in Blocks
          PROVE  new[x].kind = "item" <=> old[x].kind = "item"
      <3>1. CASE x = a
        BY <1>1, <1>4, <3>1
      <3>2. CASE value \in Large /\ x = b
        BY <1>5, <3>2
      <3>3. CASE x # a /\ (value \in Large => x # b)
        BY <3>3 DEF Gives
      <3>4. QED
        BY <3>1, <3>2, <3>3
    <2>2. QED
      BY <2>1 DEF ItemsOf
  <1>9. ASSUME NEW x \in ItemsOf(old), x # a
        PROVE  /\ x \in Blocks /\ new[x] = old[x] /\ ValueOf(new, x) = ValueOf(old, x)
               /\ old[x].data \in Blocks => old[old[x].data].kind = "payload" /\ new[old[x].data] = old[old[x].data]
    <2>1. x \in Blocks /\ new[x] = old[x]
      <3>1. x \in Blocks /\ old[x] # Free
        BY <1>2 DEF ItemsOf
      <3>2. QED
        BY <1>3, <1>9, <3>1
    <2>2. ASSUME old[x].data \in Blocks
          PROVE  old[old[x].data].kind = "payload" /\ new[old[x].data] = old[old[x].data]
      <3>1. old[old[x].data].kind = "payload"
        BY <2>2 DEF Owned
      <3>2. old[x].data # a /\ old[old[x].data] # Free
        BY <1>1, <1>2, <2>2, <3>1
      <3>3. QED
        BY <1>3, <2>2, <3>1, <3>2
    <2>3. QED
      BY <2>1, <2>2 DEF ValueOf
  <1>10. ValueOf(new, a) = value
    BY <1>5, <1>6 DEF ValueOf
  <1>11. Owned(new)
    <2> SUFFICES ASSUME NEW x \in ItemsOf(old)
                 PROVE  /\ new[x].type = TypeOf(ValueOf(new, x))
                        /\ new[x].data \in Blocks =>
                             /\ new[new[x].data].kind = "payload"
                             /\ \A c \in ItemsOf(old) : new[c].data = new[x].data => c = x
      BY <1>8 DEF Owned
    <2>1. CASE x = a
      <3>1. new[a].type = TypeOf(ValueOf(new, a))
        BY <1>10, ValuesAreNoAddresses DEF Gives
      <3>2. ASSUME new[a].data \in Blocks
            PROVE  value \in Large
        BY <1>6, <3>2
      <3>3. ASSUME value \in Large, NEW c \in ItemsOf(old), c # a
            PROVE  new[c].data # new[a].data
        BY <1>5, <1>9, <3>3
      <3>4. QED
        BY <1>5, <2>1, <3>1, <3>2, <3>3
    <2>2. CASE x # a
      <3>1. new[x].type = TypeOf(ValueOf(new, x))
        BY <1>9, <2>2 DEF Owned
      <3>2. ASSUME new[x].data \in Blocks
            PROVE  new[new[x].data].kind = "payload"
        BY <1>9, <2>2, <3>2
      <3>3. ASSUME new[x].data \in Blocks, NEW c \in ItemsOf(old), new[c].data = new[x].data
            PROVE  c = x
        <4>1. CASE c = a
          <5>1. value \in Large
            BY <1>6, <3>3, <4>1
          <5>2. QED
            BY <1>5, <1>9, <2>2, <3>3, <4>1, <5>1
        <4>2. CASE c # a
          <5>1. old[c].data = old[x].data /\ old[x].data \in Blocks
            BY <1>9, <2>2, <3>3, <4>2
          <5>2. QED
            BY <5>1 DEF Owned
        <4>3. QED
          BY <4>1, <4>2
      <3>4. QED
        BY <3>1, <3>2, <3>3
    <2>3. QED
      BY <2>1, <2>2
  <1>12. ASSUME NoneLost(old), old[a].data \notin Blocks
         PROVE  NoneLost(new)
    <2> SUFFICES ASSUME NEW c \in Blocks, new[c].kind = "payload"
                 PROVE  \E x \in ItemsOf(old) : new[x].data = c
      BY <1>8 DEF NoneLost
    <2>1. CASE value \in Large /\ c = b
      BY <1>5, <2>1
    <2>2. CASE ~(value \in Large /\ c = b)
      <3>1. c # a
        BY <1>4
      <3>2. new[c] = old[c]
        BY <2>2, <3>1 DEF Gives
      <3>3. PICK x \in ItemsOf(old) : old[x].data = c
        BY <1>12, <3>2 DEF NoneLost
      <3>4. x # a
        BY <1>12, <3>3
      <3>5. QED
        BY <1>9, <3>3, <3>4
    <2>3. QED
      BY <2>1, <2>2
  <1>13. \A x \in ItemsOf(old) : new[x].next = old[x].next /\ new[x].prev = old[x].prev
    BY <1>9 DEF Gives
  <1>14. QED
    BY <1>7, <1>8, <1>9, <1>10, <1>11, <1>12, <1>13
-----------------------------------------------------------------------------
(* Links *)

\* Nothing happens to the pointers.
LEMMA ChainStays ==
  ASSUME NEW old, NEW new, NEW h, NEW s, Chained(old, h, s), ItemsOf(new) = ItemsOf(old),
         \A x \in ItemsOf(old) : new[x].next = old[x].next /\ new[x].prev = old[x].prev
  PROVE  Chained(new, h, s)
  <1>1. \A k \in 1 .. Len(s) : s[k] \in ItemsOf(old)
    BY OrderElements DEF Chained
  <1>2. QED
    BY <1>1 DEF Chained

\* An item without neighbours is held.
LEMMA ChainHolds ==
  ASSUME NEW old, NEW new, NEW h, NEW s, Chained(old, h, s), NEW a \in Blocks \ ItemsOf(old),
         ItemsOf(new) = ItemsOf(old) \cup {a}, new[a].next = NULL, new[a].prev = NULL,
         \A x \in ItemsOf(old) : new[x].next = old[x].next /\ new[x].prev = old[x].prev
  PROVE  Chained(new, h \cup {a}, s)
  <1>1. \A k \in 1 .. Len(s) : s[k] \in ItemsOf(old)
    BY OrderElements DEF Chained
  <1>2. \A x \in h : x \in ItemsOf(old)
    BY DEF Chained
  <1>3. QED
    BY <1>1, <1>2 DEF Chained

\* The item at the place k is taken out: its neighbours get each other's addresses.
LEMMA ChainWithout ==
  ASSUME NEW old, NEW new, NEW h, NEW s, Chained(old, h, s), NEW k \in 1 .. Len(s),
         ItemsOf(new) = ItemsOf(old) \ {s[k]},
         \A i \in 1 .. Len(s) : i # k =>
           /\ new[s[i]].next = IF i + 1 = k THEN After(s, k) ELSE old[s[i]].next
           /\ new[s[i]].prev = IF i = k + 1 THEN Before(s, k) ELSE old[s[i]].prev,
         \A x \in h : new[x].next = NULL /\ new[x].prev = NULL
  PROVE  Chained(new, h, Without(s, k))
  <1> DEFINE t == Without(s, k)
             n == Len(s)
  <1>1. /\ IsOrder(s) /\ n \in Nat /\ s \in Seq(Blocks)
        /\ \A x \in Blocks : x \in ItemsOf(old) \ h <=> \E i \in 1 .. n : s[i] = x
        /\ \A i \in 1 .. n : old[s[i]].next = After(s, i) /\ old[s[i]].prev = Before(s, i)
    BY OrderElements DEF Chained
  <1>2. /\ Len(t) = n - 1
        /\ \A i \in 1 .. n - 1 : t[i] = s[IF i < k THEN i ELSE i + 1]
    BY <1>1, WithoutElements
  <1>3. /\ IsOrder(t)
        /\ \A x : (\E i \in 1 .. Len(t) : t[i] = x) <=> x # s[k] /\ \E i \in 1 .. n : s[i] = x
    BY <1>1, WithoutIsOrder
  <1>4. s[k] \notin h
    BY <1>1, OrderElements
  <1>5. h \subseteq ItemsOf(new)
    BY <1>4 DEF Chained
  <1>6. \A x \in Blocks : x \in ItemsOf(new) \ h <=> \E i \in 1 .. Len(t) : t[i] = x
    <2> HIDE DEF t
    <2>1. QED
      BY <1>1, <1>3, <1>4
  <1> HIDE DEF t, n
  <1>7. ASSUME NEW i \in 1 .. Len(t)
        PROVE  new[t[i]].next = After(t, i) /\ new[t[i]].prev = Before(t, i)
    <2>1. CASE i < k
      <3>1. i \in 1 .. n /\ i # k /\ t[i] = s[i] /\ i # k + 1
        BY <1>1, <1>2, <2>1
      <3>2. new[t[i]].next = IF i + 1 = k THEN After(s, k) ELSE After(s, i)
        BY <1>1, <3>1 DEF n
      <3>3. new[t[i]].prev = Before(s, i)
        BY <1>1, <3>1 DEF n
      <3>4. Before(t, i) = Before(s, i)
        <4>1. i # 1 => i - 1 \in 1 .. n - 1 /\ i - 1 < k
          BY <1>1, <2>1, <3>1
        <4>2. QED
          BY <1>2, <4>1 DEF Before
      <3>5. After(t, i) = IF i + 1 = k THEN After(s, k) ELSE After(s, i)
        <4>1. CASE i + 1 = k
          <5>1. i = Len(t) <=> k = n
            BY <1>1, <1>2, <4>1
          <5>2. i # Len(t) => i + 1 \in 1 .. n - 1 /\ ~(i + 1 < k) /\ (i + 1) + 1 = k + 1
            BY <1>1, <1>2, <4>1
          <5>3. i # Len(t) => t[i + 1] = s[k + 1]
            BY <1>2, <5>2
          <5>4. QED
            BY <4>1, <5>1, <5>3 DEF After, n
        <4>2. CASE i + 1 # k
          <5>1. i + 1 < k /\ i + 1 \in 1 .. n - 1 /\ i # Len(t) /\ i # n
            BY <1>1, <1>2, <2>1, <4>2 DEF n
          <5>2. t[i + 1] = s[i + 1]
            BY <1>2, <5>1
          <5>3. QED
            BY <4>2, <5>1, <5>2 DEF After, n
        <4>3. QED
          BY <4>1, <4>2
      <3>6. QED
        BY <3>2, <3>3, <3>4, <3>5
    <2>2. CASE i >= k
      <3> DEFINE j == i + 1
      <3>1. j \in 1 .. n /\ j # k /\ j + 1 # k /\ (j = k + 1 <=> i = k) /\ i \in 1 .. n - 1 /\ ~(i < k)
        BY <1>1, <1>2, <2>2 DEF n
      <3>2. t[i] = s[j]
        BY <1>2, <3>1
      <3> HIDE DEF j
      <3>3. new[t[i]].next = After(s, j)
        BY <1>1, <3>1, <3>2 DEF n
      <3>4. new[t[i]].prev = IF i = k THEN Before(s, k) ELSE Before(s, j)
        BY <1>1, <3>1, <3>2 DEF n
      <3>5. After(t, i) = After(s, j)
        <4>1. i = Len(t) <=> j = n
          BY <1>1, <1>2, <3>1 DEF j
        <4>2. i # Len(t) => i + 1 \in 1 .. n - 1 /\ ~(i + 1 < k) /\ (i + 1) + 1 = j + 1
          BY <1>1, <1>2, <2>2, <3>1 DEF j
        <4>3. i # Len(t) => t[i + 1] = s[j + 1]
          BY <1>2, <4>2
        <4>4. QED
          BY <4>1, <4>3 DEF After, n
      <3>6. Before(t, i) = IF i = k THEN Before(s, k) ELSE Before(s, j)
        <4>1. CASE i = k
          <5>1. i # 1 => i - 1 \in 1 .. n - 1 /\ i - 1 < k
            BY <1>1, <3>1, <4>1
          <5>2. QED
            BY <1>2, <4>1, <5>1 DEF Before
        <4>2. CASE i # k
          <5>1. i # 1 /\ j # 1 /\ i - 1 \in 1 .. n - 1 /\ ~(i - 1 < k) /\ (i - 1) + 1 = j - 1
            BY <1>1, <2>2, <3>1, <4>2 DEF j
          <5>2. t[i - 1] = s[j - 1]
            BY <1>2, <5>1
          <5>3. QED
            BY <4>2, <5>1, <5>2 DEF Before
        <4>3. QED
          BY <4>1, <4>2
      <3>7. QED
        BY <3>3, <3>4, <3>5, <3>6
    <2>3. QED
      BY <1>1, <1>2, <2>1, <2>2
  <1>8. Chained(new, h, t)
    BY <1>3, <1>5, <1>6, <1>7 DEF Chained
  <1>9. QED
    BY <1>8 DEF t

\* The held item a is put in at the place k, between the items there and before.
LEMMA ChainWith ==
  ASSUME NEW old, NEW new, NEW h, NEW s, Chained(old, h, s), NEW k \in 1 .. Len(s) + 1, NEW a \in h,
         a \in Blocks, ItemsOf(new) = ItemsOf(old),
         new[a].next = IF k = Len(s) + 1 THEN NULL ELSE s[k],
         new[a].prev = Before(s, k),
         \A i \in 1 .. Len(s) :
           /\ new[s[i]].next = IF i = k - 1 THEN a ELSE old[s[i]].next
           /\ new[s[i]].prev = IF i = k THEN a ELSE old[s[i]].prev,
         \A x \in h \ {a} : new[x].next = old[x].next /\ new[x].prev = old[x].prev
  PROVE  Chained(new, h \ {a}, With(s, k, a))
  <1> DEFINE t == With(s, k, a)
             n == Len(s)
  <1>1. /\ IsOrder(s) /\ n \in Nat /\ s \in Seq(Blocks)
        /\ h \subseteq ItemsOf(old)
        /\ \A x \in Blocks : x \in ItemsOf(old) \ h <=> \E i \in 1 .. n : s[i] = x
        /\ \A i \in 1 .. n : old[s[i]].next = After(s, i) /\ old[s[i]].prev = Before(s, i)
        /\ \A x \in h : old[x].next = NULL /\ old[x].prev = NULL
    BY OrderElements DEF Chained
  <1>2. /\ Len(t) = n + 1
        /\ \A i \in 1 .. n + 1 : t[i] = IF i < k THEN s[i] ELSE IF i = k THEN a ELSE s[i - 1]
    BY <1>1, WithElements
  <1>3. \A i \in 1 .. n : s[i] # a
    BY <1>1
  <1>4. /\ IsOrder(t)
        /\ \A x : (\E i \in 1 .. Len(t) : t[i] = x) <=> x = a \/ \E i \in 1 .. n : s[i] = x
    <2>1. a \in Blocks /\ IsOrder(s) /\ \A i \in 1 .. Len(s) : s[i] # a
      BY <1>1, <1>3
    <2>2. /\ IsOrder(With(s, k, a))
          /\ \A x : (\E i \in 1 .. Len(With(s, k, a)) : With(s, k, a)[i] = x)
                       <=> x = a \/ \E i \in 1 .. Len(s) : s[i] = x
      BY <2>1, WithIsOrder
    <2>3. QED
      BY <2>2
  <1>5. h \ {a} \subseteq ItemsOf(new) /\ a \in ItemsOf(new)
    BY <1>1
  <1>6. \A x \in Blocks : x \in ItemsOf(new) \ (h \ {a}) <=> \E i \in 1 .. Len(t) : t[i] = x
    <2> HIDE DEF t
    <2>1. QED
      BY <1>1, <1>4, <1>5
  <1> HIDE DEF t, n
  <1>7. ASSUME NEW i \in 1 .. Len(t)
        PROVE  new[t[i]].next = After(t, i) /\ new[t[i]].prev = Before(t, i)
    <2>1. CASE i < k
      <3>1. i \in 1 .. n /\ i # k /\ i \in 1 .. n + 1 /\ (i + 1 = k <=> i = k - 1) /\ i # Len(t)
            /\ i + 1 \in 1 .. n + 1
        BY <1>1, <1>2, <2>1 DEF n
      <3>2. t[i] = s[i]
        BY <1>2, <2>1, <3>1
      <3>3. new[t[i]].next = IF i + 1 = k THEN a ELSE After(s, i)
        BY <1>1, <3>1, <3>2 DEF n
      <3>4. new[t[i]].prev = Before(s, i)
        BY <1>1, <3>1, <3>2 DEF n
      <3>5. Before(t, i) = Before(s, i)
        <4>1. i # 1 => i - 1 \in 1 .. n + 1 /\ i - 1 < k
          BY <1>1, <2>1, <3>1
        <4>2. QED
          BY <1>2, <4>1 DEF Before
      <3>6. After(t, i) = IF i + 1 = k THEN a ELSE After(s, i)
        <4>1. CASE i + 1 = k
          <5>1. t[i + 1] = a
            BY <1>2, <3>1, <4>1
          <5>2. QED
            BY <3>1, <4>1, <5>1 DEF After
        <4>2. CASE i + 1 # k
          <5>1. i + 1 < k /\ i # n
            BY <1>1, <2>1, <3>1, <4>2 DEF n
          <5>2. t[i + 1] = s[i + 1]
            BY <1>2, <3>1, <5>1
          <5>3. QED
            BY <3>1, <4>2, <5>1, <5>2 DEF After, n
        <4>3. QED
          BY <4>1, <4>2
      <3>7. QED
        BY <3>3, <3>4, <3>5, <3>6
    <2>2. CASE i = k
      <3>1. i \in 1 .. n + 1 /\ t[i] = a
        BY <1>1, <1>2, <2>2
      <3>2. Before(t, i) = Before(s, k)
        <4>1. i # 1 => i - 1 \in 1 .. n + 1 /\ i - 1 < k
          BY <1>1, <2>2, <3>1
        <4>2. QED
          BY <1>2, <2>2, <4>1 DEF Before
      <3>3. After(t, i) = IF k = n + 1 THEN NULL ELSE s[k]
        <4>1. CASE k = n + 1
          BY <1>2, <2>2, <4>1 DEF After
        <4>2. CASE k # n + 1
          <5>1. i # Len(t) /\ i + 1 \in 1 .. n + 1 /\ ~(i + 1 < k) /\ i + 1 # k /\ (i + 1) - 1 = k
            BY <1>1, <1>2, <2>2, <3>1, <4>2 DEF n
          <5>2. t[i + 1] = s[k]
            BY <1>2, <5>1
          <5>3. QED
            BY <4>2, <5>1, <5>2 DEF After
        <4>3. QED
          BY <4>1, <4>2
      <3>4. QED
        BY <3>1, <3>2, <3>3 DEF n
    <2>3. CASE i > k
      <3> DEFINE j == i - 1
      <3>1. /\ j \in 1 .. n /\ j # k - 1 /\ (j = k <=> i - 1 = k) /\ i \in 1 .. n + 1 /\ ~(i < k) /\ i # k
            /\ i # 1 /\ (j # k => j # 1 /\ ~(i - 1 < k) /\ (i - 1) - 1 = j - 1) /\ i - 1 \in 1 .. n + 1
        BY <1>1, <1>2, <2>3 DEF n
      <3>2. t[i] = s[j]
        BY <1>2, <3>1
      <3> HIDE DEF j
      <3>3. new[t[i]].next = After(s, j)
        BY <1>1, <3>1, <3>2 DEF n
      <3>4. new[t[i]].prev = IF j = k THEN a ELSE Before(s, j)
        BY <1>1, <3>1, <3>2 DEF n
      <3>5. After(t, i) = After(s, j)
        <4>1. i = Len(t) <=> j = n
          BY <1>1, <1>2, <3>1 DEF j
        <4>2. i # Len(t) => i + 1 \in 1 .. n + 1 /\ ~(i + 1 < k) /\ i + 1 # k /\ (i + 1) - 1 = j + 1
          BY <1>1, <1>2, <2>3, <3>1 DEF j
        <4>3. i # Len(t) => t[i + 1] = s[j + 1]
          BY <1>2, <4>2
        <4>4. QED
          BY <4>1, <4>3 DEF After, n
      <3>6. Before(t, i) = IF j = k THEN a ELSE Before(s, j)
        <4>1. CASE j = k
          <5>1. t[i - 1] = a
            BY <1>2, <3>1, <4>1
          <5>2. QED
            BY <3>1, <4>1, <5>1 DEF Before
        <4>2. CASE j # k
          <5>1. t[i - 1] = s[j - 1]
            BY <1>2, <3>1, <4>2
          <5>2. QED
            BY <3>1, <4>2, <5>1 DEF Before
        <4>3. QED
          BY <4>1, <4>2
      <3>7. QED
        BY <3>3, <3>4, <3>5, <3>6
    <2>4. QED
      BY <1>1, <1>2, <2>1, <2>2, <2>3
  <1>8. \A x \in h \ {a} : new[x].next = NULL /\ new[x].prev = NULL
    BY <1>1
  <1>9. Chained(new, h \ {a}, t)
    BY <1>4, <1>5, <1>6, <1>7, <1>8 DEF Chained
  <1>10. QED
    BY <1>9 DEF t

-----------------------------------------------------------------------------
(* The functions of list.c *)

\* A memory with the items in the order s, and with the list of that order.
Placed(m, h, s) ==
  /\ m = [block |-> m.block, list |-> m.list]
  /\ BlockTypes(m.block) /\ Owned(m.block) /\ Chained(m.block, h, s)

Right(m, h, s) == Placed(m, h, s) /\ m.list = Ends(s)

LEMMA Relinked ==
  ASSUME NEW item \in Item, NEW p \in Pointer
  PROVE  /\ [item EXCEPT !.next = p] \in Item /\ [item EXCEPT !.next = p].next = p
         /\ [item EXCEPT !.next = p].prev = item.prev
         /\ [item EXCEPT !.next = p].type = item.type /\ [item EXCEPT !.next = p].data = item.data
         /\ [item EXCEPT !.prev = p] \in Item /\ [item EXCEPT !.prev = p].prev = p
         /\ [item EXCEPT !.prev = p].next = item.next
         /\ [item EXCEPT !.prev = p].type = item.type /\ [item EXCEPT !.prev = p].data = item.data
  BY DEF Item

LEMMA EndsFields ==
  ASSUME NEW s, Len(s) # 0
  PROVE  /\ Ends(s).first = s[1] /\ Ends(s).last = s[Len(s)] /\ Ends(s).size = Len(s)
         /\ Ends(s) = [first |-> s[1], last |-> s[Len(s)], size |-> Len(s)]
  BY DEF Ends

LEMMA NoEnds ==
  ASSUME NEW s, Len(s) = 0
  PROVE  Ends(s).first = NULL /\ Ends(s).last = NULL /\ Ends(s).size = 0 /\ Ends(s) = EmptyList
  BY DEF Ends, EmptyList

\* What is in the order s of a memory.
LEMMA OrderedItem ==
  ASSUME NEW blk, NEW h, NEW s, BlockTypes(blk), Chained(blk, h, s), NEW k \in 1 .. Len(s)
  PROVE  /\ s \in Seq(Blocks) /\ Len(s) \in Nat /\ s[k] \in Blocks /\ s[k] # NULL
         /\ s[k] \in ItemsOf(blk) /\ s[k] \notin h /\ blk[s[k]] \in Item
         /\ blk[s[k]].next = After(s, k) /\ blk[s[k]].prev = Before(s, k)
         /\ \A i \in 1 .. Len(s) : s[i] = s[k] => i = k
  <1>1. /\ s \in Seq(Blocks) /\ Len(s) \in Nat /\ s[k] \in Blocks /\ s[k] # NULL
        /\ \A i \in 1 .. Len(s) : s[i] = s[k] => i = k
    BY OrderElements DEF Chained
  <1>2. s[k] \in ItemsOf(blk) /\ s[k] \notin h
    BY <1>1 DEF Chained
  <1>3. blk[s[k]] \in Item
    BY <1>2, ItemFields
  <1>4. blk[s[k]].next = After(s, k) /\ blk[s[k]].prev = Before(s, k)
    BY DEF Chained
  <1>5. QED
    BY <1>1, <1>2, <1>3, <1>4

LEMMA AddItemIsRight ==
  ASSUME NEW m, NEW h, NEW s, Right(m, h, s), NEW a \in Blocks, m.block[a] = Free
  PROVE  LET new == AddItem(m, a).block
         IN  /\ Right(AddItem(m, a), h, With(s, Len(s) + 1, a))
             /\ a \notin ItemsOf(m.block) /\ ItemsOf(new) = ItemsOf(m.block) \cup {a}
             /\ new[a].data = Unset /\ ValueOf(new, a) = Unset
             /\ \A x \in ItemsOf(m.block) : ValueOf(new, x) = ValueOf(m.block, x)
             /\ \A x \in Blocks \ {a} : m.block[x] = Free => new[x] = Free
             /\ NoneLost(m.block) => NoneLost(new)
  <1> DEFINE old == m.block
             n == Len(s)
             last == m.list.last
             mid == [old EXCEPT ![a] = NewItem]
             out == AddItem(m, a)
             new == out.block
             t == With(s, n + 1, a)
  <1>1. BlockTypes(old) /\ Owned(old) /\ Chained(old, h, s) /\ m.list = Ends(s) /\ DOMAIN old = Blocks
    BY DEF Right, Placed, BlockTypes
  <1>2. IsOrder(s) /\ s \in Seq(Blocks) /\ n \in Nat
    BY <1>1, OrderElements DEF Chained
  <1>3. /\ BlockTypes(mid) /\ Owned(mid)
        /\ a \notin ItemsOf(old) /\ ItemsOf(mid) = ItemsOf(old) \cup {a}
        /\ ValueOf(mid, a) = Unset /\ \A x \in ItemsOf(old) : ValueOf(mid, x) = ValueOf(old, x)
        /\ NoneLost(old) => NoneLost(mid)
    BY <1>1, NewItemBlocks
  <1>4. mid[a] = NewItem /\ \A x \in Blocks \ {a} : mid[x] = old[x]
    BY <1>1
  <1>5. NewItem.next = NULL /\ NewItem.prev = NULL /\ NewItem.data = Unset /\ NewItem.type = "unknown"
        /\ NewItem.kind = "item" /\ NewItem \in Item
    BY DEF NewItem, Item, Types, Pointer
  <1> HIDE DEF mid
  <1>6. Chained(mid, h \cup {a}, s)
    <2>1. \A x \in ItemsOf(old) : mid[x] = old[x]
      BY <1>3, <1>4 DEF ItemsOf
    <2>2. a \in Blocks \ ItemsOf(old) /\ mid[a].next = NULL /\ mid[a].prev = NULL
      BY <1>3, <1>4, <1>5
    <2>3. \A x \in ItemsOf(old) : mid[x].next = old[x].next /\ mid[x].prev = old[x].prev
      BY <2>1
    <2> HIDE DEF old
    <2>4. QED
      BY <1>1, <1>3, <2>2, <2>3, ChainHolds
  <1>7. (h \cup {a}) \ {a} = h
    BY <1>1, <1>3 DEF Chained
  <1>8. /\ Len(t) = n + 1 /\ t[n + 1] = a
        /\ \A i \in 1 .. n : t[i] = s[i]
    <2> DEFINE k == n + 1
    <2>1. /\ s \in Seq(Blocks) /\ a \in Blocks
          /\ k \in 1 .. Len(s) + 1 /\ k = n + 1 /\ \A i \in 1 .. n : i < k /\ i \in 1 .. Len(s) + 1
      BY <1>2
    <2> HIDE DEF k, t, n
    <2>2. /\ Len(With(s, k, a)) = Len(s) + 1
          /\ \A i \in 1 .. Len(s) + 1 :
               With(s, k, a)[i] = IF i < k THEN s[i] ELSE IF i = k THEN a ELSE s[i - 1]
      BY <2>1, WithElements
    <2>3. With(s, k, a)[k] = a /\ \A i \in 1 .. n : With(s, k, a)[i] = s[i]
      BY <2>1, <2>2
    <2>4. QED
      BY <2>1, <2>2, <2>3 DEF t, n
  <1>9. /\ new = [x \in Blocks |-> new[x]]
        /\ new[a] \in Item /\ new[a].type = "unknown" /\ new[a].data = Unset
        /\ new[a].next = NULL /\ new[a].prev = Before(s, n + 1)
        /\ \A i \in 1 .. n : /\ new[s[i]].next = IF i = n THEN a ELSE mid[s[i]].next
                             /\ new[s[i]].prev = mid[s[i]].prev
        /\ \A x \in Blocks \ {a} :
             IF n # 0 /\ x = s[n] THEN /\ new[x] \in Item /\ new[x].type = mid[x].type
                                       /\ new[x].data = mid[x].data
             ELSE new[x] = mid[x]
        /\ out = [block |-> out.block, list |-> out.list] /\ out.list = Ends(t)
    <2>1. CASE n = 0
      <3>1. m.list.first = NULL
        BY <1>1, <2>1, NoEnds
      <3>2. out = [block |-> mid, list |-> [first |-> a, last |-> a, size |-> 1]]
        BY <3>1 DEF AddItem, mid
      <3>3. Before(s, n + 1) = NULL
        BY <2>1 DEF Before
      <3>4. Ends(t) = [first |-> a, last |-> a, size |-> 1]
        BY <1>8, <2>1 DEF Ends
      <3>5. new = mid /\ mid = [x \in Blocks |-> mid[x]]
        BY <1>3, <3>2 DEF BlockTypes
      <3>6. new[a] = NewItem /\ \A i \in 1 .. n : FALSE
        BY <1>4, <2>1, <3>5
      <3> HIDE DEF new, t
      <3>7. out = [block |-> out.block, list |-> out.list] /\ out.list = Ends(t)
        <4> HIDE DEF out
        <4>1. QED
          BY <3>2, <3>4
      <3> HIDE DEF n
      <3>8. QED
        BY <1>5, <2>1, <3>3, <3>5, <3>6, <3>7
    <2>2. CASE n # 0
      <3>1. n \in 1 .. n
        BY <1>2, <2>2
      <3>2. last = s[n] /\ m.list.first = s[1] /\ m.list = [first |-> s[1], last |-> s[n], size |-> n]
        BY <1>1, <2>2, EndsFields
      <3>3. /\ s[n] \in Blocks /\ s[n] # NULL /\ s[n] \in ItemsOf(old) /\ old[s[n]] \in Item
            /\ \A i \in 1 .. n : s[i] = s[n] => i = n
        BY <1>1, <3>1, OrderedItem
      <3>4. s[1] # NULL
        BY <1>1, <3>1, <2>2, OrderedItem
      <3>5. s[n] # a
        BY <1>3, <3>3
      <3>6. out = [block |-> [old EXCEPT ![a] = [NewItem EXCEPT !.prev = last], ![last].next = a],
                   list  |-> [m.list EXCEPT !.last = a, !.size = @ + 1]]
        BY <3>2, <3>4 DEF AddItem
      <3>7. new = [old EXCEPT ![a] = [NewItem EXCEPT !.prev = s[n]], ![s[n]].next = a]
        BY <3>2, <3>6
      <3>8. /\ new[a] = [NewItem EXCEPT !.prev = s[n]] /\ new[s[n]] = [old[s[n]] EXCEPT !.next = a]
            /\ \A x \in Blocks : x # a /\ x # s[n] => new[x] = old[x]
            /\ new = [x \in Blocks |-> new[x]]
        <4> HIDE DEF new, n, old
        <4>1. QED
          BY <1>1, <3>3, <3>5, <3>7
      <3>9. Before(s, n + 1) = s[n]
        BY <1>2, <2>2 DEF Before
      <3>10. out.list = Ends(t) /\ out = [block |-> out.block, list |-> out.list]
        <4>1. t[1] = s[1]
          BY <1>2, <1>8, <2>2
        <4>2. Ends(t) = [first |-> s[1], last |-> a, size |-> n + 1]
          BY <1>2, <1>8, <4>1 DEF Ends
        <4>3. [m.list EXCEPT !.last = a, !.size = @ + 1] = [first |-> s[1], last |-> a, size |-> n + 1]
          <5> DEFINE l == m.list
                     f == s[1]
                     e == s[n]
          <5>1. l = [first |-> f, last |-> e, size |-> n]
            BY <3>2
          <5> HIDE DEF l, f, e, n
          <5>2. DOMAIN l = {"first", "last", "size"} /\ l.first = f /\ l.size = n
            BY <5>1
          <5>3. [l EXCEPT !.last = a, !.size = @ + 1] =
                  [x \in DOMAIN l |-> IF x = "last" THEN a ELSE IF x = "size" THEN n + 1 ELSE l[x]]
            BY <5>2
          <5>4. [l EXCEPT !.last = a, !.size = @ + 1] = [first |-> f, last |-> a, size |-> n + 1]
            BY <5>2, <5>3
          <5>5. QED
            BY <5>4 DEF l, f
        <4> HIDE DEF out, t, n
        <4>4. QED
          BY <3>6, <4>2, <4>3
      <3>11. /\ new[a] \in Item /\ new[a].type = "unknown" /\ new[a].data = Unset
             /\ new[a].next = NULL /\ new[a].prev = s[n]
        <4>1. s[n] \in Pointer
          BY <3>3 DEF Pointer
        <4> DEFINE p == s[n]
                   linked == [NewItem EXCEPT !.prev = p]
        <4>2. p \in Pointer /\ new[a] = linked
          BY <3>8, <4>1
        <4> HIDE DEF new, p
        <4>3. /\ linked \in Item /\ linked.type = NewItem.type /\ linked.data = NewItem.data
              /\ linked.next = NewItem.next /\ linked.prev = p
          BY <1>5, <4>2, Relinked
        <4> HIDE DEF linked
        <4>4. QED
          BY <1>5, <4>2, <4>3 DEF p
      <3>12. /\ new[s[n]] \in Item /\ new[s[n]].type = old[s[n]].type /\ new[s[n]].data = old[s[n]].data
             /\ new[s[n]].next = a /\ new[s[n]].prev = old[s[n]].prev
        <4>1. a \in Pointer
          BY DEF Pointer
        <4> DEFINE p == s[n]
                   was == old[p]
                   linked == [was EXCEPT !.next = a]
        <4>2. was \in Item /\ new[p] = linked
          BY <3>3, <3>8
        <4> HIDE DEF new, p, was
        <4>3. /\ linked \in Item /\ linked.type = was.type /\ linked.data = was.data
              /\ linked.next = a /\ linked.prev = was.prev
          BY <4>1, <4>2, Relinked
        <4> HIDE DEF linked
        <4>4. QED
          BY <4>2, <4>3 DEF p, was
      <3>13. mid[s[n]] = old[s[n]]
        BY <1>4, <3>3, <3>5
      <3> HIDE DEF new, old, out, t
      <3>14. ASSUME NEW i \in 1 .. n
             PROVE  /\ new[s[i]].next = IF i = n THEN a ELSE mid[s[i]].next
                    /\ new[s[i]].prev = mid[s[i]].prev
        <4>1. s[i] \in Blocks /\ s[i] # a
          BY <1>1, <1>3, OrderedItem
        <4>2. i # n => s[i] # s[n]
          BY <3>3
        <4> HIDE DEF n
        <4>3. QED
          BY <1>4, <3>8, <3>12, <3>13, <4>1, <4>2
      <3>15. ASSUME NEW x \in Blocks \ {a}
             PROVE  IF n # 0 /\ x = s[n] THEN /\ new[x] \in Item /\ new[x].type = mid[x].type
                                              /\ new[x].data = mid[x].data
                    ELSE new[x] = mid[x]
        BY <1>4, <2>2, <3>8, <3>12, <3>13
      <3> HIDE DEF n
      <3>16. QED
        BY <3>8, <3>9, <3>10, <3>11, <3>14, <3>15
    <2>3. QED
      BY <2>1, <2>2
  <1> HIDE DEF new, old, t
  <1>10. Keeps(new, mid, {})
    <2>1. ASSUME NEW x \in Blocks
          PROVE  /\ mid[x].kind # "item" => new[x] = mid[x]
                 /\ mid[x].kind = "item" =>
                      new[x] \in Item /\ new[x].type = mid[x].type /\ new[x].data = mid[x].data
      <3>1. CASE x = a
        BY <1>4, <1>5, <1>9, <3>1
      <3>2. CASE x # a /\ n # 0 /\ x = s[n]
        <4>1. mid[x].kind = "item"
          <5>1. n \in 1 .. n
            BY <1>2, <3>2
          <5>2. s[n] \in ItemsOf(mid)
            BY <1>3, <1>6, <5>1, OrderedItem
          <5>3. QED
            BY <3>2, <5>2 DEF ItemsOf
        <4>2. QED
          BY <1>9, <3>2, <4>1
      <3>3. CASE x # a /\ ~(n # 0 /\ x = s[n])
        <4>1. new[x] = mid[x]
          BY <1>9, <3>3
        <4>2. mid[x].kind = "item" => mid[x] \in Item
          BY <1>3, BlockKinds
        <4>3. QED
          BY <4>1, <4>2
      <3>4. QED
        BY <3>1, <3>2, <3>3
    <2>2. DOMAIN new = Blocks
      BY <1>9
    <2>3. QED
      BY <1>9, <2>1, <2>2 DEF Keeps
  <1>11. /\ BlockTypes(new) /\ Owned(new) /\ ItemsOf(new) = ItemsOf(mid)
         /\ \A x \in ItemsOf(new) : ValueOf(new, x) = ValueOf(mid, x)
         /\ NoneLost(mid) => NoneLost(new)
    <2>1. ItemsOf(mid) \ {} = ItemsOf(mid) /\ ItemsOf(mid) \cap {} = {} /\ {} \cap Blocks = {}
      OBVIOUS
    <2>2. \A x \in ItemsOf(mid) \ {} : mid[x].data \notin {} \cap Blocks
      OBVIOUS
    <2>3. QED
      BY <1>3, <1>10, <2>1, <2>2, KeptBlocks
  <1>12. Chained(new, h, t)
    <2> DEFINE g == h \cup {a}
               k == n + 1
    <2>1. \A x \in g \ {a} : new[x].next = mid[x].next /\ new[x].prev = mid[x].prev
      <3> SUFFICES ASSUME NEW x \in h
                   PROVE  new[x] = mid[x]
        BY <1>7
      <3>1. x \in Blocks \ {a}
        BY <1>1, <1>3 DEF Chained, ItemsOf
      <3>2. n # 0 => x # s[n]
        <4>1. ASSUME n # 0
              PROVE  s[n] \notin h
          <5>1. n \in 1 .. n
            BY <1>2, <4>1
          <5>2. QED
            BY <1>1, <5>1, OrderedItem
        <4>2. QED
          BY <4>1
      <3>3. QED
        BY <1>9, <3>1, <3>2
    <2>2. k \in 1 .. Len(s) + 1 /\ a \in g /\ k - 1 = n /\ n + 1 = Len(s) + 1
      BY <1>2
    <2>3. \A i \in 1 .. Len(s) :
            /\ new[s[i]].next = IF i = k - 1 THEN a ELSE mid[s[i]].next
            /\ new[s[i]].prev = IF i = k THEN a ELSE mid[s[i]].prev
      <3>1. \A i \in 1 .. n : i # k
        BY <1>2
      <3> HIDE DEF k
      <3>2. QED
        BY <1>9, <2>2, <3>1
    <2>4. /\ new[a].next = IF k = Len(s) + 1 THEN NULL ELSE s[k]
          /\ new[a].prev = Before(s, k)
      BY <1>9
    <2>5. Chained(mid, g, s) /\ ItemsOf(new) = ItemsOf(mid)
      BY <1>6, <1>11
    <2>6. g \ {a} = h /\ With(s, k, a) = t
      BY <1>7 DEF t
    <2> HIDE DEF g, k
    <2>7. Chained(new, g \ {a}, With(s, k, a))
      BY <2>1, <2>2, <2>3, <2>4, <2>5, ChainWith
    <2>8. QED
      BY <2>6, <2>7
  <1>13. Right(out, h, t)
    BY <1>9, <1>11, <1>12 DEF Right, Placed, new
  <1>14. \A x \in Blocks \ {a} : old[x] = Free => new[x] = Free
    <2> SUFFICES ASSUME NEW x \in Blocks \ {a}, old[x] = Free
                 PROVE  new[x] = Free
      OBVIOUS
    <2>1. x \notin ItemsOf(old)
      BY DEF ItemsOf, Free
    <2>2. n # 0 => x # s[n]
      <3>1. ASSUME n # 0
            PROVE  s[n] \in ItemsOf(old)
        <4>1. n \in 1 .. n
          BY <1>2, <3>1
        <4>2. QED
          BY <1>1, <4>1, OrderedItem
      <3>2. QED
        BY <2>1, <3>1
    <2>3. QED
      BY <1>4, <1>9, <2>2
  <1>15. /\ a \notin ItemsOf(old) /\ ItemsOf(new) = ItemsOf(old) \cup {a}
         /\ ValueOf(new, a) = Unset /\ \A x \in ItemsOf(old) : ValueOf(new, x) = ValueOf(old, x)
         /\ NoneLost(old) => NoneLost(new)
    BY <1>3, <1>11
  <1>16. new[a].data = Unset
    BY <1>9
  <1> HIDE DEF out
  <1>17. QED
    BY <1>13, <1>14, <1>15, <1>16 DEF new, old, out, t

\* It is all the same to the list, if there is one.
LEMMA SetItemIsRight ==
  ASSUME NEW m, NEW h, NEW s, Placed(m, h, s), NEW a \in ItemsOf(m.block), NEW value \in Values, NEW b,
         value \in Large => b \in Blocks /\ m.block[b] = Free
  PROVE  LET new == SetItem(m, a, value, b).block
         IN  /\ Placed(SetItem(m, a, value, b), h, s) /\ SetItem(m, a, value, b).list = m.list
             /\ ItemsOf(new) = ItemsOf(m.block)
             /\ ValueOf(new, a) = value
             /\ \A x \in ItemsOf(m.block) \ {a} : ValueOf(new, x) = ValueOf(m.block, x)
             /\ NoneLost(m.block) /\ m.block[a].data \notin Blocks => NoneLost(new)
  <1> DEFINE old == m.block
             out == SetItem(m, a, value, b)
             new == out.block
             was == old[a]
             given == [was EXCEPT !.type = value.type, !.data = IF value \in Large THEN b ELSE value]
  <1>1. /\ BlockTypes(old) /\ Owned(old) /\ Chained(old, h, s) /\ DOMAIN old = Blocks
        /\ m = [block |-> old, list |-> m.list]
    BY DEF Placed, BlockTypes
  <1>2. a \in Blocks /\ was \in Item /\ was.kind = "item"
    BY <1>1, ItemFields DEF ItemsOf
  <1>3. value \in Large => b \in Blocks /\ b # a
    <2>1. value \in Large => old[b].kind = "free"
      BY DEF Free
    <2>2. QED
      BY <1>2, <2>1
  <1>4. /\ given \in Item /\ given.type = value.type
        /\ given.data = IF value \in Large THEN b ELSE value
        /\ given.next = was.next /\ given.prev = was.prev
    <2> DEFINE d == IF value \in Large THEN b ELSE value
    <2>1. d \in (Values \ Large) \cup {Unset} \cup Blocks /\ value.type \in Types
      BY <1>3, ValuesAreNoAddresses
    <2> HIDE DEF d, was
    <2>2. [was EXCEPT !.type = value.type, !.data = d] \in Item
      BY <1>2, <2>1 DEF Item
    <2>3. DOMAIN was = {"kind", "next", "prev", "type", "data"}
      BY <1>2 DEF Item
    <2>4. QED
      BY <2>2, <2>3 DEF d
  <1>5. a \in ItemsOf(old) /\ value \in Values /\ (value \in Large => b \in Blocks /\ old[b] = Free)
    OBVIOUS
  <1>6. CASE value \in Large
    <2> DEFINE put == [old EXCEPT ![b] = Payload(value), ![a].type = value.type, ![a].data = b]
    <2>1. out = [block |-> put, list |-> m.list]
      <3>1. out = [m EXCEPT !.block[b] = Payload(value),
                            !.block[a].type = value.type, !.block[a].data = b]
        BY <1>6 DEF SetItem
      <3>2. DOMAIN m = {"block", "list"}
        BY <1>1
      <3>3. out = [x \in DOMAIN m |-> IF x = "block" THEN put ELSE m[x]]
        BY <3>1, <3>2
      <3> HIDE DEF out, put
      <3>4. QED
        BY <3>2, <3>3
    <2>2. /\ put[a] = given /\ put[b] = Payload(value) /\ DOMAIN put = Blocks
          /\ \A x \in Blocks : x # a /\ x # b => put[x] = old[x]
          /\ put = [x \in Blocks |-> put[x]]
      BY <1>1, <1>2, <1>3, <1>6
    <2> HIDE DEF put, given
    <2>3. Gives(put, old, a, value, b)
      BY <1>4, <1>6, <2>2 DEF Gives
    <2> HIDE DEF out
    <2>4. new = put /\ out.list = m.list /\ out = [block |-> new, list |-> m.list]
      BY <2>1
    <2> HIDE DEF old, new
    <2>5. /\ BlockTypes(new) /\ Owned(new) /\ ItemsOf(new) = ItemsOf(old)
          /\ ValueOf(new, a) = value /\ \A x \in ItemsOf(old) \ {a} : ValueOf(new, x) = ValueOf(old, x)
          /\ \A x \in ItemsOf(old) : new[x].next = old[x].next /\ new[x].prev = old[x].prev
          /\ NoneLost(old) /\ old[a].data \notin Blocks => NoneLost(new)
      <3>1. Gives(new, old, a, value, b)
        BY <2>3, <2>4
      <3>2. BlockTypes(old) /\ Owned(old)
        BY <1>1
      <3>3. QED
        BY <1>5, <3>1, <3>2, GivenBlocks
    <2>6. Chained(new, h, s)
      BY <1>1, <2>5, ChainStays
    <2>7. Placed(out, h, s) /\ out.list = m.list
      BY <1>1, <2>4, <2>5, <2>6 DEF Placed, new
    <2>8. QED
      BY <2>5, <2>7 DEF old, new, out
  <1>7. CASE value \notin Large
    <2> DEFINE put == [old EXCEPT ![a].type = value.type, ![a].data = value]
    <2>1. out = [block |-> put, list |-> m.list]
      <3>1. out = [m EXCEPT !.block[a].type = value.type, !.block[a].data = value]
        BY <1>7 DEF SetItem
      <3>2. DOMAIN m = {"block", "list"}
        BY <1>1
      <3>3. out = [x \in DOMAIN m |-> IF x = "block" THEN put ELSE m[x]]
        BY <3>1, <3>2
      <3> HIDE DEF out, put
      <3>4. QED
        BY <3>2, <3>3
    <2>2. /\ put[a] = given /\ DOMAIN put = Blocks
          /\ \A x \in Blocks : x # a => put[x] = old[x]
          /\ put = [x \in Blocks |-> put[x]]
      BY <1>1, <1>2, <1>7
    <2> HIDE DEF put, given
    <2>3. Gives(put, old, a, value, b)
      BY <1>4, <1>7, <2>2 DEF Gives
    <2> HIDE DEF out
    <2>4. new = put /\ out.list = m.list /\ out = [block |-> new, list |-> m.list]
      BY <2>1
    <2> HIDE DEF old, new
    <2>5. /\ BlockTypes(new) /\ Owned(new) /\ ItemsOf(new) = ItemsOf(old)
          /\ ValueOf(new, a) = value /\ \A x \in ItemsOf(old) \ {a} : ValueOf(new, x) = ValueOf(old, x)
          /\ \A x \in ItemsOf(old) : new[x].next = old[x].next /\ new[x].prev = old[x].prev
          /\ NoneLost(old) /\ old[a].data \notin Blocks => NoneLost(new)
      <3>1. Gives(new, old, a, value, b)
        BY <2>3, <2>4
      <3>2. BlockTypes(old) /\ Owned(old)
        BY <1>1
      <3>3. QED
        BY <1>5, <3>1, <3>2, GivenBlocks
    <2>6. Chained(new, h, s)
      BY <1>1, <2>5, ChainStays
    <2>7. Placed(out, h, s) /\ out.list = m.list
      BY <1>1, <2>4, <2>5, <2>6 DEF Placed, new
    <2>8. QED
      BY <2>5, <2>7 DEF old, new, out
  <1>8. QED
    BY <1>6, <1>7

\* What the neighbours of the item at k are without it.
LEMMA UnlinkedItem ==
  ASSUME NEW m, NEW h, NEW s, Right(m, h, s), NEW k \in 1 .. Len(s)
  PROVE  LET kept == Unlinked(m, m.block[s[k]])
         IN  \A x \in Blocks :
               kept[x] = IF x = After(s, k) THEN [m.block[x] EXCEPT !.prev = Before(s, k)]
                         ELSE IF x = Before(s, k) THEN [m.block[x] EXCEPT !.next = After(s, k)]
                         ELSE m.block[x]
  <1> DEFINE old == m.block
             item == old[s[k]]
             next == After(s, k)
             prev == Before(s, k)
  <1>1. BlockTypes(old) /\ Chained(old, h, s) /\ DOMAIN old = Blocks /\ IsOrder(s)
    BY DEF Right, Placed, BlockTypes, Chained
  <1>2. item.next = next /\ item.prev = prev
    BY <1>1, OrderedItem
  <1>3. next \in Pointer /\ prev \in Pointer /\ (next # NULL => next # prev)
    <2>1. next # NULL => k + 1 \in 1 .. Len(s) /\ next = s[k + 1] /\ s[k + 1] # prev
      <3>1. Len(s) \in Nat
        BY <1>1, OrderElements
      <3>2. next # NULL => k + 1 \in 1 .. Len(s) /\ next = s[k + 1]
        BY <1>1, Neighbours
      <3>3. \A j \in 1 .. Len(s) : s[j] = prev => j = k - 1
        BY <1>1, Neighbours
      <3>4. k + 1 # k - 1
        BY <3>1
      <3> HIDE DEF next, prev
      <3>5. QED
        BY <3>2, <3>3, <3>4
    <2>2. next \in Pointer /\ prev \in Pointer
      BY <1>1, Neighbours
    <2>3. QED
      BY <2>1, <2>2
  <1>4. NULL \notin Blocks
    BY ListAssumption
  <1> DEFINE behind == IF next = NULL THEN old ELSE [old EXCEPT ![next].prev = prev]
             kept == Unlinked(m, item)
  <1>5. kept = IF prev = NULL THEN behind ELSE [behind EXCEPT ![prev].next = next]
    <2> HIDE DEF next, prev, item
    <2>1. QED
      BY <1>2 DEF Unlinked
  <1> HIDE DEF next, prev, old
  <1>6. /\ DOMAIN behind = Blocks
        /\ \A x \in Blocks : behind[x] = IF x = next THEN [old[x] EXCEPT !.prev = prev] ELSE old[x]
    BY <1>1, <1>3, <1>4 DEF Pointer
  <1> HIDE DEF behind, kept
  <1>7. \A x \in Blocks : kept[x] = IF x = next THEN [old[x] EXCEPT !.prev = prev]
                                    ELSE IF x = prev THEN [old[x] EXCEPT !.next = next]
                                    ELSE old[x]
    <2>1. CASE prev = NULL
      BY <1>4, <1>5, <1>6, <2>1
    <2>2. CASE prev # NULL
      <3>1. prev \in Blocks /\ prev # next
        BY <1>3, <2>2 DEF Pointer
      <3>2. kept = [behind EXCEPT ![prev].next = next]
        BY <1>5, <2>2
      <3>3. kept[prev] = [behind[prev] EXCEPT !.next = next] /\ \A x \in Blocks : x # prev => kept[x] = behind[x]
        BY <1>6, <3>1, <3>2
      <3>4. behind[prev] = old[prev]
        BY <1>6, <3>1
      <3>5. QED
        BY <1>6, <3>1, <3>3, <3>4
    <2>3. QED
      BY <2>1, <2>2
  <1>8. QED
    BY <1>7 DEF kept, next, prev, old

\* first, last and size.
LEMMA EndsOfWithout ==
  ASSUME NEW s, IsOrder(s), NEW k \in 1 .. Len(s), NEW item,
         item.next = After(s, k), item.prev = Before(s, k)
  PROVE  EndsWithout(Ends(s), s[k], item) = Ends(Without(s, k))
  <1> DEFINE t == Without(s, k)
             n == Len(s)
             ends == Ends(s)
  <1>1. /\ s \in Seq(Blocks) /\ n \in Nat /\ n # 0 /\ 1 \in 1 .. n /\ n \in 1 .. n
        /\ \A i, j \in 1 .. n : s[i] = s[j] => i = j
    BY OrderElements
  <1>2. /\ Len(t) = n - 1
        /\ \A i \in 1 .. n - 1 : t[i] = s[IF i < k THEN i ELSE i + 1]
    BY <1>1, WithoutElements
  <1>3. ends.first = s[1] /\ ends.last = s[n] /\ ends.size = n /\ ends = [first |-> s[1], last |-> s[n], size |-> n]
    BY <1>1, EndsFields
  <1>4. (s[k] = ends.first <=> k = 1) /\ (s[k] = ends.last <=> k = n)
    BY <1>1, <1>3
  <1> HIDE DEF t, ends
  <1>5. CASE n = 1
    <2>1. k = 1 /\ Len(t) = 0 /\ n - 1 < 2 /\ n - 1 = 0
      BY <1>1, <1>2, <1>5
    <2>2. After(s, k) = NULL
      BY <1>5, <2>1 DEF After
    <2>3. EndsWithout(ends, s[k], item) = [first |-> item.next, last |-> item.next, size |-> 0]
      BY <1>3, <1>4, <2>1 DEF EndsWithout
    <2>4. Ends(t) = [first |-> NULL, last |-> NULL, size |-> 0]
      BY <2>1 DEF Ends, EmptyList
    <2>5. QED
      BY <2>2, <2>3, <2>4 DEF t, ends
  <1>6. CASE n # 1 /\ k = 1
    <2>1. n - 1 # 0 /\ 1 \in 1 .. n - 1 /\ n - 1 \in 1 .. n - 1 /\ ~(1 < k) /\ ~(n - 1 < k) /\ (n - 1) + 1 = n
      <3>1. n \in Nat /\ n # 0 /\ n # 1 /\ k = 1
        BY <1>1, <1>6
      <3> HIDE DEF n
      <3>2. QED
        BY <3>1
    <2>2. t[1] = s[2] /\ t[n - 1] = s[n] /\ (n - 1 < 2 => n = 2)
      BY <1>1, <1>2, <2>1
    <2>3. After(s, k) = s[2]
      BY <1>6 DEF After
    <2>4. EndsWithout(ends, s[k], item) =
            [first |-> item.next, last |-> IF n - 1 < 2 THEN item.next ELSE ends.last, size |-> n - 1]
      BY <1>3, <1>4, <1>6 DEF EndsWithout
    <2>5. (IF n - 1 < 2 THEN item.next ELSE ends.last) = s[n]
      BY <1>3, <2>2, <2>3
    <2>6. Ends(t) = [first |-> s[2], last |-> s[n], size |-> n - 1]
      BY <1>2, <2>1, <2>2 DEF Ends
    <2>7. QED
      BY <2>3, <2>4, <2>5, <2>6 DEF t, ends
  <1>7. CASE n # 1 /\ k = n
    <2>1. n - 1 # 0 /\ 1 \in 1 .. n - 1 /\ n - 1 \in 1 .. n - 1 /\ 1 < k /\ n - 1 < k /\ k # 1
      BY <1>1, <1>7
    <2>2. t[1] = s[1] /\ t[n - 1] = s[n - 1] /\ (n - 1 < 2 => n - 1 = 1)
      BY <1>1, <1>2, <2>1
    <2>3. Before(s, k) = s[n - 1]
      BY <1>7, <2>1 DEF Before
    <2>4. EndsWithout(ends, s[k], item) =
            [first |-> IF n - 1 < 2 THEN item.prev ELSE ends.first, last |-> item.prev, size |-> n - 1]
      BY <1>3, <1>4, <1>7, <2>1 DEF EndsWithout
    <2>5. (IF n - 1 < 2 THEN item.prev ELSE ends.first) = s[1]
      BY <1>3, <2>2, <2>3
    <2>6. Ends(t) = [first |-> s[1], last |-> s[n - 1], size |-> n - 1]
      BY <1>2, <2>1, <2>2 DEF Ends
    <2>7. QED
      BY <2>3, <2>4, <2>5, <2>6 DEF t, ends
  <1>8. CASE k # 1 /\ k # n
    <2>1. n - 1 # 0 /\ 1 \in 1 .. n - 1 /\ n - 1 \in 1 .. n - 1 /\ 1 < k /\ ~(n - 1 < k) /\ (n - 1) + 1 = n
      BY <1>1, <1>8
    <2>2. t[1] = s[1] /\ t[n - 1] = s[n]
      BY <1>1, <1>2, <2>1
    <2>3. EndsWithout(ends, s[k], item) = [ends EXCEPT !.size = n - 1]
      BY <1>3, <1>4, <1>8 DEF EndsWithout
    <2>4. [ends EXCEPT !.size = n - 1] = [first |-> s[1], last |-> s[n], size |-> n - 1]
      <3> DEFINE f == s[1]
                 e == s[n]
                 c == n - 1
      <3>1. ends = [first |-> f, last |-> e, size |-> n]
        BY <1>3
      <3> HIDE DEF f, e, c, n
      <3>2. DOMAIN ends = {"first", "last", "size"} /\ ends.first = f /\ ends.last = e
        BY <3>1
      <3>3. [ends EXCEPT !.size = c] = [x \in DOMAIN ends |-> IF x = "size" THEN c ELSE ends[x]]
        BY <3>2
      <3>4. [ends EXCEPT !.size = c] = [first |-> f, last |-> e, size |-> c]
        BY <3>2, <3>3
      <3>5. QED
        BY <3>4 DEF f, e, c, n
    <2>5. Ends(t) = [first |-> s[1], last |-> s[n], size |-> n - 1]
      BY <1>2, <2>1, <2>2 DEF Ends
    <2>6. QED
      BY <2>3, <2>4, <2>5 DEF t, ends
  <1>9. QED
    BY <1>5, <1>6, <1>7, <1>8

LEMMA RemoveItemIsRight ==
  ASSUME NEW m, NEW h, NEW s, Right(m, h, s), NEW k \in 1 .. Len(s)
  PROVE  LET new == RemoveItem(m, s[k]).block
         IN  /\ Right(RemoveItem(m, s[k]), h, Without(s, k))
             /\ ItemsOf(new) = ItemsOf(m.block) \ {s[k]}
             /\ \A x \in ItemsOf(new) : ValueOf(new, x) = ValueOf(m.block, x)
             /\ NoneLost(m.block) => NoneLost(new)
  <1> DEFINE old == m.block
             a == s[k]
             item == old[a]
             next == After(s, k)
             prev == Before(s, k)
             kept == Unlinked(m, item)
             freed == FreedWith(a, item)
             out == RemoveItem(m, a)
             new == out.block
  <1>1. BlockTypes(old) /\ Owned(old) /\ Chained(old, h, s) /\ m.list = Ends(s) /\ IsOrder(s)
    BY DEF Right, Placed, Chained
  <1>2. /\ s \in Seq(Blocks) /\ Len(s) \in Nat /\ a \in Blocks /\ a \in ItemsOf(old) /\ a \notin h
        /\ item.next = next /\ item.prev = prev /\ item \in Item
        /\ \A i \in 1 .. Len(s) : s[i] = a => i = k
    BY <1>1, OrderedItem
  <1>3. /\ next \in Pointer /\ prev \in Pointer /\ next # a /\ prev # a
        /\ next # NULL => \E i \in 1 .. Len(s) : next = s[i]
        /\ prev # NULL => \E i \in 1 .. Len(s) : prev = s[i]
        /\ \A i \in 1 .. Len(s) : (s[i] = prev <=> i = k - 1) /\ (s[i] = next <=> i = k + 1)
    BY <1>1, Neighbours
  <1>4. \A x \in Blocks :
          kept[x] = IF x = next THEN [old[x] EXCEPT !.prev = prev]
                    ELSE IF x = prev THEN [old[x] EXCEPT !.next = next]
                    ELSE old[x]
    BY UnlinkedItem
  <1>5. out = [block |-> [x \in Blocks |-> IF x \in freed THEN Free ELSE kept[x]],
               list  |-> EndsWithout(m.list, a, item)]
    BY DEF RemoveItem
  <1>6. out.list = Ends(Without(s, k))
    <2> HIDE DEF a, item, next, prev, out, kept, freed
    <2>1. out.list = EndsWithout(Ends(s), a, item)
      BY <1>1, <1>5
    <2>2. EndsWithout(Ends(s), s[k], item) = Ends(Without(s, k))
      BY <1>1, <1>2, EndsOfWithout DEF next, prev
    <2>3. QED
      BY <2>1, <2>2 DEF a
  <1>7. /\ out = [block |-> new, list |-> out.list] /\ DOMAIN new = Blocks /\ new = [x \in Blocks |-> new[x]]
        /\ \A x \in Blocks : new[x] = IF x \in freed THEN Free ELSE kept[x]
    <2> HIDE DEF a, item, out, kept, freed
    <2>1. QED
      BY <1>5
  <1>8. /\ a \in freed
        /\ \A x \in ItemsOf(old) : x \in freed => x = a
        /\ \A x \in ItemsOf(old) \ {a} : old[x].data \notin freed \cap Blocks
        /\ old[a].data \in Blocks => old[a].data \in freed
    <2>1. a \in freed /\ \A x : x \in freed <=> x = a \/ (x = old[a].data /\ x \in Blocks)
      BY DEF FreedWith
    <2>2. old[a].data \in Blocks => old[old[a].data].kind = "payload"
      BY <1>1, <1>2 DEF Owned
    <2>3. \A x \in ItemsOf(old) : old[x].kind = "item" /\ x \in Blocks
      BY DEF ItemsOf
    <2> HIDE DEF freed, a, old
    <2>4. \A x \in ItemsOf(old) : x \in freed => x = a
      BY <2>1, <2>2, <2>3
    <2>5. ASSUME NEW x \in ItemsOf(old) \ {a}, old[x].data \in freed \cap Blocks
          PROVE  FALSE
      <3>1. old[old[x].data].kind = "payload" /\ \A c \in ItemsOf(old) : old[c].data = old[x].data => c = x
        BY <1>1, <2>5 DEF Owned
      <3>2. old[x].data # a
        BY <1>2, <2>3, <3>1
      <3>3. old[x].data = old[a].data
        BY <2>1, <2>5, <3>2
      <3>4. QED
        BY <1>2, <2>5, <3>1, <3>3
    <2>6. QED
      BY <2>1, <2>4, <2>5
  <1> HIDE DEF old, a, item, next, prev, kept, freed, out, new
  <1>9. \A x \in Blocks : x = next \/ x = prev => x \in ItemsOf(old) /\ old[x] \in Item
    <2>1. NULL \notin Blocks
      BY ListAssumption
    <2>2. \A i \in 1 .. Len(s) : s[i] \in ItemsOf(old) /\ old[s[i]] \in Item
      BY <1>1, OrderedItem
    <2>3. QED
      BY <1>3, <2>1, <2>2
  <1>10. ASSUME NEW x \in Blocks, x \notin freed
         PROVE  /\ old[x].kind # "item" => new[x] = old[x]
                /\ old[x].kind = "item" =>
                     new[x] \in Item /\ new[x].type = old[x].type /\ new[x].data = old[x].data
                /\ old[x].kind = "item" =>
                     /\ new[x].next = IF x = prev /\ x # next THEN next ELSE old[x].next
                     /\ new[x].prev = IF x = next THEN prev ELSE old[x].prev
    <2>1. new[x] = kept[x]
      BY <1>7, <1>10
    <2>2. CASE x = next
      <3> DEFINE was == old[x]
                 linked == [was EXCEPT !.prev = prev]
      <3>1. new[x] = linked /\ was \in Item /\ was.kind = "item"
        BY <1>4, <1>9, <2>1, <2>2 DEF Item
      <3> HIDE DEF was
      <3>2. /\ linked \in Item /\ linked.type = was.type /\ linked.data = was.data
            /\ linked.next = was.next /\ linked.prev = prev
        BY <1>3, <3>1, Relinked
      <3> HIDE DEF linked
      <3>3. QED
        BY <2>2, <3>1, <3>2 DEF was
    <2>3. CASE x # next /\ x = prev
      <3> DEFINE was == old[x]
                 linked == [was EXCEPT !.next = next]
      <3>1. new[x] = linked /\ was \in Item /\ was.kind = "item"
        BY <1>4, <1>9, <2>1, <2>3 DEF Item
      <3> HIDE DEF was
      <3>2. /\ linked \in Item /\ linked.type = was.type /\ linked.data = was.data
            /\ linked.prev = was.prev /\ linked.next = next
        BY <1>3, <3>1, Relinked
      <3> HIDE DEF linked
      <3>3. QED
        BY <2>3, <3>1, <3>2 DEF was
    <2>4. CASE x # next /\ x # prev
      <3>1. new[x] = old[x]
        BY <1>4, <2>1, <2>4
      <3>2. old[x].kind = "item" => old[x] \in Item
        BY <1>1, BlockKinds
      <3>3. QED
        BY <2>4, <3>1, <3>2
    <2>5. QED
      BY <2>2, <2>3, <2>4
  <1>11. Keeps(new, old, freed)
    <2>1. \A x \in Blocks \cap freed : new[x] = Free
      BY <1>7
    <2>2. QED
      BY <1>7, <1>10, <2>1 DEF Keeps
  <1>12. ItemsOf(old) \ freed = ItemsOf(old) \ {a}
    BY <1>8
  <1>13. /\ BlockTypes(new) /\ Owned(new) /\ ItemsOf(new) = ItemsOf(old) \ {a}
         /\ \A x \in ItemsOf(new) : ValueOf(new, x) = ValueOf(old, x)
         /\ NoneLost(old) => NoneLost(new)
    <2>1. \A x \in ItemsOf(old) \ freed : old[x].data \notin freed \cap Blocks
      BY <1>8, <1>12
    <2>2. \A x \in ItemsOf(old) \cap freed : old[x].data \in freed \cup {Unset} \cup Values
      <3>1. old[a].data \in (Values \ Large) \cup {Unset} \cup Blocks
        BY <1>1, <1>2, ItemFields
      <3>2. QED
        BY <1>8, <3>1
    <2>3. QED
      BY <1>1, <1>11, <1>12, <2>1, <2>2, KeptBlocks
  <1>14. Chained(new, h, Without(s, k))
    <2>1. ASSUME NEW i \in 1 .. Len(s), i # k
          PROVE  /\ new[s[i]].next = IF i + 1 = k THEN next ELSE old[s[i]].next
                 /\ new[s[i]].prev = IF i = k + 1 THEN prev ELSE old[s[i]].prev
      <3>1. s[i] \in ItemsOf(old) /\ s[i] \in Blocks /\ s[i] # a
        BY <1>1, <1>2, <2>1, OrderedItem
      <3>2. s[i] \notin freed /\ old[s[i]].kind = "item"
        BY <1>8, <3>1 DEF ItemsOf
      <3>3. (s[i] = prev <=> i + 1 = k) /\ (s[i] = next <=> i = k + 1) /\ ~(i + 1 = k /\ i = k + 1)
        BY <1>2, <1>3
      <3> DEFINE x == s[i]
      <3> HIDE DEF x
      <3>4. /\ new[x].next = IF x = prev /\ x # next THEN next ELSE old[x].next
            /\ new[x].prev = IF x = next THEN prev ELSE old[x].prev
        BY <1>10, <3>1, <3>2 DEF x
      <3>5. QED
        BY <3>3, <3>4 DEF x
    <2>2. ASSUME NEW x \in h
          PROVE  new[x].next = NULL /\ new[x].prev = NULL
      <3>1. x \in ItemsOf(old) /\ x \in Blocks /\ old[x].kind = "item" /\ old[x].next = NULL /\ old[x].prev = NULL
        BY <1>1 DEF Chained, ItemsOf
      <3>2. x # a /\ \A i \in 1 .. Len(s) : s[i] # x
        BY <1>1, <1>2, OrderedItem
      <3>3. x \notin freed /\ x # prev /\ x # next
        <4>1. NULL \notin Blocks
          BY ListAssumption
        <4>2. QED
          BY <1>3, <1>8, <3>1, <3>2, <4>1
      <3>4. QED
        BY <1>10, <3>1, <3>3
    <2>3. /\ ItemsOf(new) = ItemsOf(old) \ {s[k]}
          /\ \A i \in 1 .. Len(s) : i # k =>
               /\ new[s[i]].next = IF i + 1 = k THEN After(s, k) ELSE old[s[i]].next
               /\ new[s[i]].prev = IF i = k + 1 THEN Before(s, k) ELSE old[s[i]].prev
      BY <1>13, <2>1 DEF a, next, prev
    <2>4. QED
      BY <1>1, <2>2, <2>3, ChainWithout
  <1>15. Right(out, h, Without(s, k))
    BY <1>6, <1>7, <1>13, <1>14 DEF Right, Placed, new
  <1>16. QED
    BY <1>13, <1>15 DEF new, out, a, old

LEMMA InsertItemIsRight ==
  ASSUME NEW m, NEW h, NEW s, Right(m, h, s), NEW a \in h, NEW k \in 1 .. Len(s) + 1, NEW position,
         IF Len(s) = 0 THEN position = NULL ELSE k # Len(s) + 1 /\ position = s[k]
  PROVE  LET new == InsertItem(m, position, a).block
         IN  /\ Right(InsertItem(m, position, a), h \ {a}, With(s, k, a))
             /\ ItemsOf(new) = ItemsOf(m.block)
             /\ \A x \in ItemsOf(new) : ValueOf(new, x) = ValueOf(m.block, x)
             /\ NoneLost(m.block) => NoneLost(new)
  <1> DEFINE old == m.block
             n == Len(s)
             out == InsertItem(m, position, a)
             new == out.block
             t == With(s, k, a)
  <1>1. /\ BlockTypes(old) /\ Owned(old) /\ Chained(old, h, s) /\ m.list = Ends(s) /\ IsOrder(s)
        /\ DOMAIN old = Blocks /\ old = [x \in Blocks |-> old[x]]
    BY DEF Right, Placed, Chained, BlockTypes
  <1>2. s \in Seq(Blocks) /\ n \in Nat /\ NULL \notin Blocks
    BY <1>1, OrderElements, ListAssumption
  <1>3. /\ a \in ItemsOf(old) /\ a \in Blocks /\ old[a].next = NULL /\ old[a].prev = NULL /\ old[a] \in Item
        /\ \A i \in 1 .. n : s[i] # a
    <2>1. a \in ItemsOf(old) /\ old[a].next = NULL /\ old[a].prev = NULL
      BY <1>1 DEF Chained
    <2>2. a \in Blocks /\ old[a] \in Item
      BY <1>1, <2>1, ItemFields
    <2>3. \A i \in 1 .. n : s[i] # a
      BY <1>1, OrderedItem
    <2>4. QED
      BY <2>1, <2>2, <2>3
  <1>4. /\ Len(t) = n + 1 /\ t[k] = a
        /\ n # 0 => t[n + 1] = s[n] /\ t[1] = IF k = 1 THEN a ELSE s[1]
    <2>1. /\ Len(With(s, k, a)) = Len(s) + 1
          /\ \A i \in 1 .. Len(s) + 1 :
               With(s, k, a)[i] = IF i < k THEN s[i] ELSE IF i = k THEN a ELSE s[i - 1]
      BY <1>2, <1>3, WithElements
    <2>2. \A i \in 1 .. n + 1 : t[i] = IF i < k THEN s[i] ELSE IF i = k THEN a ELSE s[i - 1]
      BY <2>1
    <2> HIDE DEF t
    <2>3. k \in 1 .. n + 1 /\ (n # 0 => k # n + 1)
      OBVIOUS
    <2> HIDE DEF n
    <2>4. t[k] = a
      BY <1>2, <2>2, <2>3
    <2>5. ASSUME n # 0
          PROVE  t[n + 1] = s[n] /\ t[1] = IF k = 1 THEN a ELSE s[1]
      <3>1. n + 1 \in 1 .. n + 1 /\ ~(n + 1 < k) /\ n + 1 # k /\ (n + 1) - 1 = n /\ 1 \in 1 .. n + 1
            /\ (k # 1 => 1 < k)
        BY <1>2, <2>3, <2>5
      <3>2. t[n + 1] = s[n]
        BY <2>2, <3>1
      <3>3. t[1] = IF k = 1 THEN a ELSE s[1]
        BY <2>2, <3>1
      <3>4. QED
        BY <3>2, <3>3
    <2>6. Len(t) = n + 1
      BY <2>1 DEF t, n
    <2>7. QED
      BY <2>4, <2>5, <2>6
  <1>5. /\ new = [x \in Blocks |-> new[x]] /\ out = [block |-> new, list |-> out.list] /\ out.list = Ends(t)
        /\ \A x \in Blocks :
             /\ old[x].kind # "item" => new[x] = old[x]
             /\ old[x].kind = "item" =>
                  /\ new[x] \in Item /\ new[x].type = old[x].type /\ new[x].data = old[x].data
                  /\ new[x].next = IF n # 0 /\ x = Before(s, k) THEN a
                                   ELSE IF n # 0 /\ x = a THEN s[k] ELSE old[x].next
                  /\ new[x].prev = IF n # 0 /\ x = s[k] THEN a
                                   ELSE IF n # 0 /\ x = a THEN Before(s, k) ELSE old[x].prev
    <2>1. CASE n = 0
      <3>1. /\ m.list.first = NULL /\ m.list.size = 0 /\ position = NULL
        BY <1>1, <2>1, NoEnds
      <3>2. out = [block |-> old, list |-> [first |-> a, last |-> a, size |-> 1]]
        BY <3>1 DEF InsertItem
      <3>3. k = 1
        BY <2>1
      <3>4. Ends(t) = [first |-> a, last |-> a, size |-> 1]
        BY <1>4, <2>1, <3>3 DEF Ends
      <3>5. \A x \in Blocks : old[x].kind = "item" => old[x] \in Item
        BY <1>1, BlockKinds
      <3> HIDE DEF out, old, t
      <3>6. new = old /\ out = [block |-> new, list |-> out.list] /\ out.list = Ends(t)
        BY <3>2, <3>4
      <3> HIDE DEF new
      <3>7. QED
        BY <1>1, <2>1, <3>5, <3>6
    <2>2. CASE n # 0
      <3> DEFINE prev == Before(s, k)
                 next == s[k]
                 wasA == old[a]
                 wasN == old[next]
                 wasP == old[prev]
                 putA == [[wasA EXCEPT !.prev = prev] EXCEPT !.next = next]
                 putN == [wasN EXCEPT !.prev = a]
                 putP == [wasP EXCEPT !.next = a]
      <3>1. k \in 1 .. n /\ position = next
        BY <1>2, <2>2
      <3>2. /\ next \in Blocks /\ next # NULL /\ next # a /\ wasN \in Item /\ wasN.prev = prev
        BY <1>1, <1>3, <3>1, OrderedItem
      <3>3. /\ prev \in Pointer /\ prev # next /\ prev # a
            /\ prev # NULL => prev \in Blocks /\ wasP \in Item
        <4>1. prev \in Pointer /\ prev # next /\ (prev # NULL => k - 1 \in 1 .. n /\ prev = s[k - 1])
          BY <1>1, <3>1, Neighbours
        <4>2. prev # NULL => prev \in Blocks /\ wasP \in Item /\ prev # a
          <5> DEFINE j == k - 1
          <5>1. ASSUME prev # NULL
                PROVE  j \in 1 .. Len(s) /\ prev = s[j]
            BY <4>1, <5>1
          <5> HIDE DEF j
          <5>2. QED
            BY <1>1, <1>3, <5>1, OrderedItem
        <4>3. a # NULL
          BY <1>2, <1>3
        <4>4. QED
          BY <4>1, <4>2, <4>3
      <3>4. /\ m.list = [first |-> s[1], last |-> s[n], size |-> n]
            /\ m.list.first = s[1] /\ m.list.last = s[n] /\ m.list.size = n
            /\ (next = s[1] <=> k = 1)
        <4>1. m.list.first = s[1] /\ m.list.last = s[n] /\ m.list.size = n
              /\ m.list = [first |-> s[1], last |-> s[n], size |-> n]
          BY <1>1, <2>2, EndsFields
        <4>2. 1 \in 1 .. n
          BY <1>2, <2>2
        <4>3. next = s[1] <=> k = 1
          BY <1>1, <3>1, <4>2, OrderedItem
        <4>4. QED
          BY <4>1, <4>3
      <3> DEFINE behind == IF prev = NULL THEN old ELSE [old EXCEPT ![prev].next = a]
                 put == [behind EXCEPT ![a].prev = prev, ![a].next = next, ![next].prev = a]
      <3>5. out = [block |-> put, list |-> [first |-> IF k = 1 THEN a ELSE s[1], last |-> s[n], size |-> n + 1]]
        <4> HIDE DEF prev, next
        <4>1. position # NULL /\ m.block[position].prev = prev
          BY <3>1, <3>2
        <4>2. ~(position = m.list.first /\ m.list.size = 0) /\ (position = m.list.first <=> k = 1)
          BY <2>2, <3>1, <3>4
        <4>3. QED
          BY <3>1, <3>4, <4>1, <4>2 DEF InsertItem
      <3> HIDE DEF prev, next, old
      <3>6. /\ DOMAIN behind = Blocks /\ behind[a] = wasA /\ behind[next] = wasN
            /\ \A x \in Blocks : behind[x] = IF x = prev THEN putP ELSE old[x]
        BY <1>1, <1>2, <1>3, <3>2, <3>3
      <3> HIDE DEF behind, wasA, wasN, wasP, putP
      <3>7. /\ put = [x \in Blocks |-> put[x]] /\ put[a] = putA /\ put[next] = putN
            /\ \A x \in Blocks : x # a /\ x # next => put[x] = behind[x]
        BY <1>3, <3>2, <3>6
      <3> HIDE DEF put
      <3>8. /\ putN \in Item /\ putN.type = wasN.type /\ putN.data = wasN.data
            /\ putN.next = wasN.next /\ putN.prev = a
        <4>1. a \in Pointer
          BY <1>3 DEF Pointer
        <4>2. QED
          BY <3>2, <4>1, Relinked
      <3>9. prev # NULL =>
              /\ putP \in Item /\ putP.type = wasP.type /\ putP.data = wasP.data
              /\ putP.prev = wasP.prev /\ putP.next = a
        <4>1. a \in Pointer
          BY <1>3 DEF Pointer
        <4>2. QED
          BY <3>3, <4>1, Relinked DEF putP
      <3>10. /\ putA \in Item /\ putA.type = wasA.type /\ putA.data = wasA.data
             /\ putA.prev = prev /\ putA.next = next
        <4> DEFINE mid == [wasA EXCEPT !.prev = prev]
        <4>1. wasA \in Item /\ next \in Pointer
          BY <1>3, <3>2 DEF wasA, Pointer
        <4>2. mid \in Item /\ mid.type = wasA.type /\ mid.data = wasA.data /\ mid.prev = prev
          BY <3>3, <4>1, Relinked
        <4> HIDE DEF mid
        <4>3. /\ [mid EXCEPT !.next = next] \in Item /\ [mid EXCEPT !.next = next].type = mid.type
              /\ [mid EXCEPT !.next = next].data = mid.data
              /\ [mid EXCEPT !.next = next].prev = mid.prev /\ [mid EXCEPT !.next = next].next = next
          BY <4>1, <4>2, Relinked
        <4>4. QED
          BY <4>2, <4>3 DEF mid
      <3> HIDE DEF putA, putN
      <3>11. ASSUME NEW x \in Blocks
             PROVE  /\ old[x].kind # "item" => put[x] = old[x]
                    /\ old[x].kind = "item" =>
                         /\ put[x] \in Item /\ put[x].type = old[x].type /\ put[x].data = old[x].data
                         /\ put[x].next = IF x = prev THEN a ELSE IF x = a THEN next ELSE old[x].next
                         /\ put[x].prev = IF x = next THEN a ELSE IF x = a THEN prev ELSE old[x].prev
        <4>1. CASE x = a
          <5>1. old[x] = wasA /\ old[x].kind = "item"
            BY <1>3, <4>1 DEF wasA, ItemsOf
          <5>2. QED
            BY <3>2, <3>3, <3>7, <3>10, <4>1, <5>1
        <4>2. CASE x = next
          <5>1. old[x] = wasN /\ old[x].kind = "item"
            BY <3>2, <4>2 DEF wasN, Item
          <5>2. QED
            BY <3>2, <3>3, <3>7, <3>8, <4>2, <5>1
        <4>3. CASE x = prev
          <5>1. prev # NULL /\ put[x] = putP
            BY <1>2, <3>3, <3>6, <3>7, <4>3
          <5>2. old[x] = wasP /\ old[x].kind = "item"
            BY <3>3, <4>3, <5>1 DEF wasP, Item
          <5>3. QED
            BY <3>3, <3>9, <4>3, <5>1, <5>2
        <4>4. CASE x # a /\ x # next /\ x # prev
          <5>1. put[x] = old[x]
            BY <3>6, <3>7, <4>4
          <5>2. old[x].kind = "item" => old[x] \in Item
            BY <1>1, BlockKinds
          <5>3. QED
            BY <4>4, <5>1, <5>2
        <4>5. QED
          BY <4>1, <4>2, <4>3, <4>4
      <3>12. Ends(t) = [first |-> IF k = 1 THEN a ELSE s[1], last |-> s[n], size |-> n + 1]
        <4>1. n + 1 # 0
          BY <1>2
        <4> HIDE DEF t, n
        <4>2. QED
          BY <1>4, <2>2, <4>1 DEF Ends
      <3> HIDE DEF out, t
      <3>13. new = put /\ out = [block |-> new, list |-> out.list] /\ out.list = Ends(t)
        BY <3>5, <3>12
      <3> HIDE DEF new, n
      <3>14. new = [x \in Blocks |-> new[x]]
        BY <3>7, <3>13
      <3>15. QED
        BY <2>2, <3>11, <3>13, <3>14 DEF prev, next
    <2>3. QED
      BY <2>1, <2>2
  <1> HIDE DEF new, out, old, t
  <1>6. Keeps(new, old, {})
    <2>1. DOMAIN new = Blocks
      BY <1>5
    <2>2. QED
      BY <1>5, <2>1 DEF Keeps
  <1>7. /\ BlockTypes(new) /\ Owned(new) /\ ItemsOf(new) = ItemsOf(old)
        /\ \A x \in ItemsOf(new) : ValueOf(new, x) = ValueOf(old, x)
        /\ NoneLost(old) => NoneLost(new)
    <2>1. ItemsOf(old) \ {} = ItemsOf(old) /\ ItemsOf(old) \cap {} = {} /\ {} \cap Blocks = {}
      OBVIOUS
    <2>2. \A x \in ItemsOf(old) \ {} : old[x].data \notin {} \cap Blocks
      OBVIOUS
    <2>3. QED
      BY <1>1, <1>6, <2>1, <2>2, KeptBlocks
  <1>8. \A x \in ItemsOf(old) : x \in Blocks /\ old[x].kind = "item"
    BY DEF ItemsOf
  <1>9. /\ new[a].next = IF k = Len(s) + 1 THEN NULL ELSE s[k]
        /\ new[a].prev = Before(s, k)
    <2>1. CASE n = 0
      <3>1. k = Len(s) + 1 /\ k = 1
        BY <2>1
      <3>2. Before(s, k) = NULL
        BY <3>1 DEF Before
      <3>3. QED
        BY <1>3, <1>5, <1>8, <2>1, <3>1, <3>2
    <2>2. CASE n # 0
      <3>1. k \in 1 .. Len(s) /\ k # Len(s) + 1
        BY <1>2, <2>2
      <3>2. a # s[k] /\ a # Before(s, k)
        <4>1. a # s[k]
          BY <1>3, <3>1
        <4>2. Before(s, k) # NULL => k - 1 \in 1 .. Len(s) /\ Before(s, k) = s[k - 1]
          BY <1>1, <3>1, Neighbours
        <4>3. QED
          BY <1>2, <1>3, <4>1, <4>2
      <3>3. QED
        BY <1>3, <1>5, <1>8, <2>2, <3>1, <3>2
    <2>3. QED
      BY <2>1, <2>2
  <1>10. ASSUME NEW i \in 1 .. Len(s)
         PROVE  /\ new[s[i]].next = IF i = k - 1 THEN a ELSE old[s[i]].next
                /\ new[s[i]].prev = IF i = k THEN a ELSE old[s[i]].prev
    <2>1. n # 0 /\ k \in 1 .. Len(s)
      BY <1>2
    <2>2. /\ s[i] \in ItemsOf(old) /\ s[i] # a
      BY <1>1, <1>3, OrderedItem
    <2>3. s[i] = Before(s, k) <=> i = k - 1
      BY <1>1, <2>1, Neighbours
    <2>4. s[i] = s[k] <=> i = k
      BY <1>1, <2>1, OrderElements
    <2>5. QED
      BY <1>5, <1>8, <2>1, <2>2, <2>3, <2>4
  <1>11. ASSUME NEW x \in h \ {a}
         PROVE  new[x].next = old[x].next /\ new[x].prev = old[x].prev
    <2>1. x \in ItemsOf(old) /\ x \in Blocks /\ old[x].kind = "item"
      BY <1>1, <1>8 DEF Chained
    <2>2. \A i \in 1 .. Len(s) : s[i] # x
      BY <1>1, OrderedItem
    <2>3. n # 0 => x # s[k] /\ x # Before(s, k)
      <3>1. ASSUME n # 0
            PROVE  x # s[k] /\ x # Before(s, k)
        <4>1. k \in 1 .. Len(s)
          BY <1>2, <3>1
        <4>2. Before(s, k) # NULL => k - 1 \in 1 .. Len(s) /\ Before(s, k) = s[k - 1]
          BY <1>1, <4>1, Neighbours
        <4>3. QED
          BY <1>2, <2>1, <2>2, <4>1, <4>2
      <3>2. QED
        BY <3>1
    <2>4. QED
      BY <1>5, <2>1, <2>3
  <1>12. Chained(new, h \ {a}, With(s, k, a))
    BY <1>1, <1>3, <1>7, <1>9, <1>10, <1>11, ChainWith
  <1>13. Right(out, h \ {a}, t)
    BY <1>5, <1>7, <1>12 DEF Right, Placed, new, t
  <1>14. QED
    BY <1>7, <1>13 DEF new, out, old, t

LEMMA OrderFits ==
  ASSUME NEW s, IsOrder(s)
  PROVE  /\ Len(s) \in Nat /\ Cardinality(Blocks) \in Nat /\ Len(s) <= Cardinality(Blocks)
         /\ Cardinality(1 .. Len(s)) = Len(s)
  <1> DEFINE n == Len(s)
             S == 1 .. n
  <1>1. IsFiniteSet(Blocks) /\ Cardinality(Blocks) \in Nat
    BY ListAssumption, FS_CardinalityType
  <1>2. n \in Nat /\ s \in [1 .. n -> Blocks] /\ \A i, j \in 1 .. n : s[i] = s[j] => i = j
    BY OrderElements
  <1> HIDE DEF n
  <1>3. IsFiniteSet(S) /\ Cardinality(S) = n
    BY <1>2, FS_Interval
  <1>4. ASSUME Cardinality(Blocks) < Cardinality(S)
        PROVE  FALSE
    <2>1. s \in [S -> Blocks]
      BY <1>2
    <2> HIDE DEF S
    <2>2. \E x, y \in S : x # y /\ s[x] = s[y]
      BY <1>1, <1>3, <1>4, <2>1, FS_PigeonHole
    <2>3. QED
      BY <1>2, <2>2 DEF S
  <1>5. n <= Cardinality(Blocks)
    BY <1>1, <1>2, <1>3, <1>4
  <1>6. QED
    BY <1>1, <1>2, <1>3, <1>5 DEF n

\* A step of ClearItems, and the first n steps of it.
Step(before) ==
  IF before.iterator = NULL THEN before
  ELSE [memory   |-> RemoveItem(before.memory, before.iterator),
        iterator |-> before.memory.block[before.iterator].prev]

AreSteps(at, n, first) == at = [k \in 0 .. n |-> IF k = 0 THEN first ELSE Step(at[k - 1])]

LEMMA StepsExist ==
  ASSUME NEW first, NEW n \in Nat
  PROVE  \E at : AreSteps(at, n, first)
  <1> DEFINE Exist == {k \in Nat : \E at : AreSteps(at, k, first)}
  <1>1. 0 \in Exist
    <2> DEFINE at == [k \in 0 .. 0 |-> first]
    <2>1. AreSteps(at, 0, first)
      BY DEF AreSteps
    <2>2. QED
      BY <2>1, Zenon
  <1>2. ASSUME NEW k \in Nat, k \in Exist
        PROVE  k + 1 \in Exist
    <2>1. PICK old : AreSteps(old, k, first)
      BY <1>2
    <2> DEFINE last == Step(old[k])
               at == [j \in 0 .. k + 1 |-> IF j = k + 1 THEN last ELSE old[j]]
    <2>2. \A j \in 0 .. k : old[j] = IF j = 0 THEN first ELSE Step(old[j - 1])
      BY <2>1 DEF AreSteps
    <2>3. at[k + 1] = last /\ \A j \in 0 .. k : at[j] = old[j]
      <3> HIDE DEF last
      <3>1. QED
        OBVIOUS
    <2>4. at = [j \in 0 .. k + 1 |-> at[j]]
      <3> HIDE DEF last
      <3>1. QED
        OBVIOUS
    <2> HIDE DEF at
    <2>5. \A j \in 0 .. k + 1 : at[j] = IF j = 0 THEN first ELSE Step(at[j - 1])
      <3> SUFFICES ASSUME NEW j \in 0 .. k + 1
                   PROVE  at[j] = IF j = 0 THEN first ELSE Step(at[j - 1])
        OBVIOUS
      <3>1. CASE j = k + 1
        <4>1. j # 0 /\ j - 1 = k /\ k \in 0 .. k
          BY <3>1
        <4>2. at[j] = Step(old[k]) /\ old[k] = at[j - 1]
          BY <2>3, <3>1, <4>1
        <4>3. QED
          BY <4>1, <4>2
      <3>2. CASE j # k + 1
        <4>1. j \in 0 .. k /\ (j # 0 => j - 1 \in 0 .. k)
          BY <3>2
        <4>2. QED
          BY <2>2, <2>3, <4>1
      <3>3. QED
        BY <3>1, <3>2
    <2>6. AreSteps(at, k + 1, first)
      BY <2>4, <2>5 DEF AreSteps
    <2>7. QED
      BY <2>6
  <1>3. Nat \subseteq Exist
    <2> HIDE DEF Exist
    <2>1. QED
      BY <1>1, <1>2, SetInduction
  <1>4. QED
    BY <1>3

LEMMA ClearItemsSteps ==
  ASSUME NEW m
  PROVE  \E at : /\ AreSteps(at, Cardinality(Blocks), [memory |-> m, iterator |-> m.list.last])
                 /\ ClearItems(m) = at[Cardinality(Blocks)].memory
  <1> DEFINE n == Cardinality(Blocks)
             first == [memory |-> m, iterator |-> m.list.last]
             Is(f) == f = [k \in 0 .. n |-> IF k = 0 THEN first
                             ELSE LET before == f[k - 1]
                                  IN  IF before.iterator = NULL THEN before
                                      ELSE [memory   |-> RemoveItem(before.memory, before.iterator),
                                            iterator |-> before.memory.block[before.iterator].prev]]
             at == CHOOSE f : Is(f)
  <1>1. ClearItems(m) = at[n].memory
    BY DEF ClearItems
  <1>2. n \in Nat
    BY ListAssumption, FS_CardinalityType
  <1>3. \A f : Is(f) <=> AreSteps(f, n, first)
    BY DEF AreSteps, Step
  <1> HIDE DEF first
  <1>4. \E f : AreSteps(f, n, first)
    <2> HIDE DEF n
    <2>1. QED
      BY <1>2, StepsExist
  <1>5. Is(at)
    <2> HIDE DEF Is
    <2>1. QED
      BY <1>3, <1>4, Zenon
  <1>6. AreSteps(at, n, first)
    <2> HIDE DEF Is, at
    <2>1. QED
      BY <1>3, <1>5
  <1> HIDE DEF at
  <1>7. QED
    BY <1>1, <1>6 DEF first

\* Nothing is left of the list, whatever was in it, and the items held stay.
LEMMA ClearItemsIsRight ==
  ASSUME NEW m, NEW h, NEW s, Right(m, h, s)
  PROVE  /\ Right(ClearItems(m), h, Nothing)
         /\ NoneLost(m.block) => NoneLost(ClearItems(m).block)
  <1> DEFINE C == Cardinality(Blocks)
             n == Len(s)
             first == [memory |-> m, iterator |-> m.list.last]
             Rest(k) == IF k <= n THEN n - k ELSE 0
             Left(state, k, t) ==
               /\ t \in Seq(Blocks) /\ Len(t) = Rest(k) /\ Right(state.memory, h, t)
               /\ state.iterator = Ends(t).last
               /\ NoneLost(m.block) => NoneLost(state.memory.block)
  <1>1. n \in Nat /\ C \in Nat /\ n <= C /\ IsOrder(s) /\ s \in Seq(Blocks)
    BY OrderFits, OrderElements DEF Right, Placed, Chained
  <1>2. PICK at : AreSteps(at, C, first) /\ ClearItems(m) = at[C].memory
    BY ClearItemsSteps
  <1>3. \A k \in 0 .. C : at[k] = IF k = 0 THEN first ELSE Step(at[k - 1])
    <2> HIDE DEF first, C
    <2>1. QED
      BY <1>2 DEF AreSteps
  <1>4. ASSUME NEW state, NEW k \in Nat, NEW t, Left(state, k, t)
        PROVE  \E u : Left(Step(state), k + 1, u)
    <2> DEFINE mem == state.memory
               next == Step(state)
               l == Len(t)
    <2>1. /\ t \in Seq(Blocks) /\ l = Rest(k) /\ Right(mem, h, t) /\ state.iterator = Ends(t).last
          /\ NoneLost(m.block) => NoneLost(mem.block)
      BY <1>4
    <2>2. CASE l = 0
      <3>1. state.iterator = NULL
        BY <2>1, <2>2, NoEnds
      <3>2. next = state
        BY <3>1 DEF Step
      <3>3. Rest(k + 1) = 0
        <4> HIDE DEF l, n
        <4>1. QED
          BY <1>1, <2>1, <2>2
      <3>4. Left(next, k + 1, t)
        <4> HIDE DEF next, Rest
        <4>1. QED
          BY <2>1, <2>2, <3>2, <3>3
      <3>5. QED
        BY <3>4, Zenon
    <2>3. CASE l # 0
      <3> DEFINE u == Without(t, l)
                 a == t[l]
      <3>1. l \in 1 .. l /\ l \in Nat
        BY <2>1, <2>3
      <3>2. /\ BlockTypes(mem.block) /\ Chained(mem.block, h, t) /\ IsOrder(t)
        BY <2>1 DEF Right, Placed, Chained
      <3>3. a # NULL /\ mem.block[a].prev = Before(t, l) /\ state.iterator = a
        <4>1. state.iterator = a
          BY <2>1, <2>3, EndsFields
        <4>2. QED
          BY <3>1, <3>2, <4>1, OrderedItem
      <3>4. next = [memory |-> RemoveItem(mem, a), iterator |-> Before(t, l)]
        BY <3>3 DEF Step
      <3>5. next.memory = RemoveItem(mem, a) /\ next.iterator = Before(t, l)
        <4> HIDE DEF next, a
        <4>1. QED
          BY <3>4
      <3>6. /\ Right(RemoveItem(mem, t[l]), h, u)
            /\ NoneLost(mem.block) => NoneLost(RemoveItem(mem, t[l]).block)
        <4> DEFINE k2 == l
        <4>1. Right(mem, h, t) /\ k2 \in 1 .. Len(t)
          BY <2>1, <3>1
        <4> HIDE DEF k2, mem
        <4>2. /\ Right(RemoveItem(mem, t[k2]), h, Without(t, k2))
              /\ NoneLost(mem.block) => NoneLost(RemoveItem(mem, t[k2]).block)
          BY <4>1, RemoveItemIsRight
        <4>3. QED
          BY <4>2 DEF k2
      <3>7. /\ u \in Seq(Blocks) /\ Len(u) = l - 1
            /\ \A i \in 1 .. l - 1 : u[i] = t[IF i < l THEN i ELSE i + 1]
        BY <2>1, <3>1, WithoutElements
      <3> HIDE DEF u
      <3>8. Before(t, l) = Ends(u).last
        <4>1. CASE l = 1
          <5>1. Len(u) = 0
            BY <3>7, <4>1
          <5>2. Before(t, l) = NULL
            BY <4>1 DEF Before
          <5>3. QED
            BY <5>1, <5>2, NoEnds
        <4>2. CASE l # 1
          <5>1. l - 1 \in 1 .. l - 1 /\ l - 1 < l /\ Len(u) # 0
            BY <3>1, <3>7, <4>2
          <5>2. u[l - 1] = t[l - 1]
            BY <3>7, <5>1
          <5>3. Ends(u).last = u[Len(u)]
            BY <5>1, EndsFields
          <5>4. QED
            BY <3>7, <4>2, <5>2, <5>3 DEF Before
        <4>3. QED
          BY <4>1, <4>2
      <3>9. Rest(k + 1) = l - 1
        <4> HIDE DEF l, n
        <4>1. QED
          BY <1>1, <2>1, <2>3
      <3> HIDE DEF next
      <3>10. Left(next, k + 1, u)
        <4> HIDE DEF Rest, mem, l
        <4>1. QED
          BY <2>1, <3>5, <3>6, <3>7, <3>8, <3>9 DEF a
      <3>11. QED
        BY <3>10, Zenon DEF next
    <2>4. QED
      BY <2>2, <2>3
  <1>5. Left(first, 0, s)
    <2>1. first.memory = m /\ first.iterator = m.list.last /\ m.list = Ends(s)
      BY DEF Right, Placed
    <2>2. Rest(0) = n
      BY <1>1
    <2> HIDE DEF first, Rest
    <2>3. QED
      BY <1>1, <2>1, <2>2
  <1> DEFINE Done == {k \in Nat : k \in 0 .. C => \E t : Left(at[k], k, t)}
  <1> HIDE DEF Left, C, first, n
  <1>6. 0 \in Done
    <2>1. at[0] = first
      BY <1>1, <1>3
    <2>2. QED
      BY <1>5, <2>1
  <1>7. ASSUME NEW k \in Nat, k \in Done
        PROVE  k + 1 \in Done
    <2> SUFFICES ASSUME k + 1 \in 0 .. C
                 PROVE  \E t : Left(at[k + 1], k + 1, t)
      OBVIOUS
    <2>1. k \in 0 .. C /\ (k + 1) - 1 = k /\ k + 1 # 0
      BY <1>1
    <2>2. PICK t : Left(at[k], k, t)
      BY <1>7, <2>1
    <2>3. at[k + 1] = Step(at[k])
      BY <1>3, <2>1
    <2>4. \E u : Left(Step(at[k]), k + 1, u)
      BY <1>4, <2>2
    <2>5. QED
      BY <2>3, <2>4
  <1>8. Nat \subseteq Done
    <2> HIDE DEF Done
    <2>1. QED
      BY <1>6, <1>7, SetInduction
  <1>9. PICK t : Left(at[C], C, t)
    BY <1>1, <1>8
  <1>10. /\ t \in Seq(Blocks) /\ Len(t) = Rest(C) /\ Right(ClearItems(m), h, t)
         /\ NoneLost(m.block) => NoneLost(ClearItems(m).block)
    BY <1>2, <1>9 DEF Left
  <1>11. Rest(C) = 0
    BY <1>1
  <1>12. t = Nothing
    BY <1>10, <1>11, NothingIsSeq
  <1>13. QED
    BY <1>10, <1>12

-----------------------------------------------------------------------------
(* The values in an order *)

\* What an item may hold, and what the items in the order s hold.
Storable == Values \cup {Unset}

Stored(blk, s) == [k \in 1 .. Len(s) |-> ValueOf(blk, s[k])]

LEMMA ValueIsStorable ==
  ASSUME NEW blk, BlockTypes(blk), Owned(blk), NEW a \in ItemsOf(blk)
  PROVE  ValueOf(blk, a) \in Storable
  <1>1. blk[a].data \in (Values \ Large) \cup {Unset} \cup Blocks
    BY ItemFields
  <1>2. CASE blk[a].data \in Blocks
    <2>1. blk[blk[a].data].kind = "payload"
      BY <1>2 DEF Owned
    <2>2. blk[blk[a].data] \in [kind : {"payload"}, bytes : Large]
      BY <1>2, <2>1, BlockKinds
    <2>3. blk[blk[a].data].bytes \in Large
      BY <2>2
    <2>4. QED
      BY <1>2, <2>3, ValuesAreNoAddresses DEF ValueOf, Storable
  <1>3. CASE blk[a].data \notin Blocks
    BY <1>1, <1>3 DEF ValueOf, Storable
  <1>4. QED
    BY <1>2, <1>3

LEMMA StoredIsSeq ==
  ASSUME NEW m, NEW h, NEW s, Placed(m, h, s)
  PROVE  /\ Stored(m.block, s) \in Seq(Storable) /\ Len(Stored(m.block, s)) = Len(s) /\ Len(s) \in Nat
         /\ \A k \in 1 .. Len(s) : Stored(m.block, s)[k] = ValueOf(m.block, s[k])
  <1>1. BlockTypes(m.block) /\ Owned(m.block) /\ Chained(m.block, h, s)
    BY DEF Placed
  <1>2. Len(s) \in Nat
    BY <1>1, OrderElements DEF Chained
  <1>3. \A k \in 1 .. Len(s) : ValueOf(m.block, s[k]) \in Storable
    BY <1>1, OrderedItem, ValueIsStorable
  <1>4. QED
    BY <1>2, <1>3 DEF Stored

\* The items of an order without one of them, with one more, and one of them changed.
LEMMA StoredWithout ==
  ASSUME NEW m, NEW new, NEW h, NEW s, Placed(m, h, s), NEW k \in 1 .. Len(s),
         \A x \in ItemsOf(m.block) \ {s[k]} : ValueOf(new, x) = ValueOf(m.block, x)
  PROVE  Stored(new, Without(s, k)) = Without(Stored(m.block, s), k)
  <1> DEFINE t == Without(s, k)
             v == Stored(m.block, s)
             n == Len(s)
  <1>1. /\ BlockTypes(m.block) /\ Chained(m.block, h, s) /\ n \in Nat /\ s \in Seq(Blocks)
        /\ v \in Seq(Storable) /\ Len(v) = n /\ \A i \in 1 .. n : v[i] = ValueOf(m.block, s[i])
    <2>1. BlockTypes(m.block) /\ Chained(m.block, h, s) /\ IsOrder(s)
      BY DEF Placed, Chained
    <2>2. s \in Seq(Blocks)
      BY <2>1, OrderElements
    <2>3. /\ v \in Seq(Storable) /\ Len(v) = Len(s) /\ Len(s) \in Nat
          /\ \A i \in 1 .. Len(s) : v[i] = ValueOf(m.block, s[i])
      BY StoredIsSeq
    <2>4. QED
      BY <2>1, <2>2, <2>3
  <1>2. Len(t) = n - 1 /\ \A i \in 1 .. n - 1 : t[i] = s[IF i < k THEN i ELSE i + 1]
    BY <1>1, WithoutElements
  <1> HIDE DEF t, v
  <1>3. ASSUME NEW i \in 1 .. n - 1
        PROVE  ValueOf(new, t[i]) = v[IF i < k THEN i ELSE i + 1]
    <2> DEFINE j == IF i < k THEN i ELSE i + 1
    <2>1. j \in 1 .. n /\ j # k
      BY <1>1
    <2>2. t[i] = s[j]
      BY <1>2
    <2> HIDE DEF j
    <2>3. s[j] \in ItemsOf(m.block) /\ s[j] # s[k]
      BY <1>1, <2>1, OrderedItem
    <2>4. QED
      BY <1>1, <2>1, <2>2, <2>3 DEF j
  <1>4. Stored(new, t) = [i \in 1 .. n - 1 |-> ValueOf(new, t[i])]
    BY <1>2 DEF Stored
  <1>5. Without(v, k) = [i \in 1 .. n - 1 |-> v[IF i < k THEN i ELSE i + 1]]
    BY <1>1 DEF Without
  <1>6. QED
    BY <1>3, <1>4, <1>5 DEF t, v

LEMMA StoredWith ==
  ASSUME NEW m, NEW new, NEW h, NEW s, Placed(m, h, s), NEW k \in 1 .. Len(s) + 1, NEW a \in Blocks,
         \A x \in ItemsOf(m.block) \ h : ValueOf(new, x) = ValueOf(m.block, x)
  PROVE  Stored(new, With(s, k, a)) = With(Stored(m.block, s), k, ValueOf(new, a))
  <1> DEFINE t == With(s, k, a)
             v == Stored(m.block, s)
             n == Len(s)
             x == ValueOf(new, a)
  <1>1. /\ BlockTypes(m.block) /\ Chained(m.block, h, s) /\ n \in Nat /\ s \in Seq(Blocks)
        /\ v \in Seq(Storable) /\ Len(v) = n /\ \A i \in 1 .. n : v[i] = ValueOf(m.block, s[i])
    <2>1. BlockTypes(m.block) /\ Chained(m.block, h, s) /\ IsOrder(s)
      BY DEF Placed, Chained
    <2>2. s \in Seq(Blocks)
      BY <2>1, OrderElements
    <2>3. /\ v \in Seq(Storable) /\ Len(v) = Len(s) /\ Len(s) \in Nat
          /\ \A i \in 1 .. Len(s) : v[i] = ValueOf(m.block, s[i])
      BY StoredIsSeq
    <2>4. QED
      BY <2>1, <2>2, <2>3
  <1>2. /\ Len(t) = n + 1
        /\ \A i \in 1 .. n + 1 : t[i] = IF i < k THEN s[i] ELSE IF i = k THEN a ELSE s[i - 1]
    BY <1>1 DEF With
  <1> HIDE DEF t, v
  <1>3. \A j \in 1 .. n : ValueOf(new, s[j]) = v[j]
    BY <1>1, OrderedItem
  <1>4. ASSUME NEW i \in 1 .. n + 1
        PROVE  ValueOf(new, t[i]) = IF i < k THEN v[i] ELSE IF i = k THEN x ELSE v[i - 1]
    <2>1. CASE i < k
      <3>1. i \in 1 .. n
        BY <1>1, <2>1
      <3>2. t[i] = s[i]
        BY <1>2, <2>1
      <3>3. QED
        BY <1>3, <2>1, <3>1, <3>2
    <2>2. CASE i = k
      BY <1>2, <2>2
    <2>3. CASE i > k
      <3>1. i - 1 \in 1 .. n /\ ~(i < k) /\ i # k
        BY <1>1, <2>3
      <3>2. t[i] = s[i - 1]
        BY <1>2, <3>1
      <3>3. QED
        BY <1>3, <3>1, <3>2
    <2>4. QED
      BY <1>1, <2>1, <2>2, <2>3
  <1> HIDE DEF x
  <1>5. Stored(new, t) = [i \in 1 .. n + 1 |-> ValueOf(new, t[i])]
    BY <1>2 DEF Stored
  <1>6. With(v, k, x) = [i \in 1 .. n + 1 |-> IF i < k THEN v[i] ELSE IF i = k THEN x ELSE v[i - 1]]
    BY <1>1 DEF With
  <1>7. Stored(new, t) = With(v, k, x)
    BY <1>4, <1>5, <1>6
  <1>8. QED
    BY <1>7 DEF t, v, x

LEMMA StoredStays ==
  ASSUME NEW m, NEW new, NEW h, NEW s, Placed(m, h, s),
         \A x \in ItemsOf(m.block) \ h : ValueOf(new, x) = ValueOf(m.block, x)
  PROVE  Stored(new, s) = Stored(m.block, s)
  <1>1. BlockTypes(m.block) /\ Chained(m.block, h, s)
    BY DEF Placed
  <1>2. \A k \in 1 .. Len(s) : ValueOf(new, s[k]) = ValueOf(m.block, s[k])
    BY <1>1, OrderedItem
  <1>3. QED
    BY <1>2 DEF Stored

LEMMA StoredSet ==
  ASSUME NEW m, NEW new, NEW h, NEW s, Placed(m, h, s), NEW k \in 1 .. Len(s),
         \A x \in ItemsOf(m.block) \ {s[k]} : ValueOf(new, x) = ValueOf(m.block, x)
  PROVE  Stored(new, s) = [Stored(m.block, s) EXCEPT ![k] = ValueOf(new, s[k])]
  <1> DEFINE value == ValueOf(new, s[k])
             v == Stored(m.block, s)
  <1>1. BlockTypes(m.block) /\ Chained(m.block, h, s)
    BY DEF Placed
  <1>2. \A i \in 1 .. Len(s) : i # k => ValueOf(new, s[i]) = ValueOf(m.block, s[i])
    BY <1>1, OrderedItem
  <1>3. v = [i \in 1 .. Len(s) |-> ValueOf(m.block, s[i])]
    BY DEF Stored
  <1>4. \A i \in 1 .. Len(s) : ValueOf(new, s[i]) = IF i = k THEN value ELSE ValueOf(m.block, s[i])
    BY <1>2
  <1> HIDE DEF value, v
  <1>5. [v EXCEPT ![k] = value] = [i \in 1 .. Len(s) |-> IF i = k THEN value ELSE ValueOf(m.block, s[i])]
    BY <1>3
  <1>6. Stored(new, s) = [v EXCEPT ![k] = value]
    BY <1>4, <1>5 DEF Stored
  <1>7. QED
    BY <1>6 DEF v, value

\* What is added last, and removed again.
LEMMA LastInAndOut ==
  ASSUME NEW S, NEW s \in Seq(S), NEW a \in S
  PROVE  /\ With(s, Len(s) + 1, a) = Append(s, a)
         /\ Len(s) + 1 \in 1 .. Len(With(s, Len(s) + 1, a))
         /\ With(s, Len(s) + 1, a)[Len(s) + 1] = a
         /\ Without(With(s, Len(s) + 1, a), Len(s) + 1) = s
  <1> DEFINE n == Len(s)
             k == n + 1
             t == With(s, k, a)
             u == Without(t, k)
  <1>1. n \in Nat /\ k \in 1 .. n + 1
    OBVIOUS
  <1> HIDE DEF k
  <1>2. /\ t \in Seq(S) /\ Len(t) = n + 1
        /\ \A i \in 1 .. n + 1 : t[i] = IF i < k THEN s[i] ELSE IF i = k THEN a ELSE s[i - 1]
    <2>1. s \in Seq(S) /\ a \in S /\ k \in 1 .. Len(s) + 1
      BY <1>1
    <2>2. With(s, k, a) \in Seq(S)
      BY <2>1, WithElements
    <2>3. /\ Len(With(s, k, a)) = Len(s) + 1
          /\ \A i \in 1 .. Len(s) + 1 :
               With(s, k, a)[i] = IF i < k THEN s[i] ELSE IF i = k THEN a ELSE s[i - 1]
      BY <1>1 DEF With
    <2>4. QED
      BY <2>2, <2>3
  <1> HIDE DEF t
  <1>3. k = n + 1 /\ k \in 1 .. Len(t)
    BY <1>1, <1>2 DEF k
  <1>4. /\ u \in Seq(S) /\ Len(u) = Len(t) - 1
        /\ \A i \in 1 .. Len(t) - 1 : u[i] = t[IF i < k THEN i ELSE i + 1]
    BY <1>2, <1>3, WithoutElements
  <1> HIDE DEF u
  <1>5. t[k] = a /\ \A i \in 1 .. n : t[i] = s[i]
    BY <1>1, <1>2, <1>3
  <1>6. Len(u) = n /\ \A i \in 1 .. n : u[i] = s[i]
    BY <1>1, <1>2, <1>3, <1>4, <1>5
  <1>7. u = s
    BY <1>4, <1>6, SeqEqual
  <1>8. /\ Append(s, a) \in Seq(S) /\ Len(Append(s, a)) = n + 1
        /\ \A i \in 1 .. n + 1 : Append(s, a)[i] = IF i = n + 1 THEN a ELSE s[i]
    OBVIOUS
  <1>9. \A i \in 1 .. n + 1 : t[i] = Append(s, a)[i]
    <2> DEFINE x == Append(s, a)
    <2>1. \A i \in 1 .. n + 1 : x[i] = IF i = n + 1 THEN a ELSE s[i]
      BY <1>8
    <2> HIDE DEF x, n
    <2>2. \A i \in 1 .. n + 1 : t[i] = x[i]
      BY <1>1, <1>3, <1>5, <2>1
    <2>3. QED
      BY <2>2 DEF x, n
  <1>10. t = Append(s, a)
    <2> DEFINE x == Append(s, a)
    <2>1. x \in Seq(S) /\ Len(x) = n + 1 /\ \A i \in 1 .. n + 1 : t[i] = x[i]
      BY <1>8, <1>9
    <2> HIDE DEF x
    <2>2. t = x
      BY <1>2, <2>1, SeqEqual
    <2>3. QED
      BY <2>2 DEF x
  <1>11. QED
    BY <1>3, <1>5, <1>7, <1>10 DEF t, u, k

-----------------------------------------------------------------------------
(* The calls: there is an order again, and what has become of the values. *)

\* A call may make w of the values v.
MayBecome(v, w) ==
  \/ w = v \/ w = Nothing
  \/ \E value \in Values : w = Append(v, value)
  \/ \E value \in Storable : \E k \in 1 .. Len(v) + 1 :
       (Len(v) # 0 => k # Len(v) + 1) /\ w = With(v, k, value)
  \/ \E value \in Values : \E k \in 1 .. Len(v) : w = [v EXCEPT ![k] = value]
  \/ \E k \in 1 .. Len(v) : w = Without(v, k)

LEMMA EndsIsNotNull ==
  ASSUME NEW s, IsOrder(s)
  PROVE  Ends(s) # NULL
  <1> DEFINE S == [first : Blocks \cup {NULL}, last : Blocks \cup {NULL}, size : Nat]
  <1>1. NULL \notin S
    BY ListAssumption
  <1>2. s \in Seq(Blocks) /\ Len(s) \in Nat /\ \A k \in 1 .. Len(s) : s[k] \in Blocks
    BY OrderElements
  <1>3. Ends(s) \in S
    <2>1. CASE Len(s) = 0
      BY <2>1 DEF Ends, EmptyList
    <2>2. CASE Len(s) # 0
      <3> DEFINE f == s[1]
                 e == s[Len(s)]
                 n == Len(s)
      <3>1. 1 \in 1 .. n /\ n \in 1 .. n
        BY <1>2, <2>2
      <3>2. f \in Blocks \cup {NULL} /\ e \in Blocks \cup {NULL} /\ n \in Nat
        BY <1>2, <3>1
      <3>3. Ends(s) = [first |-> f, last |-> e, size |-> n]
        BY <2>2, EndsFields
      <3> HIDE DEF f, e, n
      <3>4. [first |-> f, last |-> e, size |-> n] \in S
        BY <3>2
      <3>5. QED
        BY <3>3, <3>4
    <2>3. QED
      BY <2>1, <2>2
  <1>4. QED
    BY <1>1, <1>3

\* The memory, when the invariant holds.
LEMMA MemoryIsPlaced ==
  ASSUME NEW s, InvFor(s)
  PROVE  /\ Placed(Memory, held, s) /\ Memory.block = block /\ Memory.list = list
         /\ BlockTypes(block) /\ Owned(block) /\ Chained(block, held, s) /\ IsOrder(s) /\ s \in Seq(Blocks)
         /\ (~Overwrites => NoneLost(block))
         /\ list # NULL => Right(Memory, held, s) /\ list = Ends(s)
         /\ list = NULL => s = Nothing
         /\ Items = ItemsOf(block)
  <1>1. Memory.block = block /\ Memory.list = list /\ Memory = [block |-> Memory.block, list |-> Memory.list]
    BY DEF Memory
  <1>2. /\ BlockTypes(block) /\ Owned(block) /\ Chained(block, held, s) /\ (~Overwrites => NoneLost(block))
        /\ list # NULL => list = Ends(s)
        /\ list = NULL => s = Nothing
    BY DEF InvFor, InOrder
  <1>3. Placed(Memory, held, s)
    BY <1>1, <1>2 DEF Placed
  <1>4. list # NULL => Right(Memory, held, s)
    BY <1>1, <1>2, <1>3 DEF Right
  <1>5. IsOrder(s) /\ s \in Seq(Blocks)
    BY <1>2, OrderElements DEF Chained
  <1>6. Items = ItemsOf(block)
    BY DEF Items, ItemsOf
  <1>7. QED
    BY <1>1, <1>2, <1>3, <1>4, <1>5, <1>6

\* The invariant, from what a call leaves.
LEMMA Becomes ==
  ASSUME NEW s, BlockTypes(block'), Owned(block'), Chained(block', held', s),
         ~Overwrites => NoneLost(block'), IF list' = NULL THEN s = Nothing ELSE list' = Ends(s)
  PROVE  InvFor(s)'
  BY DEF InvFor, InOrder

LEMMA BecomesRight ==
  ASSUME NEW m, NEW s, Right(m, held', s), block' = m.block, list' = m.list, ~Overwrites => NoneLost(m.block)
  PROVE  InvFor(s)'
  <1>1. Chained(m.block, held', s) /\ BlockTypes(m.block) /\ Owned(m.block) /\ m.list = Ends(s)
    BY DEF Right, Placed
  <1>2. m.list # NULL
    BY <1>1, EndsIsNotNull DEF Chained
  <1>3. QED
    BY <1>1, <1>2, Becomes

LEMMA CreateStep ==
  ASSUME NEW s, InvFor(s), Create
  PROVE  \E t : InvFor(t)' /\ MayBecome(Stored(block, s), Stored(block', t))
  <1>1. list = NULL /\ list' = EmptyList /\ block' = block /\ held' = held
    BY DEF Create
  <1>2. s = Nothing /\ BlockTypes(block) /\ Owned(block) /\ Chained(block, held, s) /\ (~Overwrites => NoneLost(block))
    BY <1>1, MemoryIsPlaced
  <1>3. Len(s) = 0
    BY <1>2, NothingIsSeq
  <1>4. Ends(s) = EmptyList
    BY <1>3, NoEnds
  <1>5. InvFor(s)'
    BY <1>1, <1>2, <1>4, Becomes
  <1>6. MayBecome(Stored(block, s), Stored(block', s))
    BY <1>1 DEF MayBecome
  <1>7. QED
    BY <1>5, <1>6

LEMMA ClearStep ==
  ASSUME NEW s, InvFor(s), Clear \/ Delete
  PROVE  \E t : InvFor(t)' /\ MayBecome(Stored(block, s), Stored(block', t))
  <1> DEFINE m == ClearItems(Memory)
  <1>1. /\ list # NULL /\ block' = m.block /\ held' = held
        /\ list' = m.list \/ list' = NULL
    BY DEF Clear, Delete, Become
  <1>2. Right(Memory, held, s) /\ Memory.block = block /\ (~Overwrites => NoneLost(block))
    BY <1>1, MemoryIsPlaced
  <1>3. Right(m, held, Nothing) /\ (NoneLost(Memory.block) => NoneLost(m.block))
    BY <1>2, ClearItemsIsRight
  <1>4. Right(m, held', Nothing) /\ (~Overwrites => NoneLost(m.block))
    BY <1>1, <1>2, <1>3
  <1> HIDE DEF m
  <1>5. InvFor(Nothing)'
    <2>1. CASE list' = NULL
      <3>1. BlockTypes(m.block) /\ Owned(m.block) /\ Chained(m.block, held', Nothing)
        BY <1>4 DEF Right, Placed
      <3>2. QED
        BY <1>1, <1>4, <2>1, <3>1, Becomes
    <2>2. CASE list' = m.list
      BY <1>1, <1>4, <2>2, BecomesRight
    <2>3. QED
      BY <1>1, <2>1, <2>2
  <1>6. Stored(block', Nothing) = Nothing
    <2>1. Len(Nothing) = 0
      BY NothingIsSeq
    <2>2. 1 .. 0 = {}
      OBVIOUS
    <2>3. QED
      BY <2>1, <2>2 DEF Stored, Nothing
  <1>7. QED
    BY <1>5, <1>6 DEF MayBecome

\* The item at a is the last one in m.
LEMMA ItemAdded ==
  ASSUME NEW s, InvFor(s), list # NULL, NEW a \in FreeBlocks
  PROVE  LET m == AddItem(Memory, a)
         IN  /\ a \in Blocks /\ Right(m, held, Append(s, a)) /\ a \in ItemsOf(m.block)
             /\ \A x \in ItemsOf(block) : x \in ItemsOf(m.block) /\ x # a /\ ValueOf(m.block, x) = ValueOf(block, x)
             /\ m.block[a].data = Unset
             /\ \A x \in FreeBlocks \ {a} : x \in Blocks /\ m.block[x] = Free
             /\ ~Overwrites => NoneLost(m.block)
  <1> DEFINE m == AddItem(Memory, a)
  <1>1. /\ Right(Memory, held, s) /\ Memory.block = block /\ (~Overwrites => NoneLost(block))
        /\ s \in Seq(Blocks)
    BY MemoryIsPlaced
  <1>2. a \in Blocks /\ Memory.block[a] = Free /\ \A x \in FreeBlocks : x \in Blocks /\ block[x] = Free
    BY <1>1 DEF FreeBlocks
  <1>3. /\ Right(m, held, With(s, Len(s) + 1, a))
        /\ a \notin ItemsOf(block) /\ ItemsOf(m.block) = ItemsOf(block) \cup {a}
        /\ m.block[a].data = Unset
        /\ \A x \in ItemsOf(block) : ValueOf(m.block, x) = ValueOf(block, x)
        /\ \A x \in Blocks \ {a} : block[x] = Free => m.block[x] = Free
        /\ NoneLost(block) => NoneLost(m.block)
    <2> DEFINE n == Memory
    <2>1. Right(n, held, s) /\ n.block[a] = Free
      BY <1>1, <1>2
    <2> HIDE DEF n
    <2>2. /\ Right(AddItem(n, a), held, With(s, Len(s) + 1, a))
          /\ a \notin ItemsOf(n.block) /\ ItemsOf(AddItem(n, a).block) = ItemsOf(n.block) \cup {a}
          /\ AddItem(n, a).block[a].data = Unset
          /\ \A x \in ItemsOf(n.block) : ValueOf(AddItem(n, a).block, x) = ValueOf(n.block, x)
          /\ \A x \in Blocks \ {a} : n.block[x] = Free => AddItem(n, a).block[x] = Free
          /\ NoneLost(n.block) => NoneLost(AddItem(n, a).block)
      BY <1>2, <2>1, AddItemIsRight
    <2>3. n.block = block /\ m = AddItem(n, a)
      BY <1>1 DEF n
    <2> HIDE DEF m
    <2>4. QED
      BY <2>2, <2>3
  <1>4. With(s, Len(s) + 1, a) = Append(s, a)
    BY <1>1, <1>2, LastInAndOut
  <1> HIDE DEF m
  <1>5. QED
    BY <1>1, <1>2, <1>3, <1>4 DEF m

\* Then it has a value.
LEMMA ItemPushed ==
  ASSUME NEW s, InvFor(s), list # NULL, NEW a \in FreeBlocks, NEW value \in Values, NEW b \in Places(value, {a})
  PROVE  LET m == SetItem(AddItem(Memory, a), a, value, b)
         IN  /\ a \in Blocks /\ Right(m, held, Append(s, a)) /\ ValueOf(m.block, a) = value
             /\ \A x \in ItemsOf(block) : x # a /\ ValueOf(m.block, x) = ValueOf(block, x)
             /\ ~Overwrites => NoneLost(m.block)
  <1> DEFINE added == AddItem(Memory, a)
             m == SetItem(added, a, value, b)
  <1>1. /\ a \in Blocks /\ Right(added, held, Append(s, a)) /\ a \in ItemsOf(added.block)
        /\ \A x \in ItemsOf(block) : x \in ItemsOf(added.block) /\ x # a /\ ValueOf(added.block, x) = ValueOf(block, x)
        /\ added.block[a].data = Unset
        /\ \A x \in FreeBlocks \ {a} : x \in Blocks /\ added.block[x] = Free
        /\ ~Overwrites => NoneLost(added.block)
    BY ItemAdded
  <1>2. value \in Large => b \in Blocks /\ added.block[b] = Free
    <2> HIDE DEF added
    <2>1. QED
      BY <1>1 DEF Places
  <1> HIDE DEF added
  <1>3. /\ Placed(m, held, Append(s, a)) /\ m.list = added.list
        /\ ValueOf(m.block, a) = value
        /\ \A x \in ItemsOf(added.block) \ {a} : ValueOf(m.block, x) = ValueOf(added.block, x)
        /\ NoneLost(added.block) /\ added.block[a].data \notin Blocks => NoneLost(m.block)
    <2>1. Placed(added, held, Append(s, a))
      BY <1>1 DEF Right
    <2>2. QED
      BY <1>1, <1>2, <2>1, SetItemIsRight
  <1> HIDE DEF m
  <1>4. Right(m, held, Append(s, a))
    BY <1>1, <1>3 DEF Right
  <1>5. Unset \notin Blocks
    BY ValuesAreNoAddresses
  <1>6. QED
    BY <1>1, <1>3, <1>4, <1>5 DEF m, added

\* And is removed again.
LEMMA ItemPushedAndRemoved ==
  ASSUME NEW s, InvFor(s), NEW a \in Blocks, NEW m, Right(m, held, Append(s, a)),
         \A x \in ItemsOf(block) : x # a /\ ValueOf(m.block, x) = ValueOf(block, x),
         ~Overwrites => NoneLost(m.block), held' = held,
         block' = RemoveItem(m, a).block, list' = RemoveItem(m, a).list
  PROVE  InvFor(s)' /\ Stored(block', s) = Stored(block, s)
  <1> DEFINE t == With(s, Len(s) + 1, a)
             k == Len(s) + 1
             out == RemoveItem(m, a)
  <1>1. Placed(Memory, held, s) /\ Memory.block = block /\ s \in Seq(Blocks)
    BY MemoryIsPlaced
  <1>2. t = Append(s, a) /\ k \in 1 .. Len(t) /\ t[k] = a /\ Without(t, k) = s
    BY <1>1, LastInAndOut
  <1> HIDE DEF t, k
  <1>3. /\ Right(out, held, s)
        /\ \A x \in ItemsOf(out.block) : ValueOf(out.block, x) = ValueOf(m.block, x)
        /\ NoneLost(m.block) => NoneLost(out.block)
    <2>1. Right(m, held, t) /\ k \in 1 .. Len(t)
      BY <1>2
    <2>2. /\ Right(RemoveItem(m, t[k]), held, Without(t, k))
          /\ \A x \in ItemsOf(RemoveItem(m, t[k]).block) :
               ValueOf(RemoveItem(m, t[k]).block, x) = ValueOf(m.block, x)
          /\ NoneLost(m.block) => NoneLost(RemoveItem(m, t[k]).block)
      BY <2>1, RemoveItemIsRight
    <2>3. QED
      BY <1>2, <2>2
  <1> HIDE DEF out
  <1>4. InvFor(s)'
    <2>1. block' = out.block /\ list' = out.list
      BY DEF out
    <2>2. Right(out, held', s) /\ (~Overwrites => NoneLost(out.block))
      BY <1>3
    <2>3. QED
      BY <2>1, <2>2, BecomesRight
  <1>5. Stored(block', s) = Stored(block, s)
    <2>1. block' = out.block
      BY DEF out
    <2>2. Chained(block, held, s) /\ Chained(out.block, held, s) /\ BlockTypes(block) /\ BlockTypes(out.block)
      BY <1>1, <1>3 DEF Right, Placed
    <2>3. \A i \in 1 .. Len(s) : s[i] \in ItemsOf(block) /\ s[i] \in ItemsOf(out.block)
      BY <2>2, OrderedItem
    <2>4. \A i \in 1 .. Len(s) : ValueOf(out.block, s[i]) = ValueOf(block, s[i])
      BY <1>3, <2>3
    <2>5. QED
      BY <2>1, <2>4 DEF Stored
  <1>6. QED
    BY <1>4, <1>5

LEMMA PushBackStep ==
  ASSUME NEW s, InvFor(s), NEW value \in Values, PushBack(value)
  PROVE  \E t : InvFor(t)' /\ MayBecome(Stored(block, s), Stored(block', t))
  <1>1. PICK a \in FreeBlocks : \E b \in Places(value, {a}) : Become(SetItem(AddItem(Memory, a), a, value, b))
    BY DEF PushBack
  <1>2. PICK b \in Places(value, {a}) : Become(SetItem(AddItem(Memory, a), a, value, b))
    BY <1>1
  <1> DEFINE m == SetItem(AddItem(Memory, a), a, value, b)
             t == Append(s, a)
  <1>3. list # NULL /\ held' = held
    BY DEF PushBack
  <1>4. /\ a \in Blocks /\ Right(m, held, t) /\ ValueOf(m.block, a) = value
        /\ \A x \in ItemsOf(block) : x # a /\ ValueOf(m.block, x) = ValueOf(block, x)
        /\ ~Overwrites => NoneLost(m.block)
    BY <1>3, ItemPushed
  <1>5. block' = m.block /\ list' = m.list
    BY <1>2 DEF Become
  <1>6. Placed(Memory, held, s) /\ Memory.block = block /\ s \in Seq(Blocks)
    BY MemoryIsPlaced
  <1>7. t = With(s, Len(s) + 1, a)
    BY <1>4, <1>6, LastInAndOut
  <1> HIDE DEF m, t
  <1>8. InvFor(t)'
    <2>1. Right(m, held', t)
      BY <1>3, <1>4
    <2>2. QED
      BY <1>4, <1>5, <2>1, BecomesRight
  <1>9. Stored(block', t) = Append(Stored(block, s), value)
    <2> DEFINE v == Stored(block, s)
               k == Len(s) + 1
    <2>1. v \in Seq(Storable) /\ Len(v) = Len(s) /\ Len(s) \in Nat
      BY <1>6, StoredIsSeq
    <2>2. k \in 1 .. Len(s) + 1 /\ k = Len(v) + 1
      BY <2>1
    <2>3. t = With(s, k, a)
      BY <1>7
    <2> HIDE DEF v, k
    <2>4. Stored(m.block, With(s, k, a)) = With(v, k, value)
      <3>1. \A x \in ItemsOf(Memory.block) \ held : ValueOf(m.block, x) = ValueOf(Memory.block, x)
        BY <1>4, <1>6
      <3> DEFINE n == Memory
      <3>2. Placed(n, held, s) /\ v = Stored(n.block, s)
        BY <1>6 DEF v
      <3> HIDE DEF n
      <3>3. Stored(m.block, With(s, k, a)) = With(Stored(n.block, s), k, ValueOf(m.block, a))
        BY <1>4, <2>2, <3>1, <3>2, StoredWith DEF n
      <3>4. QED
        BY <1>4, <3>2, <3>3
    <2>5. value \in Storable
      BY DEF Storable
    <2>6. With(v, Len(v) + 1, value) = Append(v, value)
      BY <2>1, <2>5, LastInAndOut
    <2>7. QED
      BY <1>5, <2>2, <2>3, <2>4, <2>6 DEF v
  <1>10. MayBecome(Stored(block, s), Stored(block', t))
    BY <1>9 DEF MayBecome
  <1>11. QED
    BY <1>8, <1>10

LEMMA ConstructorFailsStep ==
  ASSUME NEW s, InvFor(s), NEW value \in Values, ConstructorFails(value)
  PROVE  InvFor(s)' /\ Stored(block', s) = Stored(block, s)
  <1>1. PICK a \in FreeBlocks :
          \E b \in Places(value, {a}) : Become(RemoveItem(SetItem(AddItem(Memory, a), a, value, b), a))
    BY DEF ConstructorFails
  <1>2. PICK b \in Places(value, {a}) : Become(RemoveItem(SetItem(AddItem(Memory, a), a, value, b), a))
    BY <1>1
  <1> DEFINE m == SetItem(AddItem(Memory, a), a, value, b)
  <1>3. list # NULL /\ held' = held
    BY DEF ConstructorFails
  <1>4. /\ a \in Blocks /\ Right(m, held, Append(s, a))
        /\ \A x \in ItemsOf(block) : x # a /\ ValueOf(m.block, x) = ValueOf(block, x)
        /\ ~Overwrites => NoneLost(m.block)
    BY <1>3, ItemPushed
  <1>5. block' = RemoveItem(m, a).block /\ list' = RemoveItem(m, a).list
    BY <1>2 DEF Become
  <1> HIDE DEF m
  <1>6. InvFor(s)' /\ Stored(block', s) = Stored(block, s)
    BY <1>3, <1>4, <1>5, ItemPushedAndRemoved
  <1>7. QED
    BY <1>6

\* Only a string that cannot be stored leaves its item in the list.
LEMMA PushBackFailsStep ==
  ASSUME NEW s, InvFor(s), NEW value \in Values, PushBackFails(value)
  PROVE  \E t : InvFor(t)' /\ ("string" \notin Failing => Stored(block', t) = Stored(block, s))
  <1>1. PICK a \in FreeBlocks :
          Become(IF value.type = "string" THEN AddItem(Memory, a) ELSE RemoveItem(AddItem(Memory, a), a))
    BY DEF PushBackFails
  <1> DEFINE m == AddItem(Memory, a)
  <1>2. list # NULL /\ held' = held /\ value.type \in Failing
    BY DEF PushBackFails
  <1>3. /\ a \in Blocks /\ Right(m, held, Append(s, a))
        /\ \A x \in ItemsOf(block) : x # a /\ ValueOf(m.block, x) = ValueOf(block, x)
        /\ ~Overwrites => NoneLost(m.block)
    BY <1>2, ItemAdded
  <1>4. CASE value.type = "string"
    <2>1. block' = m.block /\ list' = m.list
      BY <1>1, <1>4 DEF Become
    <2> HIDE DEF m
    <2>2. Right(m, held', Append(s, a))
      BY <1>2, <1>3
    <2>3. InvFor(Append(s, a))'
      BY <1>3, <2>1, <2>2, BecomesRight
    <2>4. QED
      BY <1>2, <1>4, <2>3
  <1>5. CASE value.type # "string"
    <2>1. block' = RemoveItem(m, a).block /\ list' = RemoveItem(m, a).list
      BY <1>1, <1>5 DEF Become
    <2> HIDE DEF m
    <2>2. InvFor(s)' /\ Stored(block', s) = Stored(block, s)
      BY <1>2, <1>3, <2>1, ItemPushedAndRemoved
    <2>3. QED
      BY <2>2
  <1>6. QED
    BY <1>4, <1>5

LEMMA CreateItemStep ==
  ASSUME NEW s, InvFor(s), CreateItem
  PROVE  \E t : InvFor(t)' /\ MayBecome(Stored(block, s), Stored(block', t))
  <1>1. PICK a \in FreeBlocks : block' = [block EXCEPT ![a] = NewItem] /\ held' = held \cup {a}
    BY DEF CreateItem
  <1>2. list' = list /\ a \in Blocks /\ block[a] = Free
    BY DEF CreateItem, FreeBlocks
  <1>3. /\ Placed(Memory, held, s) /\ Memory.block = block
        /\ BlockTypes(block) /\ Owned(block) /\ Chained(block, held, s) /\ (~Overwrites => NoneLost(block))
        /\ list # NULL => list = Ends(s)
        /\ list = NULL => s = Nothing
    BY MemoryIsPlaced
  <1> DEFINE new == block'
  <1>4. /\ BlockTypes(new) /\ Owned(new)
        /\ a \notin ItemsOf(block) /\ ItemsOf(new) = ItemsOf(block) \cup {a}
        /\ \A x \in ItemsOf(block) : ValueOf(new, x) = ValueOf(block, x)
        /\ NoneLost(block) => NoneLost(new)
    <2> DEFINE old == block
               mid == [old EXCEPT ![a] = NewItem]
    <2>1. new = mid
      BY <1>1
    <2>2. a \in Blocks /\ old[a] = Free /\ BlockTypes(old) /\ Owned(old)
      BY <1>2, <1>3
    <2> HIDE DEF new, old
    <2>3. /\ BlockTypes(mid) /\ Owned(mid)
          /\ a \notin ItemsOf(old) /\ ItemsOf(mid) = ItemsOf(old) \cup {a}
          /\ ValueOf(mid, a) = Unset /\ \A x \in ItemsOf(old) : ValueOf(mid, x) = ValueOf(old, x)
          /\ NoneLost(old) => NoneLost(mid)
      BY <2>2, NewItemBlocks
    <2> HIDE DEF mid
    <2>4. QED
      BY <2>1, <2>3 DEF old
  <1>5. Chained(new, held \cup {a}, s)
    <2>1. /\ new[a].next = NULL /\ new[a].prev = NULL
          /\ \A x \in Blocks \ {a} : new[x] = block[x]
      BY <1>1, <1>2, <1>3 DEF NewItem, BlockTypes
    <2>2. \A x \in ItemsOf(block) : x \in Blocks \ {a}
      BY <1>4 DEF ItemsOf
    <2> HIDE DEF new
    <2>3. \A x \in ItemsOf(block) : new[x].next = block[x].next /\ new[x].prev = block[x].prev
      BY <2>1, <2>2
    <2>4. QED
      BY <1>2, <1>3, <1>4, <2>1, <2>3, ChainHolds
  <1>6. InvFor(s)'
    BY <1>1, <1>2, <1>3, <1>4, <1>5, Becomes
  <1>7. Stored(new, s) = Stored(block, s)
    <2>1. \A x \in ItemsOf(Memory.block) \ held : ValueOf(new, x) = ValueOf(Memory.block, x)
      BY <1>3, <1>4
    <2> HIDE DEF new
    <2>2. Stored(new, s) = Stored(Memory.block, s)
      BY <1>3, <2>1, StoredStays
    <2>3. QED
      BY <1>3, <2>2
  <1>8. QED
    BY <1>6, <1>7 DEF MayBecome

LEMMA DeleteItemStep ==
  ASSUME NEW s, InvFor(s), NEW a, DeleteItem(a)
  PROVE  \E t : InvFor(t)' /\ MayBecome(Stored(block, s), Stored(block', t))
  <1>1. /\ a \in held /\ (OwnsBlock(block[a]) => Overwrites)
        /\ block' = [block EXCEPT ![a] = Free] /\ held' = held \ {a} /\ list' = list
    BY DEF DeleteItem
  <1>2. /\ Placed(Memory, held, s) /\ Memory.block = block
        /\ BlockTypes(block) /\ Owned(block) /\ Chained(block, held, s) /\ (~Overwrites => NoneLost(block))
        /\ list # NULL => list = Ends(s)
        /\ list = NULL => s = Nothing
    BY MemoryIsPlaced
  <1> DEFINE new == block'
  <1>3. a \in ItemsOf(block) /\ a \in Blocks /\ \A x \in ItemsOf(block) : x \in Blocks /\ block[x].kind = "item" /\ block[x] \in Item
    <2>1. \A x \in ItemsOf(block) : x \in Blocks /\ block[x].kind = "item"
      BY DEF ItemsOf
    <2>2. \A x \in ItemsOf(block) : block[x] \in Item
      BY <1>2, ItemFields
    <2>3. QED
      BY <1>1, <1>2, <2>1, <2>2 DEF Chained
  <1>4. /\ DOMAIN new = Blocks /\ new = [x \in Blocks |-> new[x]] /\ new[a] = Free
        /\ \A x \in Blocks \ {a} : new[x] = block[x]
    BY <1>1, <1>2, <1>3 DEF BlockTypes
  <1> HIDE DEF new
  <1>5. Keeps(new, block, {a})
    <2>1. \A x \in Blocks : block[x].kind = "item" => block[x] \in Item
      BY <1>2, BlockKinds
    <2>2. QED
      BY <1>4, <2>1 DEF Keeps
  <1>6. \A x \in ItemsOf(block) \ {a} : block[x].data \notin {a} \cap Blocks
    <2>1. \A x \in ItemsOf(block) : block[x].data \in Blocks => block[block[x].data].kind = "payload"
      BY <1>2 DEF Owned
    <2>2. QED
      BY <1>3, <2>1
  <1>7. /\ BlockTypes(new) /\ Owned(new) /\ ItemsOf(new) = ItemsOf(block) \ {a}
        /\ \A x \in ItemsOf(new) : ValueOf(new, x) = ValueOf(block, x)
        /\ ~Overwrites => NoneLost(new)
    <2>1. /\ BlockTypes(new) /\ Owned(new) /\ ItemsOf(new) = ItemsOf(block) \ {a}
          /\ \A x \in ItemsOf(new) : ValueOf(new, x) = ValueOf(block, x)
          /\ NoneLost(block) /\ (\A x \in ItemsOf(block) \cap {a} : block[x].data \in {a} \cup {Unset} \cup Values)
               => NoneLost(new)
      BY <1>2, <1>5, <1>6, KeptBlocks
    <2>2. ~Overwrites => block[a].data \in {Unset} \cup Values
      <3>1. block[a].data \in (Values \ Large) \cup {Unset} \cup Blocks
        BY <1>2, <1>3, ItemFields
      <3>2. QED
        BY <1>1, <3>1 DEF OwnsBlock
    <2>3. QED
      BY <1>2, <2>1, <2>2
  <1>8. Chained(new, held \ {a}, s)
    <2>1. /\ IsOrder(s) /\ held \subseteq ItemsOf(block)
          /\ \A x \in Blocks : x \in ItemsOf(block) \ held <=> \E k \in 1 .. Len(s) : s[k] = x
          /\ \A k \in 1 .. Len(s) : block[s[k]].next = After(s, k) /\ block[s[k]].prev = Before(s, k)
          /\ \A x \in held : block[x].next = NULL /\ block[x].prev = NULL
      BY <1>2 DEF Chained
    <2>2. \A k \in 1 .. Len(s) : s[k] \in Blocks /\ s[k] # a
      BY <1>1, <1>2, OrderedItem
    <2>3. \A k \in 1 .. Len(s) : new[s[k]] = block[s[k]]
      BY <1>4, <2>2
    <2>4. \A x \in held \ {a} : new[x] = block[x]
      BY <1>3, <1>4, <2>1
    <2>5. ItemsOf(new) \ (held \ {a}) = ItemsOf(block) \ held
      BY <1>1, <1>7
    <2>6. QED
      BY <1>7, <2>1, <2>3, <2>4, <2>5 DEF Chained
  <1>9. InvFor(s)'
    BY <1>1, <1>2, <1>7, <1>8, Becomes DEF new
  <1>10. Stored(new, s) = Stored(block, s)
    <2>1. \A x \in ItemsOf(Memory.block) \ held : ValueOf(new, x) = ValueOf(Memory.block, x)
      BY <1>1, <1>2, <1>7
    <2>2. Stored(new, s) = Stored(Memory.block, s)
      BY <1>2, <2>1, StoredStays
    <2>3. QED
      BY <1>2, <2>2
  <1>11. QED
    BY <1>9, <1>10 DEF MayBecome, new

LEMMA SetStep ==
  ASSUME NEW s, InvFor(s), NEW a, NEW value \in Values, Set(a, value)
  PROVE  \E t : InvFor(t)' /\ MayBecome(Stored(block, s), Stored(block', t))
  <1>1. PICK b \in Places(value, {}) : Become(SetItem(Memory, a, value, b))
    BY DEF Set
  <1> DEFINE n == Memory
             m == SetItem(n, a, value, b)
  <1>2. /\ a \in Items /\ (OwnsBlock(block[a]) => Overwrites) /\ held' = held
    BY DEF Set
  <1>3. /\ Placed(n, held, s) /\ n.block = block /\ n.list = list /\ a \in ItemsOf(block)
        /\ BlockTypes(block) /\ Chained(block, held, s) /\ (~Overwrites => NoneLost(block))
        /\ list # NULL => list = Ends(s)
        /\ list = NULL => s = Nothing
    BY <1>2, MemoryIsPlaced
  <1> HIDE DEF n
  <1>4. value \in Large => b \in Blocks /\ n.block[b] = Free
    BY <1>3 DEF Places, FreeBlocks
  <1>5. /\ Placed(m, held, s) /\ m.list = n.list
        /\ ValueOf(m.block, a) = value
        /\ \A x \in ItemsOf(n.block) \ {a} : ValueOf(m.block, x) = ValueOf(n.block, x)
        /\ NoneLost(n.block) /\ n.block[a].data \notin Blocks => NoneLost(m.block)
    <2>1. /\ Placed(n, held, s) /\ a \in ItemsOf(n.block) /\ value \in Values
          /\ value \in Large => b \in Blocks /\ n.block[b] = Free
      BY <1>3, <1>4
    <2>2. /\ Placed(m, held, s) /\ m.list = n.list
          /\ ValueOf(m.block, a) = value
      BY <2>1, SetItemIsRight
    <2>3. ASSUME NEW x \in ItemsOf(n.block) \ {a}
          PROVE  ValueOf(m.block, x) = ValueOf(n.block, x)
      BY <2>1, SetItemIsRight
    <2>4. NoneLost(n.block) /\ n.block[a].data \notin Blocks => NoneLost(m.block)
      BY <2>1, SetItemIsRight
    <2>5. QED
      BY <2>2, <2>3, <2>4
  <1>6. block' = m.block /\ list' = m.list
    BY <1>1 DEF Become, n
  <1> HIDE DEF m
  <1>7. InvFor(s)'
    <2>1. ~Overwrites => NoneLost(m.block)
      BY <1>2, <1>3, <1>5 DEF OwnsBlock
    <2>2. QED
      BY <1>2, <1>3, <1>5, <1>6, <2>1, Becomes DEF Placed
  <1>8. MayBecome(Stored(block, s), Stored(block', s))
    <2> DEFINE v == Stored(block, s)
    <2>1. CASE a \in held
      <3>1. Stored(m.block, s) = Stored(n.block, s)
        BY <1>3, <1>5, <2>1, StoredStays
      <3>2. QED
        BY <1>3, <1>6, <3>1 DEF MayBecome
    <2>2. CASE a \notin held
      <3>1. PICK k \in 1 .. Len(s) : s[k] = a
        <4>1. a \in Blocks
          BY <1>3 DEF ItemsOf
        <4>2. QED
          BY <1>3, <2>2, <4>1 DEF Chained
      <3>2. Stored(m.block, s) = [Stored(n.block, s) EXCEPT ![k] = ValueOf(m.block, s[k])]
        BY <1>3, <1>5, <3>1, StoredSet
      <3>3. Len(v) = Len(s)
        BY <1>3, StoredIsSeq
      <3>4. Stored(block', s) = [v EXCEPT ![k] = value]
        BY <1>3, <1>5, <1>6, <3>1, <3>2
      <3>5. k \in 1 .. Len(v)
        BY <3>3
      <3> HIDE DEF v
      <3>6. MayBecome(v, Stored(block', s))
        BY <3>4, <3>5 DEF MayBecome
      <3>7. QED
        BY <3>6 DEF v
    <2>3. QED
      BY <2>1, <2>2
  <1>9. QED
    BY <1>7, <1>8

LEMMA InsertStep ==
  ASSUME NEW s, InvFor(s), NEW a, NEW position, Insert(position, a)
  PROVE  \E t : InvFor(t)' /\ MayBecome(Stored(block, s), Stored(block', t))
  <1> DEFINE n == Memory
             m == InsertItem(n, position, a)
  <1>1. /\ list # NULL /\ a \in held /\ held' = held \ {a}
        /\ IF list.size = 0 THEN position = NULL ELSE position \in Listed
        /\ block' = m.block /\ list' = m.list
    BY DEF Insert, Become
  <1>2. /\ Placed(n, held, s) /\ Right(n, held, s) /\ n.block = block /\ list = Ends(s)
        /\ BlockTypes(block) /\ Owned(block) /\ Chained(block, held, s) /\ (~Overwrites => NoneLost(block))
        /\ Items = ItemsOf(block) /\ s \in Seq(Blocks) /\ IsOrder(s)
    BY <1>1, MemoryIsPlaced
  <1> HIDE DEF n
  <1>3. list.size = Len(s)
    BY <1>2, EndsFields, NoEnds
  <1>4. \E k \in 1 .. Len(s) + 1 : IF Len(s) = 0 THEN position = NULL ELSE k # Len(s) + 1 /\ position = s[k]
    <2>1. Len(s) \in Nat
      BY <1>2
    <2>2. CASE Len(s) = 0
      <3>1. 1 \in 1 .. Len(s) + 1 /\ position = NULL
        BY <1>1, <1>3, <2>2
      <3>2. QED
        BY <2>2, <3>1
    <2>3. CASE Len(s) # 0
      <3>1. position \in ItemsOf(block) \ held /\ position \in Blocks
        BY <1>1, <1>2, <1>3, <2>3 DEF Listed, Items
      <3>2. PICK k \in 1 .. Len(s) : s[k] = position
        BY <1>2, <3>1 DEF Chained
      <3>3. k \in 1 .. Len(s) + 1 /\ k # Len(s) + 1
        BY <2>1
      <3>4. QED
        BY <2>3, <3>2, <3>3
    <2>4. QED
      BY <2>2, <2>3
  <1>5. PICK k \in 1 .. Len(s) + 1 : IF Len(s) = 0 THEN position = NULL ELSE k # Len(s) + 1 /\ position = s[k]
    BY <1>4
  <1> DEFINE t == With(s, k, a)
  <1>6. /\ Right(m, held \ {a}, t)
        /\ ItemsOf(m.block) = ItemsOf(n.block)
        /\ \A x \in ItemsOf(m.block) : ValueOf(m.block, x) = ValueOf(n.block, x)
        /\ NoneLost(n.block) => NoneLost(m.block)
    <2>1. a \in held
      BY <1>1
    <2>2. QED
      BY <1>2, <1>5, <2>1, InsertItemIsRight
  <1> HIDE DEF m, t
  <1>7. InvFor(t)'
    <2>1. Right(m, held', t) /\ (~Overwrites => NoneLost(m.block))
      BY <1>1, <1>2, <1>6
    <2>2. QED
      BY <1>1, <2>1, BecomesRight
  <1>8. a \in ItemsOf(block) /\ a \in Blocks
    BY <1>1, <1>2 DEF Chained, ItemsOf
  <1>9. Stored(block', t) = With(Stored(block, s), k, ValueOf(block, a))
    <2>1. \A x \in ItemsOf(n.block) \ held : ValueOf(m.block, x) = ValueOf(n.block, x)
      BY <1>6
    <2>2. Stored(m.block, With(s, k, a)) = With(Stored(n.block, s), k, ValueOf(m.block, a))
      BY <1>2, <1>8, <2>1, StoredWith
    <2>3. ValueOf(m.block, a) = ValueOf(block, a)
      BY <1>2, <1>6, <1>8
    <2>4. QED
      BY <1>1, <1>2, <2>2, <2>3 DEF t
  <1>10. MayBecome(Stored(block, s), Stored(block', t))
    <2> DEFINE v == Stored(block, s)
    <2>1. Len(v) = Len(s)
      BY <1>2, StoredIsSeq
    <2>2. ValueOf(block, a) \in Storable
      BY <1>2, <1>8, ValueIsStorable
    <2> DEFINE w == Stored(block', t)
               x == ValueOf(block, a)
    <2>3. w = With(v, k, x) /\ x \in Storable /\ k \in 1 .. Len(v) + 1 /\ (Len(v) # 0 => k # Len(v) + 1)
      BY <1>5, <1>9, <2>1, <2>2
    <2> HIDE DEF v, w, x
    <2>4. MayBecome(v, w)
      BY <2>3, Zenon DEF MayBecome
    <2>5. QED
      BY <2>4 DEF v, w
  <1>11. QED
    BY <1>7, <1>10

LEMMA RemoveListedStep ==
  ASSUME NEW s, InvFor(s), NEW a, RemoveListed(a)
  PROVE  \E t : InvFor(t)' /\ MayBecome(Stored(block, s), Stored(block', t))
  <1> DEFINE n == Memory
             m == RemoveItem(n, a)
  <1>1. /\ list # NULL /\ a \in Listed /\ held' = held /\ block' = m.block /\ list' = m.list
    BY DEF RemoveListed, Become
  <1>2. /\ Placed(n, held, s) /\ Right(n, held, s) /\ n.block = block
        /\ Chained(block, held, s) /\ (~Overwrites => NoneLost(block)) /\ Items = ItemsOf(block)
    BY <1>1, MemoryIsPlaced
  <1> HIDE DEF n
  <1>3. PICK k \in 1 .. Len(s) : s[k] = a
    <2>1. a \in Blocks /\ a \in ItemsOf(block) \ held
      BY <1>1, <1>2 DEF Listed, Items
    <2>2. QED
      BY <1>2, <2>1 DEF Chained
  <1> DEFINE t == Without(s, k)
  <1>4. /\ Right(m, held, t)
        /\ ItemsOf(m.block) = ItemsOf(n.block) \ {a}
        /\ \A x \in ItemsOf(m.block) : ValueOf(m.block, x) = ValueOf(n.block, x)
        /\ NoneLost(n.block) => NoneLost(m.block)
    <2>1. /\ Right(RemoveItem(n, s[k]), held, Without(s, k))
          /\ ItemsOf(RemoveItem(n, s[k]).block) = ItemsOf(n.block) \ {s[k]}
          /\ \A x \in ItemsOf(RemoveItem(n, s[k]).block) : ValueOf(RemoveItem(n, s[k]).block, x) = ValueOf(n.block, x)
          /\ NoneLost(n.block) => NoneLost(RemoveItem(n, s[k]).block)
      BY <1>2, RemoveItemIsRight
    <2>2. QED
      BY <1>3, <2>1
  <1> HIDE DEF m, t
  <1>5. InvFor(t)'
    <2>1. Right(m, held', t) /\ (~Overwrites => NoneLost(m.block))
      BY <1>1, <1>2, <1>4
    <2>2. QED
      BY <1>1, <2>1, BecomesRight
  <1>6. Stored(block', t) = Without(Stored(block, s), k)
    <2>1. \A x \in ItemsOf(n.block) \ {s[k]} : ValueOf(m.block, x) = ValueOf(n.block, x)
      BY <1>3, <1>4
    <2>2. Stored(m.block, Without(s, k)) = Without(Stored(n.block, s), k)
      BY <1>2, <2>1, StoredWithout
    <2>3. QED
      BY <1>1, <1>2, <2>2 DEF t
  <1>7. MayBecome(Stored(block, s), Stored(block', t))
    <2> DEFINE v == Stored(block, s)
    <2>1. Len(v) = Len(s)
      BY <1>2, StoredIsSeq
    <2>2. k \in 1 .. Len(v)
      BY <2>1
    <2> HIDE DEF v
    <2>3. MayBecome(v, Stored(block', t))
      BY <1>6, <2>2 DEF MayBecome, v
    <2>4. QED
      BY <2>3 DEF v
  <1>8. QED
    BY <1>5, <1>7

-----------------------------------------------------------------------------
(* The invariant *)

LEMMA InitInv == Init => InvFor(Nothing)
  <1> SUFFICES ASSUME Init
               PROVE  InvFor(Nothing)
    OBVIOUS
  <1>1. block = [a \in Blocks |-> Free] /\ list = NULL /\ held = {}
    BY DEF Init
  <1>2. \A a \in Blocks : block[a] = Free /\ block[a].kind = "free"
    BY <1>1 DEF Free
  <1>3. BlockTypes(block)
    BY <1>1 DEF BlockTypes
  <1>4. ItemsOf(block) = {}
    BY <1>2 DEF ItemsOf
  <1>5. Owned(block) /\ NoneLost(block)
    BY <1>2, <1>4 DEF Owned, NoneLost
  <1>6. Nothing \in Seq(Blocks) /\ Len(Nothing) = 0 /\ 1 .. 0 = {}
    BY NothingIsSeq
  <1>7. Chained(block, held, Nothing)
    BY <1>1, <1>4, <1>6 DEF Chained, IsOrder
  <1>8. QED
    BY <1>1, <1>3, <1>5, <1>7 DEF InvFor, InOrder

\* The failures after which a call has changed nothing.
OnlyCleanFailures == Failing \subseteq {"struct", "construct"}

\* What a call makes of the values, and that one that fails makes nothing of them.
CallMakes(v, w) == MayBecome(v, w) /\ (failed' => w = v)

LEMMA NextStep ==
  ASSUME NEW s, InvFor(s), Next
  PROVE  \E t : InvFor(t)' /\ (OnlyCleanFailures => CallMakes(Stored(block, s), Stored(block', t)))
  <1> DEFINE Goal == \E t : InvFor(t)' /\ (OnlyCleanFailures => CallMakes(Stored(block, s), Stored(block', t)))
  <1>1. ASSUME ~failed', \E t : InvFor(t)' /\ MayBecome(Stored(block, s), Stored(block', t))
        PROVE  Goal
    BY <1>1 DEF CallMakes
  <1>2. \A v : MayBecome(v, v)
    BY DEF MayBecome
  <1>3. CASE Create \/ Clear \/ Delete \/ CreateItem
    <2>1. ~failed'
      BY <1>3 DEF Create, Clear, Delete, CreateItem, Succeeds
    <2>2. \E t : InvFor(t)' /\ MayBecome(Stored(block, s), Stored(block', t))
      BY <1>3, CreateStep, ClearStep, CreateItemStep
    <2>3. QED
      BY <1>1, <2>1, <2>2
  <1>4. ASSUME NEW value \in Values, PushBack(value)
        PROVE  Goal
    <2>1. ~failed'
      BY <1>4 DEF PushBack, Succeeds
    <2>2. QED
      BY <1>1, <1>4, <2>1, PushBackStep
  <1>5. ASSUME NEW value \in Values, PushBackFails(value)
        PROVE  Goal
    <2>1. PICK t : InvFor(t)' /\ ("string" \notin Failing => Stored(block', t) = Stored(block, s))
      BY <1>5, PushBackFailsStep
    <2>2. OnlyCleanFailures => "string" \notin Failing
      BY DEF OnlyCleanFailures
    <2>3. OnlyCleanFailures => CallMakes(Stored(block, s), Stored(block', t))
      BY <1>2, <2>1, <2>2 DEF CallMakes
    <2>4. QED
      BY <2>1, <2>3
  <1>6. ASSUME NEW value \in Values, ConstructorFails(value)
        PROVE  Goal
    <2>1. InvFor(s)' /\ Stored(block', s) = Stored(block, s)
      BY <1>6, ConstructorFailsStep
    <2>2. CallMakes(Stored(block, s), Stored(block', s))
      BY <1>2, <2>1 DEF CallMakes
    <2>3. QED
      BY <2>1, <2>2
  <1>7. ASSUME NEW a \in Blocks, DeleteItem(a)
        PROVE  Goal
    <2>1. ~failed'
      BY <1>7 DEF DeleteItem, Succeeds
    <2>2. QED
      BY <1>1, <1>7, <2>1, DeleteItemStep
  <1>8. ASSUME NEW a \in Blocks, RemoveListed(a)
        PROVE  Goal
    <2>1. ~failed'
      BY <1>8 DEF RemoveListed, Succeeds
    <2>2. QED
      BY <1>1, <1>8, <2>1, RemoveListedStep
  <1>9. ASSUME NEW a \in Blocks, NEW value \in Values, Set(a, value)
        PROVE  Goal
    <2>1. OnlyCleanFailures => ~failed'
      BY <1>9 DEF Set, OnlyCleanFailures
    <2>2. PICK t : InvFor(t)' /\ MayBecome(Stored(block, s), Stored(block', t))
      BY <1>9, SetStep
    <2>3. QED
      BY <2>1, <2>2 DEF CallMakes
  <1>10. ASSUME NEW a \in Blocks, NEW position \in Pointer, Insert(position, a)
         PROVE  Goal
    <2>1. ~failed'
      BY <1>10 DEF Insert, Succeeds
    <2>2. QED
      BY <1>1, <1>10, <2>1, InsertStep
  <1>11. QED
    BY <1>3, <1>4, <1>5, <1>6, <1>7, <1>8, <1>9, <1>10 DEF Next

LEMMA IInvOf ==
  ASSUME NEW s, InvFor(s)
  PROVE  IInv
  BY MemoryIsPlaced DEF IInv

LEMMA IInvHolds == IInv => \E s : InvFor(s)
  BY DEF IInv

\* There is always an order in which the items are chained, each owning what it has.
THEOREM Invariance == Spec => []IInv
  <1>1. Init => IInv
    BY InitInv, IInvOf
  <1>2. IInv /\ [Next]_vars => IInv'
    <2> SUFFICES ASSUME IInv, [Next]_vars
                 PROVE  IInv'
      OBVIOUS
    <2>1. PICK s : InvFor(s)
      BY IInvHolds
    <2>2. \E t : InvFor(t)'
      <3>1. CASE Next
        BY <2>1, <3>1, NextStep
      <3>2. CASE UNCHANGED vars
        <4>1. block' = block /\ list' = list /\ held' = held
          BY <3>2 DEF vars
        <4>2. InvFor(s)'
          <5>1. /\ BlockTypes(block) /\ Owned(block) /\ Chained(block, held, s) /\ (~Overwrites => NoneLost(block))
                /\ IF list = NULL THEN s = Nothing ELSE list = Ends(s)
            BY <2>1 DEF InvFor, InOrder
          <5>2. QED
            BY <4>1, <5>1, Becomes
        <4>3. QED
          BY <4>2
      <3>3. QED
        BY <3>1, <3>2
    <2>3. PICK t : InvFor(t)'
      BY <2>2
    <2>4. t \in Seq(Blocks)
      <3>1. Chained(block', held', t)
        BY <2>3 DEF InvFor, InOrder
      <3>2. QED
        BY <3>1 DEF Chained, IsOrder
    <2>5. QED
      BY <2>3, <2>4 DEF IInv
  <1>3. QED
    BY <1>1, <1>2, PTL DEF Spec
-----------------------------------------------------------------------------
(* What an iteration visits *)

LEMMA VisitedIsTheOrder ==
  ASSUME NEW s, InvFor(s)
  PROVE  Visited = s
  <1>1. /\ BlockTypes(block) /\ Chained(block, held, s) /\ IsOrder(s) /\ s \in Seq(Blocks)
        /\ list # NULL => list = Ends(s)
        /\ list = NULL => s = Nothing
    BY MemoryIsPlaced
  <1>2. CASE list = NULL
    BY <1>1, <1>2 DEF Visited, Nothing
  <1>3. CASE list # NULL
    <2> DEFINE C == Cardinality(Blocks)
               n == Len(s)
               Is(f) == f = [k \in 1 .. C |-> IF k = 1 THEN list.first ELSE NextOf(f[k - 1])]
               known == [k \in 1 .. C |-> IF k <= n THEN s[k] ELSE NULL]
               it == CHOOSE f : Is(f)
    <2>1. Iterator = it
      BY DEF Iterator
    <2>2. n \in Nat /\ C \in Nat /\ n <= C
      BY <1>1, OrderFits
    <2>3. list.first = IF n = 0 THEN NULL ELSE s[1]
      BY <1>1, <1>3, EndsFields, NoEnds
    <2>4. \A k \in 1 .. n : NextOf(s[k]) = After(s, k)
      <3> SUFFICES ASSUME NEW k \in 1 .. n
                   PROVE  NextOf(s[k]) = After(s, k)
        OBVIOUS
      <3>1. s[k] # NULL /\ s[k] \in ItemsOf(block) /\ block[s[k]].next = After(s, k)
        BY <1>1, OrderedItem
      <3>2. QED
        BY <3>1 DEF NextOf, ItemsOf
    <2>5. NextOf(NULL) = NULL
      BY DEF NextOf
    <2>6. ASSUME NEW k \in 1 .. C
          PROVE  (IF k <= n THEN s[k] ELSE NULL) =
                   IF k = 1 THEN list.first
                   ELSE NextOf(IF k - 1 <= n THEN s[k - 1] ELSE NULL)
      <3>1. CASE k = 1
        BY <2>2, <2>3, <3>1
      <3>2. CASE k # 1 /\ k - 1 <= n
        <4>1. k - 1 \in 1 .. n /\ (k <= n <=> k - 1 # n) /\ (k - 1) + 1 = k
          BY <2>2, <3>2
        <4>2. After(s, k - 1) = IF k <= n THEN s[k] ELSE NULL
          BY <4>1 DEF After
        <4>3. QED
          BY <2>4, <3>2, <4>1, <4>2
      <3>3. CASE k # 1 /\ ~(k - 1 <= n)
        <4>1. ~(k <= n)
          BY <2>2, <3>3
        <4>2. QED
          BY <2>5, <3>3, <4>1
      <3>4. QED
        BY <3>1, <3>2, <3>3
    <2> HIDE DEF C, n
    <2>7. Is(known)
      <3>1. \A k \in 1 .. C : known[k] = IF k <= n THEN s[k] ELSE NULL
        OBVIOUS
      <3>2. known = [k \in 1 .. C |-> known[k]]
        OBVIOUS
      <3> HIDE DEF known
      <3>3. ASSUME NEW k \in 1 .. C
            PROVE  known[k] = IF k = 1 THEN list.first ELSE NextOf(known[k - 1])
        <4>1. k # 1 => k - 1 \in 1 .. C
          BY <2>2
        <4>2. QED
          BY <2>6, <3>1, <4>1
      <3>4. QED
        BY <3>2, <3>3
    <2>8. Is(it)
      <3> HIDE DEF Is, known
      <3>1. QED
        BY <2>7, Zenon
    <2> HIDE DEF it
    <2>9. /\ DOMAIN it = 1 .. C
          /\ \A k \in 1 .. C : it[k] = IF k = 1 THEN list.first ELSE NextOf(it[k - 1])
      BY <2>8
    <2> DEFINE Same == {k \in Nat : k \in 1 .. C => it[k] = IF k <= n THEN s[k] ELSE NULL}
    <2>10. 0 \in Same
      BY <2>2
    <2>11. ASSUME NEW k \in Nat, k \in Same
           PROVE  k + 1 \in Same
      <3> SUFFICES ASSUME k + 1 \in 1 .. C
                   PROVE  it[k + 1] = IF k + 1 <= n THEN s[k + 1] ELSE NULL
        OBVIOUS
      <3>1. (k + 1 # 1 => k \in 1 .. C) /\ (k + 1) - 1 = k
        BY <2>2
      <3>2. it[k + 1] = IF k + 1 = 1 THEN list.first ELSE NextOf(it[k])
        BY <2>9, <3>1
      <3>3. k + 1 # 1 => it[k] = IF k <= n THEN s[k] ELSE NULL
        BY <2>11, <3>1
      <3>4. (IF k + 1 <= n THEN s[k + 1] ELSE NULL) =
              IF k + 1 = 1 THEN list.first ELSE NextOf(IF k <= n THEN s[k] ELSE NULL)
        BY <2>6, <3>1
      <3>5. QED
        BY <3>2, <3>3, <3>4
    <2>12. Nat \subseteq Same
      <3> HIDE DEF Same
      <3>1. QED
        BY <2>10, <2>11, SetInduction
    <2>13. \A k \in 1 .. C : it[k] = IF k <= n THEN s[k] ELSE NULL
      BY <2>2, <2>12
    <2>14. \A k \in 1 .. n : s[k] # NULL
      BY <1>1, OrderElements DEF n
    <2>15. {k \in DOMAIN it : it[k] # NULL} = 1 .. n
      BY <2>2, <2>9, <2>13, <2>14
    <2>16. Visited = Restrict(it, 1 .. n)
      BY <1>3, <2>1, <2>15 DEF Visited
    <2>17. Restrict(it, 1 .. n) = [k \in 1 .. n |-> s[k]]
      BY <2>2, <2>13 DEF Restrict
    <2>18. s = [k \in 1 .. n |-> s[k]]
      BY <1>1 DEF n
    <2>19. QED
      BY <2>16, <2>17, <2>18
  <1>4. QED
    BY <1>2, <1>3

LEMMA LinksAgreeFor ==
  ASSUME NEW s, InvFor(s)
  PROVE  LinksAgree
  <1> DEFINE n == Len(s)
  <1>1. /\ Chained(block, held, s) /\ IsOrder(s) /\ s \in Seq(Blocks)
        /\ list # NULL => list = Ends(s)
        /\ Items = ItemsOf(block)
    BY MemoryIsPlaced
  <1>2. n \in Nat /\ DOMAIN s = 1 .. n /\ \A k \in 1 .. n : s[k] \in Blocks
    BY <1>1, OrderElements
  <1>3. ToSet(s) = Listed
    <2>1. Listed \subseteq Blocks
      BY DEF Listed, Items
    <2>2. \A x \in Blocks : x \in Listed <=> \E k \in 1 .. n : s[k] = x
      BY <1>1 DEF Chained, Listed
    <2>3. ToSet(s) = {s[k] : k \in 1 .. n}
      BY <1>2 DEF ToSet
    <2> HIDE DEF n
    <2>4. QED
      BY <1>2, <2>1, <2>2, <2>3
  <1>4. IsInjective(s)
    BY <1>1, <1>2 DEF IsOrder, IsInjective
  <1>5. list # NULL =>
          list = [first |-> IF n = 0 THEN NULL ELSE s[1], last |-> IF n = 0 THEN NULL ELSE s[n], size |-> n]
    <2>1. CASE n = 0
      BY <1>1, <2>1 DEF Ends, EmptyList
    <2>2. CASE n # 0
      BY <1>1, <2>2 DEF Ends
    <2>3. QED
      BY <2>1, <2>2
  <1>6. \A k \in 1 .. n : block[s[k]].prev = IF k = 1 THEN NULL ELSE s[k - 1]
    BY <1>1 DEF Chained, Before
  <1>7. Visited = s
    BY VisitedIsTheOrder
  <1>8. QED
    BY <1>3, <1>4, <1>5, <1>6, <1>7, Zenon DEF LinksAgree

LEMMA OneOwnerFor ==
  ASSUME NEW s, InvFor(s), ~Overwrites
  PROVE  BlocksHaveOneOwner
  <1>1. BlockTypes(block) /\ Owned(block) /\ NoneLost(block) /\ Items = ItemsOf(block)
    BY MemoryIsPlaced
  <1>2. ASSUME NEW a \in Items
        PROVE  block[a].data \notin Large /\ (OwnsBlock(block[a]) => block[block[a].data].kind = "payload")
    <2>1. block[a].data \in (Values \ Large) \cup {Unset} \cup Blocks
      BY <1>1, ItemFields
    <2>2. block[a].data \notin Large
      BY <2>1, ValuesAreNoAddresses
    <2>3. OwnsBlock(block[a]) => block[block[a].data].kind = "payload"
      BY <1>1 DEF Owned, OwnsBlock
    <2>4. QED
      BY <2>2, <2>3
  <1>3. ASSUME NEW b \in Blocks, block[b].kind = "payload"
        PROVE  Cardinality({a \in Items : block[a].data = b}) = 1
    <2>1. PICK a \in Items : block[a].data = b
      BY <1>1, <1>3 DEF NoneLost
    <2>2. \A c \in Items : block[c].data = b => c = a
      BY <1>1, <2>1 DEF Owned
    <2>3. {c \in Items : block[c].data = b} = {a}
      BY <2>1, <2>2
    <2>4. QED
      BY <2>3, FS_Singleton
  <1>4. QED
    BY <1>2, <1>3 DEF BlocksHaveOneOwner

\* Whatever callers do: an iteration visits the items of the list once each, size counts
\* them, and last and the prev pointers lead the same way back.
THEOREM LinksAlwaysAgree == Spec => []LinksAgree
  <1>1. IInv => LinksAgree
    BY IInvHolds, LinksAgreeFor
  <1>2. QED
    BY <1>1, Invariance, PTL

\* If callers do not set or delete items that own a block, every block with a value
\* belongs to one item, and every item that says it has one, has one.
THEOREM OneOwnerPerBlock ==
  ASSUME ~Overwrites
  PROVE  Spec => []BlocksHaveOneOwner
  <1>1. IInv => BlocksHaveOneOwner
    BY IInvHolds, OneOwnerFor
  <1>2. QED
    BY <1>1, Invariance, PTL

-----------------------------------------------------------------------------
(* What ItemSequence makes of a sequence, by Without and With *)

LEMMA RemoveAtIsWithout ==
  ASSUME NEW S, NEW v \in Seq(S), NEW k \in 1 .. Len(v)
  PROVE  Promised!RemoveAt(v, k) = Without(v, k)
  <1> DEFINE first == SubSeq(v, 1, k - 1)
             second == SubSeq(v, k + 1, Len(v))
             n == Len(v)
  <1>1. n \in Nat /\ k \in Nat /\ 1 <= k /\ k <= n
    OBVIOUS
  <1>2. first \in Seq(S) /\ Len(first) = k - 1 /\ \A i \in 1 .. k - 1 : first[i] = v[i]
    <2>1. 1 \in 1 .. Len(v) + 1 /\ k - 1 \in 1 - 1 .. Len(v)
      BY <1>1
    <2>2. /\ SubSeq(v, 1, k - 1) \in Seq(S) /\ Len(SubSeq(v, 1, k - 1)) = (k - 1) - 1 + 1
          /\ \A i \in 1 .. (k - 1) - 1 + 1 : SubSeq(v, 1, k - 1)[i] = v[1 + i - 1]
      BY <2>1, Slice
    <2>3. (k - 1) - 1 + 1 = k - 1 /\ \A i \in 1 .. k - 1 : 1 + i - 1 = i
      BY <1>1
    <2> HIDE DEF first, n
    <2>4. QED
      BY <2>2, <2>3 DEF first
  <1>3. second \in Seq(S) /\ Len(second) = n - k /\ \A i \in 1 .. n - k : second[i] = v[k + i]
    <2>1. k + 1 \in 1 .. Len(v) + 1 /\ Len(v) \in (k + 1) - 1 .. Len(v)
      BY <1>1
    <2>2. /\ SubSeq(v, k + 1, Len(v)) \in Seq(S) /\ Len(SubSeq(v, k + 1, Len(v))) = Len(v) - (k + 1) + 1
          /\ \A i \in 1 .. Len(v) - (k + 1) + 1 : SubSeq(v, k + 1, Len(v))[i] = v[(k + 1) + i - 1]
      BY <2>1, Slice
    <2>3. n - (k + 1) + 1 = n - k /\ \A i \in 1 .. n - k : (k + 1) + i - 1 = k + i
      BY <1>1
    <2> HIDE DEF second
    <2>4. QED
      BY <2>2, <2>3 DEF second
  <1>4. Promised!RemoveAt(v, k) = Then(first, second)
    BY DEF Promised!RemoveAt, Then
  <1> HIDE DEF first, second, n
  <1>5. /\ Then(first, second) \in Seq(S) /\ Len(Then(first, second)) = Len(first) + Len(second)
        /\ \A i \in 1 .. Len(first) : Then(first, second)[i] = first[i]
        /\ \A i \in 1 .. Len(second) : Then(first, second)[Len(first) + i] = second[i]
    <2>1. first \in Seq(S) /\ second \in Seq(S)
      BY <1>2, <1>3
    <2>2. Then(first, second) \in Seq(S) /\ Len(Then(first, second)) = Len(first) + Len(second)
      BY <2>1, ThenProperties
    <2>3. \A i \in 1 .. Len(first) : Then(first, second)[i] = first[i]
      BY <2>1, ThenProperties
    <2>4. \A i \in 1 .. Len(second) : Then(first, second)[Len(first) + i] = second[i]
      BY <2>1, ThenProperties
    <2>5. QED
      BY <2>2, <2>3, <2>4
  <1>6. /\ Without(v, k) \in Seq(S) /\ Len(Without(v, k)) = Len(v) - 1
        /\ \A i \in 1 .. Len(v) - 1 : Without(v, k)[i] = v[IF i < k THEN i ELSE i + 1]
    BY WithoutElements
  <1>7. ASSUME NEW i \in 1 .. n - 1
        PROVE  Then(first, second)[i] = Without(v, k)[i]
    <2>1. Without(v, k)[i] = v[IF i < k THEN i ELSE i + 1]
      BY <1>6 DEF n
    <2>2. CASE i < k
      <3>1. i \in 1 .. k - 1
        BY <1>1, <2>2
      <3>2. QED
        BY <1>2, <1>5, <2>1, <2>2, <3>1
    <2>3. CASE ~(i < k)
      <3> DEFINE j == i - (k - 1)
      <3>1. j \in 1 .. n - k /\ (k - 1) + j = i /\ k + j = i + 1
        BY <1>1, <2>3
      <3> HIDE DEF j
      <3>2. Then(first, second)[(k - 1) + j] = second[j] /\ second[j] = v[k + j]
        BY <1>2, <1>3, <1>5, <3>1
      <3>3. QED
        BY <2>1, <2>3, <3>1, <3>2
    <2>4. QED
      BY <2>2, <2>3
  <1>8. Len(Then(first, second)) = n - 1 /\ Len(Without(v, k)) = n - 1
    BY <1>1, <1>2, <1>3, <1>5, <1>6 DEF n
  <1>9. Then(first, second) = Without(v, k)
    <2> DEFINE s == Then(first, second)
               t == Without(v, k)
    <2>1. s \in Seq(S) /\ t \in Seq(S) /\ Len(s) = Len(t) /\ \A i \in 1 .. Len(s) : s[i] = t[i]
      BY <1>5, <1>6, <1>7, <1>8
    <2> HIDE DEF s, t
    <2>2. s = t
      BY <2>1, SeqEqual
    <2>3. QED
      BY <2>2 DEF s, t
  <1>10. QED
    BY <1>4, <1>9

LEMMA InsertAtIsWith ==
  ASSUME NEW S, NEW v \in Seq(S), NEW k \in 1 .. Len(v) + 1, NEW x \in S
  PROVE  Promised!InsertAt(v, k, x) = With(v, k, x)
  <1> DEFINE first == SubSeq(v, 1, k - 1)
             second == SubSeq(v, k, Len(v))
             one == << x >>
             n == Len(v)
  <1>1. n \in Nat /\ k \in Nat /\ 1 <= k /\ k <= n + 1
    OBVIOUS
  <1>2. first \in Seq(S) /\ Len(first) = k - 1 /\ \A i \in 1 .. k - 1 : first[i] = v[i]
    <2>1. 1 \in 1 .. Len(v) + 1 /\ k - 1 \in 1 - 1 .. Len(v)
      BY <1>1
    <2>2. /\ SubSeq(v, 1, k - 1) \in Seq(S) /\ Len(SubSeq(v, 1, k - 1)) = (k - 1) - 1 + 1
          /\ \A i \in 1 .. (k - 1) - 1 + 1 : SubSeq(v, 1, k - 1)[i] = v[1 + i - 1]
      BY <2>1, Slice
    <2>3. (k - 1) - 1 + 1 = k - 1 /\ \A i \in 1 .. k - 1 : 1 + i - 1 = i
      BY <1>1
    <2> HIDE DEF first, n
    <2>4. QED
      BY <2>2, <2>3 DEF first
  <1>3. second \in Seq(S) /\ Len(second) = n - k + 1 /\ \A i \in 1 .. n - k + 1 : second[i] = v[k + i - 1]
    <2>1. k \in 1 .. Len(v) + 1 /\ Len(v) \in k - 1 .. Len(v)
      BY <1>1
    <2>2. QED
      BY <2>1, Slice
  <1>4. one \in Seq(S) /\ Len(one) = 1 /\ one[1] = x
    OBVIOUS
  <1>5. Promised!InsertAt(v, k, x) = Then(Then(first, one), second)
    BY DEF Promised!InsertAt, Then
  <1> HIDE DEF first, second, one, n
  <1> DEFINE front == Then(first, one)
  <1>6. /\ front \in Seq(S) /\ Len(front) = Len(first) + Len(one)
        /\ \A i \in 1 .. Len(first) : front[i] = first[i]
        /\ \A i \in 1 .. Len(one) : front[Len(first) + i] = one[i]
    <2>1. first \in Seq(S) /\ one \in Seq(S)
      BY <1>2, <1>4
    <2>2. Then(first, one) \in Seq(S) /\ Len(Then(first, one)) = Len(first) + Len(one)
      BY <2>1, ThenProperties
    <2>3. \A i \in 1 .. Len(first) : Then(first, one)[i] = first[i]
      BY <2>1, ThenProperties
    <2>4. \A i \in 1 .. Len(one) : Then(first, one)[Len(first) + i] = one[i]
      BY <2>1, ThenProperties
    <2>5. QED
      BY <2>2, <2>3, <2>4 DEF front
  <1>7. Len(front) = k /\ front[k] = x /\ \A i \in 1 .. k - 1 : front[i] = v[i]
    <2>1. front[(k - 1) + 1] = x /\ (k - 1) + 1 = k
      BY <1>1, <1>2, <1>4, <1>6
    <2> HIDE DEF front
    <2>2. QED
      BY <1>1, <1>2, <1>4, <1>6, <2>1
  <1> HIDE DEF front
  <1>8. /\ Then(front, second) \in Seq(S) /\ Len(Then(front, second)) = Len(front) + Len(second)
        /\ \A i \in 1 .. Len(front) : Then(front, second)[i] = front[i]
        /\ \A i \in 1 .. Len(second) : Then(front, second)[Len(front) + i] = second[i]
    <2>1. front \in Seq(S) /\ second \in Seq(S)
      BY <1>3, <1>6
    <2>2. Then(front, second) \in Seq(S) /\ Len(Then(front, second)) = Len(front) + Len(second)
      BY <2>1, ThenProperties
    <2>3. \A i \in 1 .. Len(front) : Then(front, second)[i] = front[i]
      BY <2>1, ThenProperties
    <2>4. \A i \in 1 .. Len(second) : Then(front, second)[Len(front) + i] = second[i]
      BY <2>1, ThenProperties
    <2>5. QED
      BY <2>2, <2>3, <2>4
  <1>9. /\ With(v, k, x) \in Seq(S) /\ Len(With(v, k, x)) = Len(v) + 1
        /\ \A i \in 1 .. Len(v) + 1 :
             With(v, k, x)[i] = IF i < k THEN v[i] ELSE IF i = k THEN x ELSE v[i - 1]
    BY WithElements
  <1>10. ASSUME NEW i \in 1 .. n + 1
         PROVE  Then(front, second)[i] = With(v, k, x)[i]
    <2>1. With(v, k, x)[i] = IF i < k THEN v[i] ELSE IF i = k THEN x ELSE v[i - 1]
      BY <1>9 DEF n
    <2>2. CASE i <= k
      <3>1. i \in 1 .. k /\ (i # k => i \in 1 .. k - 1)
        BY <1>1, <2>2
      <3>2. Then(front, second)[i] = front[i]
        BY <1>7, <1>8, <3>1
      <3>3. QED
        BY <1>1, <1>7, <2>1, <2>2, <3>1, <3>2
    <2>3. CASE ~(i <= k)
      <3> DEFINE j == i - k
      <3>1. j \in 1 .. n - k + 1 /\ k + j = i /\ k + j - 1 = i - 1
        BY <1>1, <2>3
      <3> HIDE DEF j
      <3>2. Then(front, second)[k + j] = second[j] /\ second[j] = v[k + j - 1]
        BY <1>3, <1>7, <1>8, <3>1
      <3>3. ~(i < k) /\ i # k
        BY <1>1, <2>3
      <3>4. QED
        BY <2>1, <3>1, <3>2, <3>3
    <2>4. QED
      BY <1>1, <2>2, <2>3
  <1>11. Len(Then(front, second)) = n + 1 /\ Len(With(v, k, x)) = n + 1
    BY <1>1, <1>3, <1>7, <1>8, <1>9 DEF n
  <1>12. Then(front, second) = With(v, k, x)
    <2> DEFINE s == Then(front, second)
               t == With(v, k, x)
    <2>1. s \in Seq(S) /\ t \in Seq(S) /\ Len(s) = Len(t) /\ \A i \in 1 .. Len(s) : s[i] = t[i]
      BY <1>8, <1>9, <1>10, <1>11
    <2> HIDE DEF s, t
    <2>2. s = t
      BY <2>1, SeqEqual
    <2>3. QED
      BY <2>2 DEF s, t
  <1>13. QED
    BY <1>5, <1>12 DEF front

LEMMA MayBecomeIsPromised ==
  ASSUME NEW v \in Seq(Storable), NEW w, MayBecome(v, w), w # v
  PROVE  w \in Promised!PushedBack(v) \cup Promised!Inserted(v) \cup Promised!WasSet(v)
                 \cup Promised!Removed(v) \cup {<< >>}
  <1>1. CASE w = Nothing
    BY <1>1 DEF Nothing
  <1>2. CASE \E value \in Values : w = Append(v, value)
    BY <1>2 DEF Promised!PushedBack
  <1>3. ASSUME NEW value \in Storable, NEW k \in 1 .. Len(v) + 1,
               Len(v) # 0 => k # Len(v) + 1, w = With(v, k, value)
        PROVE  w \in Promised!Inserted(v)
    <2>1. Promised!InsertAt(v, k, value) = With(v, k, value)
      BY InsertAtIsWith
    <2>2. k \in IF v = << >> THEN {1} ELSE DOMAIN v
      <3>1. CASE Len(v) = 0
        <4>1. v = << >>
          BY <3>1, NothingIsSeq DEF Nothing
        <4>2. k = 1
          BY <3>1
        <4>3. QED
          BY <4>1, <4>2
      <3>2. CASE Len(v) # 0
        <4>1. v # << >> /\ DOMAIN v = 1 .. Len(v) /\ k \in 1 .. Len(v)
          BY <1>3, <3>2
        <4>2. QED
          BY <4>1
      <3>3. QED
        BY <3>1, <3>2
    <2>3. value \in Values \cup {Unset}
      BY DEF Storable
    <2> DEFINE K == IF v = << >> THEN {1} ELSE DOMAIN v
    <2>4. Promised!Inserted(v) = {Promised!InsertAt(v, j, x) : j \in K, x \in Values \cup {Unset}}
      BY DEF Promised!Inserted
    <2> HIDE DEF K
    <2>5. QED
      BY <1>3, <2>1, <2>2, <2>3, <2>4 DEF K
  <1>4. CASE \E value \in Values : \E k \in 1 .. Len(v) : w = [v EXCEPT ![k] = value]
    <2>1. PICK value \in Values, k \in 1 .. Len(v) : w = [v EXCEPT ![k] = value]
      BY <1>4
    <2>2. k \in DOMAIN v
      OBVIOUS
    <2> DEFINE changed(j, x) == [v EXCEPT ![j] = x]
    <2>3. Promised!WasSet(v) = {changed(j, x) : j \in DOMAIN v, x \in Values} /\ w = changed(k, value)
      BY <2>1 DEF Promised!WasSet
    <2> HIDE DEF changed
    <2>4. QED
      BY <2>2, <2>3
  <1>5. CASE \E k \in 1 .. Len(v) : w = Without(v, k)
    <2>1. PICK k \in 1 .. Len(v) : w = Without(v, k)
      BY <1>5
    <2>2. Promised!RemoveAt(v, k) = Without(v, k) /\ k \in DOMAIN v
      BY RemoveAtIsWithout
    <2>3. QED
      BY <2>1, <2>2 DEF Promised!Removed
  <1>6. \/ w = Nothing
        \/ \E value \in Values : w = Append(v, value)
        \/ \E value \in Storable : \E k \in 1 .. Len(v) + 1 :
             (Len(v) # 0 => k # Len(v) + 1) /\ w = With(v, k, value)
        \/ \E value \in Values : \E k \in 1 .. Len(v) : w = [v EXCEPT ![k] = value]
        \/ \E k \in 1 .. Len(v) : w = Without(v, k)
    BY Zenon DEF MayBecome
  <1>7. QED
    BY <1>1, <1>2, <1>3, <1>4, <1>5, <1>6

\* What a char holds.
Chars == IF SignedChar THEN -128 .. 127 ELSE 0 .. 255

\* The digits that are stored are values of a char, the member byte of the union.
DigitsFitByte == \A value \in Values : value.type = "digit" => \E n \in Chars : value = [type |-> "digit", of |-> n]

LEMMA DigitIsRead ==
  ASSUME NEW value, NEW n \in Chars, value = [type |-> "digit", of |-> n]
  PROVE  [value EXCEPT !.of = LowByte(@)] = value
  <1>1. /\ value.of = n
        /\ SignedChar => ((n + 128) % 256) - 128 = n
        /\ ~SignedChar => n % 256 = n
    BY DEF Chars
  <1>2. LowByte(value.of) = n
    BY <1>1 DEF LowByte
  <1>3. [value EXCEPT !.of = LowByte(@)] = [value EXCEPT !.of = value.of]
    BY <1>1, <1>2
  <1>4. [value EXCEPT !.of = value.of] = value
    OBVIOUS
  <1>5. QED
    BY <1>3, <1>4

LEMMA GetReturnsTheValue ==
  ASSUME NEW s, InvFor(s), NEW a \in ItemsOf(block), DigitsFitByte
  PROVE  Get(a) = ValueOf(block, a)
  <1> DEFINE item == block[a]
             value == ValueOf(block, a)
  <1>1. BlockTypes(block) /\ Owned(block)
    BY MemoryIsPlaced
  <1>2. value \in Storable /\ item.type = TypeOf(value)
    BY <1>1, ValueIsStorable DEF Owned
  <1>3. item.data \notin Blocks => value = item.data
    BY DEF ValueOf
  <1>4. item.data \in Blocks => value = block[item.data].bytes
    BY DEF ValueOf
  <1>5. item.data \in Blocks => value \in Large
    <2>1. ASSUME item.data \in Blocks
          PROVE  value \in Large
      <3>1. block[item.data].kind = "payload"
        BY <1>1, <2>1 DEF Owned
      <3>2. block[item.data] \in [kind : {"payload"}, bytes : Large]
        BY <1>1, <2>1, <3>1, BlockKinds
      <3>3. QED
        BY <1>4, <2>1, <3>2
    <2>2. QED
      BY <2>1
  <1>6. value \in Large => value.type \in {"string", "struct"} /\ value \in Values
    BY ListAssumption
  <1>7. value \in Values => value # Unset /\ value.type = TypeOf(value) /\ value.type # "unknown"
    BY ListAssumption DEF TypeOf
  <1>8. value = Unset => TypeOf(value) = "unknown"
    BY DEF TypeOf
  <1>9. Get(a) = CASE item.type = "unknown" -> Unset
                   [] item.type = "digit"   -> [item.data EXCEPT !.of = LowByte(@)]
                   [] OTHER -> IF item.data \in Blocks THEN block[item.data].bytes ELSE item.data
    BY DEF Get, OwnsBlock
  <1>10. value \in Values \/ value = Unset
    BY <1>2 DEF Storable
  <1> HIDE DEF value, item
  <1>11. CASE item.type = "unknown"
    <2>1. value = Unset
      BY <1>2, <1>7, <1>10, <1>11
    <2>2. Get(a) = Unset
      BY <1>9, <1>11, Zenon
    <2>3. QED
      BY <2>1, <2>2 DEF value
  <1>12. CASE item.type = "digit"
    <2>1. value \in Values /\ value.type = "digit"
      BY <1>2, <1>7, <1>8, <1>10, <1>12
    <2>2. item.data \notin Blocks /\ value = item.data
      BY <1>3, <1>5, <1>6, <2>1
    <2>3. PICK n \in Chars : value = [type |-> "digit", of |-> n]
      BY <2>1 DEF DigitsFitByte
    <2>4. [value EXCEPT !.of = LowByte(@)] = value
      BY <2>3, DigitIsRead
    <2>5. Get(a) = [item.data EXCEPT !.of = LowByte(@)]
      BY <1>9, <1>12
    <2>6. QED
      BY <2>2, <2>4, <2>5 DEF value
  <1>13. CASE item.type # "unknown" /\ item.type # "digit"
    <2>1. Get(a) = IF item.data \in Blocks THEN block[item.data].bytes ELSE item.data
      BY <1>9, <1>13
    <2>2. QED
      BY <1>3, <1>4, <2>1 DEF value
  <1>14. QED
    BY <1>11, <1>12, <1>13

\* What callers see are the values in the order.
LEMMA ContentsAreStored ==
  ASSUME NEW s, InvFor(s), DigitsFitByte
  PROVE  Contents = Stored(block, s)
  <1>1. Visited = s
    BY VisitedIsTheOrder
  <1>2. Contents = [k \in DOMAIN s |-> Get(s[k])]
    BY <1>1 DEF Contents
  <1>3. BlockTypes(block) /\ Chained(block, held, s) /\ IsOrder(s) /\ s \in Seq(Blocks)
    BY MemoryIsPlaced
  <1>4. DOMAIN s = 1 .. Len(s)
    BY <1>3
  <1>5. ASSUME NEW k \in 1 .. Len(s)
        PROVE  Get(s[k]) = ValueOf(block, s[k])
    <2>1. s[k] \in ItemsOf(block)
      BY <1>3, OrderedItem
    <2>2. QED
      BY <2>1, GetReturnsTheValue
  <1>6. QED
    BY <1>2, <1>4, <1>5 DEF Stored

FailedType == failed \in BOOLEAN

LEMMA FailedIsBoolean == FailedType /\ [Next]_vars => FailedType'
  BY DEF FailedType, Next, vars, Create, Clear, Delete, CreateItem, PushBack, PushBackFails, ConstructorFails, DeleteItem,
         RemoveListed, Set, Insert, Succeeds, Fails

\* Each step is one of ItemSequence.
LEMMA PromisedStep ==
  ASSUME OnlyCleanFailures, DigitsFitByte, NEW s, InvFor(s), [Next]_vars, FailedType',
         \A t : InvFor(t)' => Contents' = Stored(block', t)
  PROVE  [Promised!Next]_<< Contents, failed >>
  <1>1. Contents = Stored(block, s)
    BY ContentsAreStored
  <1>2. CASE Next
    <2>1. PICK t : InvFor(t)' /\ CallMakes(Stored(block, s), Stored(block', t))
      BY <1>2, NextStep
    <2>2. CallMakes(Contents, Contents')
      BY <1>1, <2>1
    <2>3. Contents \in Seq(Storable)
      <3>1. Placed(Memory, held, s) /\ Memory.block = block
        BY MemoryIsPlaced
      <3>2. Stored(Memory.block, s) \in Seq(Storable)
        BY <3>1, StoredIsSeq
      <3>3. QED
        BY <1>1, <3>1, <3>2
    <2>4. CASE Contents' = Contents
      BY <2>4 DEF FailedType, Promised!Next, Promised!Elsewhere
    <2>5. CASE Contents' # Contents
      <3>1. MayBecome(Contents, Contents') /\ failed' = FALSE
        BY <2>2, <2>5 DEF CallMakes, FailedType
      <3>2. Contents' \in Promised!PushedBack(Contents) \cup Promised!Inserted(Contents)
                            \cup Promised!WasSet(Contents) \cup Promised!Removed(Contents) \cup {<< >>}
        BY <2>3, <2>5, <3>1, MayBecomeIsPromised
      <3>3. QED
        BY <3>1, <3>2 DEF Promised!Next, Promised!Operation
    <2>6. QED
      BY <2>4, <2>5
  <1>3. CASE UNCHANGED vars
    <2>1. block' = block /\ list' = list /\ held' = held /\ failed' = failed
      BY <1>3 DEF vars
    <2>2. InvFor(s)'
      BY <2>1 DEF InvFor, InOrder
    <2>3. Contents' = Contents
      BY <1>1, <2>1, <2>2
    <2>4. QED
      BY <2>1, <2>3
  <1>4. QED
    BY <1>2, <1>3

\* Callers see an ItemSequence: a call appends a value, puts one in before another, replaces
\* or removes one, or clears all of them, and one that returns an error changes nothing.  It
\* is so on these conditions: list_push_back_string is never refused or without memory, the
\* constructor that list_item_emplace_struct is given never fails, and the digits that are
\* stored are values of a char.  To push a struct may fail, in any way.
THEOREM Refinement ==
  ASSUME OnlyCleanFailures, DigitsFitByte
  PROVE  Spec => ImplementsItemSequence
  <1>1. Init => Contents = << >>
    <2> SUFFICES ASSUME Init
                 PROVE  Contents = << >>
      OBVIOUS
    <2>1. InvFor(Nothing)
      BY InitInv
    <2>2. Visited = Nothing
      BY <2>1, VisitedIsTheOrder
    <2>3. Contents = [k \in DOMAIN Nothing |-> Get(Nothing[k])]
      BY <2>2 DEF Contents
    <2>4. QED
      BY <2>3 DEF Nothing
  <1>2. Init => Promised!Init
    BY <1>1 DEF Init, Promised!Init
  <1>3. (\A t : InvFor(t) => Contents = Stored(block, t))'
    <2>1. \A t : InvFor(t) => Contents = Stored(block, t)
      BY ContentsAreStored
    <2>2. QED
      BY <2>1, PTL
  <1>4. IInv /\ [Next]_vars /\ FailedType' => [Promised!Next]_<< Contents, failed >>
    <2> SUFFICES ASSUME IInv, [Next]_vars, FailedType'
                 PROVE  [Promised!Next]_<< Contents, failed >>
      OBVIOUS
    <2>1. PICK s : InvFor(s)
      BY IInvHolds
    <2>2. \A t : InvFor(t)' => Contents' = Stored(block', t)
      BY <1>3
    <2>3. QED
      BY <2>1, <2>2, PromisedStep
  <1>5. Init => FailedType
    BY DEF Init, FailedType
  <1>6. Spec => []FailedType
    BY <1>5, FailedIsBoolean, PTL DEF Spec
  <1>7. QED
    BY <1>2, <1>4, <1>6, Invariance, PTL DEF Spec, ImplementsItemSequence, Promised!Spec
=============================================================================
