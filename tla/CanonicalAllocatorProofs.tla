--------------------- MODULE CanonicalAllocatorProofs ---------------------
(***************************************************************************)
(* Safety of CanonicalAllocator for every size of the memory and every set *)
(* of arguments, and that it implements AllocatorContract.                 *)
(***************************************************************************)
EXTENDS CanonicalAllocator, TLAPS

-----------------------------------------------------------------------------
(* Arithmetic *)

\* Rounding up to an alignment reaches the next multiple and no further.
LEMMA AlignUpBounds ==
    ASSUME NEW v \in Nat, NEW a \in Nat \ {0}
    PROVE  /\ AlignUp(v, a) \in Nat
           /\ v <= AlignUp(v, a) /\ AlignUp(v, a) <= v + a - 1
<1> DEFINE q == (v + a - 1) \div a
<1>1. q \in Nat /\ q * a <= v + a - 1 /\ v + a - 1 < (q + 1) * a
  BY Z3
<1>2. q * a \in Nat /\ (q + 1) * a = q * a + a
  BY <1>1, Z3
<1>3. QED BY <1>1, <1>2, Z3 DEF AlignUp

LEMMA AlignUpAligned ==
    ASSUME NEW v \in Nat, NEW a \in Nat \ {0}
    PROVE  AlignUp(v, a) % a = 0
BY Z3 DEF AlignUp

\* A multiple is a quotient times the divisor, and conversely.
LEMMA Multiple ==
    ASSUME NEW x \in Nat, NEW a \in Nat \ {0}, x % a = 0
    PROVE  x \div a \in Nat /\ x = (x \div a) * a
BY Z3

LEMMA MultipleOf ==
    ASSUME NEW q \in Nat, NEW a \in Nat \ {0}
    PROVE  q * a \in Nat /\ (q * a) % a = 0
BY Z3

LEMMA SumOfMultiples ==
    ASSUME NEW x \in Nat, NEW y \in Nat, NEW a \in Nat \ {0}, x % a = 0, y % a = 0
    PROVE  (x + y) % a = 0
<1> DEFINE p == x \div a
           q == y \div a
<1>1. p \in Nat /\ x = p * a /\ q \in Nat /\ y = q * a
  BY Multiple
<1>2. (p + q) * a = p * a + q * a
  BY <1>1, Z3
<1>3. ((p + q) * a) % a = 0
  <2> p + q \in Nat
    BY <1>1
  <2> HIDE DEF p, q
  <2> QED BY MultipleOf
<1>4. QED BY <1>1, <1>2, <1>3

LEMMA ProductsAssociate ==
    ASSUME NEW p \in Nat, NEW q \in Nat, NEW a \in Nat
    PROVE  p * q \in Nat /\ p * (q * a) = (p * q) * a
BY Z3

\* Divisibility is transitive.
LEMMA MultipleOfMultiple ==
    ASSUME NEW x \in Nat, NEW b \in Nat \ {0}, NEW a \in Nat \ {0},
           x % b = 0, b % a = 0
    PROVE  x % a = 0
<1> DEFINE p == x \div b
           q == b \div a
<1>1. p \in Nat /\ x = p * b /\ q \in Nat /\ b = q * a
  BY Multiple
<1>2. p * q \in Nat /\ p * (q * a) = (p * q) * a
  <2> HIDE DEF p, q
  <2> QED BY <1>1, ProductsAssociate
<1>3. ((p * q) * a) % a = 0
  <2> HIDE DEF p, q
  <2> QED BY <1>2, MultipleOf
<1>4. QED BY <1>1, <1>2, <1>3

-----------------------------------------------------------------------------
(* The list of records *)

\* A set of records the walk from hd cannot leave.
Closed(hd, hdr, S) ==
    /\ hd \in DOMAIN hdr => hd \in S
    /\ \A c \in S : hdr[c].next \in DOMAIN hdr => hdr[c].next \in S

\* The list reaches every record, runs over intact records only, and no two
\* links lead to the same record.
ChainOK(hd, hdr) ==
    /\ hd \in DOMAIN hdr \cup {0} /\ 0 \notin DOMAIN hdr
    /\ \A b \in DOMAIN hdr : hdr[b].next \in DOMAIN hdr \cup {0}
    /\ \A b, c \in DOMAIN hdr : hdr[b].next = hdr[c].next /\ hdr[b].next # 0 => b = c
    /\ \A b \in DOMAIN hdr : hdr[b].next = hd => hd = 0
    /\ \A S \in SUBSET DOMAIN hdr : Closed(hd, hdr, S) => S = DOMAIN hdr

LEMMA RegistryComplete ==
    ASSUME NEW hd, NEW hdr, ChainOK(hd, hdr)
    PROVE  Registry(hd, hdr) = DOMAIN hdr
BY DEF ChainOK, Closed, Registry

\* insert: a record linked first keeps the list intact.
LEMMA ChainInsert ==
    ASSUME NEW hd, NEW hdr, NEW p, NEW record, NEW new,
           ChainOK(hd, hdr), p \notin DOMAIN hdr, p # 0, record.next = hd,
           DOMAIN new = DOMAIN hdr \cup {p}, new[p] = record,
           \A a \in DOMAIN hdr : new[a] = hdr[a]
    PROVE  ChainOK(p, new)
<1>1. \A b \in DOMAIN new : new[b].next \in DOMAIN hdr \cup {0}
  BY DEF ChainOK
<1>2. \A b, c \in DOMAIN new : new[b].next = new[c].next /\ new[b].next # 0 => b = c
  BY DEF ChainOK
<1>3. ASSUME NEW S \in SUBSET DOMAIN new, Closed(p, new, S)
      PROVE  S = DOMAIN new
  <2>1. p \in S
    BY <1>3 DEF Closed
  <2>2. Closed(hd, hdr, S \cap DOMAIN hdr)
    <3>1. hd \in DOMAIN hdr => hd \in S
      BY <1>3, <2>1 DEF Closed
    <3>2. ASSUME NEW c \in S \cap DOMAIN hdr, hdr[c].next \in DOMAIN hdr
          PROVE  hdr[c].next \in S
      BY <1>3, <3>2 DEF Closed
    <3>3. QED BY <3>1, <3>2 DEF Closed
  <2>3. S \cap DOMAIN hdr = DOMAIN hdr
    BY <2>2 DEF ChainOK
  <2>4. QED BY <2>1, <2>3
<1>4. QED BY <1>1, <1>2, <1>3 DEF ChainOK

\* No record links to itself, and no two to one another: such a cycle would
\* be out of the walk's reach.
LEMMA NoShortCycle ==
    ASSUME NEW hd, NEW hdr, ChainOK(hd, hdr), NEW b \in DOMAIN hdr, NEW c \in DOMAIN hdr,
           hdr[c].next = b
    PROVE  hdr[b].next # c
<1> SUFFICES ASSUME hdr[b].next = c PROVE FALSE
  OBVIOUS
<1> DEFINE S == DOMAIN hdr \ {b, c}
<1>1. hd \notin {b, c}
  BY DEF ChainOK
<1>2. \A d \in S : hdr[d].next \notin {b, c}
  BY DEF ChainOK
<1>3. Closed(hd, hdr, S)
  BY <1>1, <1>2 DEF Closed
<1>4. QED BY <1>3 DEF ChainOK

\* unlink: the list keeps every record but the one taken out.
LEMMA ChainUnlink ==
    ASSUME NEW hd, NEW hdr, ChainOK(hd, hdr), NEW b \in DOMAIN hdr,
           \A a \in DOMAIN hdr : hdr[a] \in LiveRecord,
           NEW new, DOMAIN new = DOMAIN hdr \ {b},
           \A a \in DOMAIN new : new[a] = Unlinked(hd, hdr, b)[a]
    PROVE  /\ ChainOK(UnlinkedHead(hd, hdr, b), new)
           /\ \A a \in DOMAIN new :
                 /\ new[a].user = hdr[a].user /\ new[a].requested = hdr[a].requested
                 /\ new[a].size = hdr[a].size /\ new[a].align = hdr[a].align
                 /\ new[a] \in LiveRecord
<1> DEFINE hd2 == UnlinkedHead(hd, hdr, b)
<1>0. Registry(hd, hdr) = DOMAIN hdr
  BY RegistryComplete
<1>1. \A a \in DOMAIN new :
        new[a] = IF hd # b /\ hdr[a].next = b THEN [hdr[a] EXCEPT !.next = hdr[b].next]
                 ELSE hdr[a]
  BY <1>0 DEF Unlinked
<1>2. hdr[b].next # b
  BY NoShortCycle
<1>3. \A a \in DOMAIN new :
        /\ new[a].user = hdr[a].user /\ new[a].requested = hdr[a].requested
        /\ new[a].size = hdr[a].size /\ new[a].align = hdr[a].align
        /\ new[a] \in LiveRecord
  BY <1>1 DEF LiveRecord
<1>4. \A a \in DOMAIN new :
        new[a].next = IF hd # b /\ hdr[a].next = b THEN hdr[b].next ELSE hdr[a].next
  BY <1>1 DEF LiveRecord
<1>5. \A a \in DOMAIN new : hdr[a].next = b => hd # b
  BY DEF ChainOK
<1>6. hd2 \in DOMAIN new \cup {0} /\ 0 \notin DOMAIN new
  BY <1>2 DEF ChainOK, UnlinkedHead
<1>7. \A a \in DOMAIN new : new[a].next \in DOMAIN new \cup {0}
  BY <1>2, <1>4, <1>5 DEF ChainOK
<1>8. \A a, c \in DOMAIN new : new[a].next = new[c].next /\ new[a].next # 0 => a = c
  BY <1>4, <1>5 DEF ChainOK
<1>9. \A a \in DOMAIN new : new[a].next = hd2 => hd2 = 0
  BY <1>4, <1>5, <1>2 DEF ChainOK, UnlinkedHead
<1>10. ASSUME NEW T \in SUBSET DOMAIN new, Closed(hd2, new, T)
       PROVE  T = DOMAIN new
  <2> DEFINE S == T \cup {c \in {b} : hd = b \/ \E a \in T : hdr[a].next = b}
  <2>1. hd \in DOMAIN hdr => hd \in S
    BY <1>10 DEF Closed, UnlinkedHead
  <2>2. ASSUME NEW c \in T, hdr[c].next \in DOMAIN hdr
        PROVE  hdr[c].next \in S
    <3>1. CASE hdr[c].next = b
      BY <3>1
    <3>2. CASE hdr[c].next # b
      BY <3>2, <2>2, <1>4, <1>10 DEF Closed
    <3>3. QED BY <3>1, <3>2
  <2>3. ASSUME b \in S, hdr[b].next \in DOMAIN hdr
        PROVE  hdr[b].next \in S
    <3>1. CASE hd = b
      BY <3>1, <2>3, <1>2, <1>10 DEF Closed, UnlinkedHead
    <3>2. CASE hd # b
      <4>1. PICK a \in T : hdr[a].next = b
        BY <2>3, <3>2
      <4>2. new[a].next = hdr[b].next
        BY <4>1, <3>2, <1>4
      <4>3. QED BY <4>2, <2>3, <1>2, <1>10 DEF Closed
    <3>3. QED BY <3>1, <3>2
  <2>4. Closed(hd, hdr, S) /\ S \in SUBSET DOMAIN hdr
    BY <2>1, <2>2, <2>3 DEF Closed
  <2>5. S = DOMAIN hdr
    <3> HIDE DEF S
    <3> QED BY <2>4 DEF ChainOK
  <2>6. QED BY <2>5
<1>11. QED
  <2> HIDE DEF hd2
  <2> ChainOK(hd2, new)
    BY <1>6, <1>7, <1>8, <1>9, <1>10 DEF ChainOK
  <2> QED BY <1>3 DEF hd2

-----------------------------------------------------------------------------
(* The inductive invariant *)

\* Every record's buffer fills its chunk behind the record, inside the cells
\* dlmalloc has, and no two chunks meet.
RecordsOK(hdr, cells) ==
    \A b \in DOMAIN hdr :
        /\ hdr[b].requested # 0
        /\ b + Record <= hdr[b].user
        /\ hdr[b].user + hdr[b].requested = b + hdr[b].size
        /\ Cells(b, hdr[b].size) \subseteq cells
        /\ \A c \in DOMAIN hdr \ {b} :
              Cells(b, hdr[b].size) \cap Cells(c, hdr[c].size) = {}

ChunksOf(hdr) == {Chunk(b, hdr[b]) : b \in DOMAIN hdr}

\* The segments lie between the heap boundary and the cursor, the cursor in
\* the memory.
SegmentsOK ==
    /\ \A a \in pool : heapBase <= a /\ a < cursor
    /\ phase = "ready" =>
          heapBase # 0 /\ heapBase <= cursor /\ cursor <= Bytes(memory)

\* Before the first call, and after a failed one, nothing was handed out.
PhaseOK ==
    /\ phase # "ready" => pool = {} /\ chunks = {} /\ head = 0
    /\ phase = "busy" => ~HeapBaseOK

IInv ==
    /\ TypeOK
    /\ ChainOK(head, header)
    /\ RecordsOK(header, pool)
    /\ chunks = ChunksOf(header)
    /\ SegmentsOK
    /\ PhaseOK

\* The sizes without their relations.
LEMMA SizeFacts ==
    /\ Limit \in Nat \ {0} /\ Page \in Nat \ {0} /\ Record \in Nat \ {0}
    /\ HeapAlign \in Nat \ {0} /\ RecordAlign \in 1 .. Limit - 1 /\ Granule \in Nat \ {0}
    /\ MaxPages \in Nat /\ Slack \in Nat /\ HalfLimit \in Nat
    /\ HeapBases \subseteq 0 .. Limit - 1 /\ StartPages \subseteq 0 .. MaxPages
    /\ Lengths \subseteq 0 .. Limit - 1 /\ Junk \in Value
BY SizesAssumption, ArgumentsAssumption

USE SizeFacts

IsAFunction(f) == f = [a \in DOMAIN f |-> f[a]]

LEMMA FunctionInto ==
    ASSUME NEW f, NEW S, IsAFunction(f), \A a \in DOMAIN f : f[a] \in S
    PROVE  f \in [DOMAIN f -> S]
BY DEF IsAFunction

\* A memory that grows keeps covering what it covered.
LEMMA BytesMonotone ==
    ASSUME NEW m \in Nat, NEW k \in Nat
    PROVE  Bytes(m) \in Nat /\ Bytes(m) < Limit /\ Bytes(m) <= Bytes(m + k)
<1>1. m * Page \in Nat /\ k * Page \in Nat /\ (m + k) * Page = m * Page + k * Page
  BY Z3
<1>2. QED BY <1>1 DEF Bytes

\* The record of a chunk starts inside it.
LEMMA RecordInChunk ==
    ASSUME NEW hdr, NEW cells, RecordsOK(hdr, cells), DOMAIN hdr \subseteq Address,
           \A a \in DOMAIN hdr : hdr[a] \in LiveRecord,
           NEW b \in DOMAIN hdr
    PROVE  /\ Cells(b, Record) \subseteq Cells(b, hdr[b].size)
           /\ Cells(hdr[b].user, hdr[b].requested) \subseteq Cells(b, hdr[b].size)
           /\ Cells(hdr[b].user, hdr[b].requested) \cap Cells(b, Record) = {}
           /\ b \in Cells(b, hdr[b].size) /\ b \in cells
           /\ hdr[b].user \in Cells(hdr[b].user, hdr[b].requested)
BY DEF RecordsOK, Cells, LiveRecord, Address

\* Writing clear of every record loses none.
LEMMA OverwrittenNothing ==
    ASSUME NEW hdr, NEW cells, IsAFunction(hdr),
           \A c \in DOMAIN hdr : Cells(c, Record) \cap cells = {}
    PROVE  Overwritten(hdr, cells) = hdr
<1>1. {c \in DOMAIN hdr : Cells(c, Record) \cap cells = {}} = DOMAIN hdr
  OBVIOUS
<1>2. QED BY <1>1 DEF Overwritten, IsAFunction

\* The cursor a call works with is inside the memory, above all it gave away.
LEMMA CursorBounds ==
    ASSUME IInv, Enters
    PROVE  /\ Cursor \in Address /\ Cursor <= Bytes(memory)
           /\ heapBase \in Address /\ heapBase <= Cursor /\ heapBase # 0
           /\ \A a \in pool : heapBase <= a /\ a < Cursor
<1>1. heapBase \in Address /\ memory \in Nat /\ cursor \in Address
  BY DEF IInv, TypeOK, Address
<1>2. Bytes(memory) \in Nat
  BY <1>1, BytesMonotone
<1>3. CASE phase = "ready"
  BY <1>1, <1>2, <1>3 DEF IInv, SegmentsOK, Cursor
<1>4. CASE phase = "uninitialized"
  BY <1>1, <1>2, <1>4 DEF IInv, PhaseOK, Cursor, Enters, HeapBaseOK, Address
<1>5. QED BY <1>3, <1>4 DEF Enters

\* What Provision and dlmalloc do to the segments in a call that entered.
LEMMA NoSegmentStep ==
    ASSUME IInv, Enters, NoSegment, phase' = "ready", heapBase' = heapBase
    PROVE  /\ SegmentsOK' /\ pool \subseteq pool'
           /\ memory' \in 0 .. MaxPages /\ cursor' \in Address /\ pool' \in SUBSET Address
<1>1. Cursor \in Address /\ Cursor <= Bytes(memory) /\ heapBase <= Cursor /\ heapBase # 0
  BY CursorBounds
<1>2. \A a \in pool : heapBase <= a /\ a < Cursor
  BY CursorBounds
<1>3. QED BY <1>1, <1>2 DEF NoSegment, SegmentsOK, IInv, TypeOK

LEMMA AcquireStep ==
    ASSUME IInv, Enters, NEW request \in Nat, Acquire(request),
           phase' = "ready", heapBase' = heapBase
    PROVE  /\ SegmentsOK' /\ pool \subseteq pool'
           /\ memory' \in 0 .. MaxPages /\ cursor' \in Address /\ pool' \in SUBSET Address
<1> DEFINE start == AlignUp(Cursor, Page)
           end == start + AlignUp(request, Page)
           missing == end - Bytes(memory)
           pages == IF missing > 0 THEN AlignUp(missing, Page) \div Page ELSE 0
<1>1. Cursor \in Address /\ Cursor <= Bytes(memory) /\ heapBase <= Cursor /\ heapBase # 0
  BY CursorBounds
<1>2. \A a \in pool : heapBase <= a /\ a < Cursor
  BY CursorBounds
<1>3. start \in Nat /\ Cursor <= start /\ AlignUp(request, Page) \in Nat
  BY <1>1, AlignUpBounds DEF Address
<1>4. Bytes(memory) \in Nat
  BY BytesMonotone DEF IInv, TypeOK
<1>5. missing \in Int /\ end \in Nat /\ start <= end
  BY <1>3, <1>4
<1>6. pages \in Nat
  <2>1. CASE missing > 0
    <3>0. missing \in Nat
      BY <1>5, <2>1
    <3>1. AlignUp(missing, Page) \in Nat /\ AlignUp(missing, Page) % Page = 0
      <4> HIDE DEF missing
      <4> QED BY <3>0, AlignUpBounds, AlignUpAligned
    <3>2. AlignUp(missing, Page) \div Page \in Nat
      <4> HIDE DEF missing
      <4> QED BY <3>1, Multiple
    <3>3. QED BY <3>2, <2>1
  <2>2. CASE ~(missing > 0)
    BY <2>2
  <2>3. QED BY <2>1, <2>2
<1>7. /\ end < Limit /\ memory + pages <= MaxPages /\ memory' = memory + pages
      /\ end <= Bytes(memory') /\ cursor' = end /\ pool' = pool \cup start .. end - 1
  BY DEF Acquire
<1> HIDE DEF start, end, pages, missing
<1>0. memory \in Nat /\ pool \in SUBSET Address /\ heapBase \in Nat /\ Cursor \in Nat
  BY <1>1, CursorBounds DEF IInv, TypeOK, Address
<1>8. memory' \in 0 .. MaxPages /\ cursor' \in Address
  BY <1>0, <1>5, <1>6, <1>7 DEF Address
<1>9. pool' \in SUBSET Address /\ pool \subseteq pool'
  <2>1. start .. end - 1 \subseteq Address
    BY <1>3, <1>5, <1>7 DEF Address
  <2>2. QED BY <2>1, <1>0, <1>7
<1>10. \A a \in pool' : heapBase <= a /\ a < cursor'
  <2>1. \A a \in start .. end - 1 : heapBase <= a /\ a < end
    BY <1>0, <1>1, <1>3, <1>5
  <2>2. \A a \in pool : heapBase <= a /\ a < end
    BY <1>0, <1>2, <1>3, <1>5 DEF Address
  <2>3. QED BY <2>1, <2>2, <1>7
<1>11. heapBase # 0 /\ heapBase <= end
  BY <1>0, <1>1, <1>3, <1>5
<1>12. SegmentsOK'
  BY <1>7, <1>10, <1>11 DEF SegmentsOK
<1>13. QED BY <1>8, <1>9, <1>12

\* A chunk is made of cells dlmalloc has and meets no outstanding chunk.
LEMMA MallocStep ==
    ASSUME IInv, Enters, NEW size \in Nat, NEW align \in Nat, NEW p, Malloc(size, align, p),
           phase' = "ready", heapBase' = heapBase
    PROVE  /\ SegmentsOK' /\ pool \subseteq pool'
           /\ memory' \in 0 .. MaxPages /\ cursor' \in Address /\ pool' \in SUBSET Address
           /\ p # 0 =>
                /\ p % align = 0
                /\ Cells(p, size) \subseteq pool'
                /\ \A c \in chunks : Cells(p, size) \cap Cells(c.start, c.size) = {}
<1>1. NoSegment \/ Acquire(size) \/ Acquire(size + Slack)
  BY DEF Malloc
<1>2. size + Slack \in Nat
  OBVIOUS
<1>3. /\ SegmentsOK' /\ pool \subseteq pool'
      /\ memory' \in 0 .. MaxPages /\ cursor' \in Address /\ pool' \in SUBSET Address
  BY <1>1, <1>2, NoSegmentStep, AcquireStep
<1>4. p # 0 => Fits(p, size, align)
  BY DEF Malloc
<1>5. QED BY <1>3, <1>4 DEF Fits

-----------------------------------------------------------------------------
(* The records after a call *)

\* A record at the front of a fresh chunk keeps the layout.
LEMMA RecordsInsert ==
    ASSUME NEW hdr, NEW cells, NEW more, RecordsOK(hdr, cells), cells \subseteq more,
           NEW p \in Address, NEW record \in LiveRecord, p \notin DOMAIN hdr,
           record.requested # 0, p + Record <= record.user,
           record.user + record.requested = p + record.size,
           Cells(p, record.size) \subseteq more,
           \A c \in DOMAIN hdr : Cells(p, record.size) \cap Cells(c, hdr[c].size) = {},
           NEW new, DOMAIN new = DOMAIN hdr \cup {p}, new[p] = record,
           \A a \in DOMAIN hdr : new[a] = hdr[a]
    PROVE  RecordsOK(new, more)
<1>1. ASSUME NEW b \in DOMAIN hdr
      PROVE  /\ new[b].requested # 0
             /\ b + Record <= new[b].user
             /\ new[b].user + new[b].requested = b + new[b].size
             /\ Cells(b, new[b].size) \subseteq more
             /\ \A c \in DOMAIN new \ {b} :
                   Cells(b, new[b].size) \cap Cells(c, new[c].size) = {}
  <2>1. new[b] = hdr[b]
    OBVIOUS
  <2>2. Cells(b, hdr[b].size) \cap Cells(p, record.size) = {}
    OBVIOUS
  <2>3. QED BY <2>1, <2>2 DEF RecordsOK
<1>2. \A c \in DOMAIN new \ {p} : Cells(p, new[p].size) \cap Cells(c, new[c].size) = {}
  OBVIOUS
<1>3. QED BY <1>1, <1>2 DEF RecordsOK

\* Taking a record out keeps the layout of the others.
LEMMA RecordsRemove ==
    ASSUME NEW hdr, NEW cells, RecordsOK(hdr, cells), NEW b \in DOMAIN hdr,
           NEW new, DOMAIN new = DOMAIN hdr \ {b},
           \A a \in DOMAIN new : /\ new[a].user = hdr[a].user
                                /\ new[a].requested = hdr[a].requested
                                /\ new[a].size = hdr[a].size
    PROVE  RecordsOK(new, cells)
BY DEF RecordsOK

\* The chunks dlmalloc has out follow the records: no two records have the
\* same chunk, so releasing one leaves those of the others.
LEMMA ChunksRemove ==
    ASSUME NEW hdr, NEW b \in DOMAIN hdr,
           NEW new, DOMAIN new = DOMAIN hdr \ {b},
           \A a \in DOMAIN new : /\ new[a].size = hdr[a].size
                                /\ new[a].align = hdr[a].align
    PROVE  ChunksOf(new) = ChunksOf(hdr) \ {Chunk(b, hdr[b])}
<1>1. \A a \in DOMAIN new : Chunk(a, new[a]) = Chunk(a, hdr[a])
  BY DEF Chunk
<1>2. \A a \in DOMAIN new : Chunk(a, hdr[a]).start # Chunk(b, hdr[b]).start
  BY DEF Chunk
<1>3. \A a \in DOMAIN new : Chunk(a, hdr[a]) # Chunk(b, hdr[b])
  BY <1>2
<1>4. QED BY <1>1, <1>3 DEF ChunksOf

LEMMA ChunksInsert ==
    ASSUME NEW hdr, NEW p, NEW record,
           NEW new, DOMAIN new = DOMAIN hdr \cup {p}, new[p] = record,
           \A a \in DOMAIN hdr : new[a] = hdr[a], p \notin DOMAIN hdr
    PROVE  ChunksOf(new) = ChunksOf(hdr) \cup {Chunk(p, record)}
BY DEF ChunksOf

LEMMA RecordTypes ==
    ASSUME NEW r \in LiveRecord
    PROVE  /\ r.next \in Nat /\ r.user \in Nat /\ r.requested \in Nat
           /\ r.size \in Nat /\ r.align \in Nat
BY DEF LiveRecord, Address

LEMMA LengthTypes ==
    ASSUME NEW len \in Lengths
    PROVE  len \in Nat
OBVIOUS

\* What the fields of a new record satisfy.
LEMMA NewRecordFacts ==
    ASSUME NEW next \in Address, NEW p \in Address, NEW align \in Aligns \cap PowersOfTwo,
           NEW len \in Lengths \ {0}, Insertable(align, len)
    PROVE  LET record == NewRecord(next, p, align, len)
           IN  /\ record.next = next /\ record.requested = len /\ len \in Address
               /\ record.user = p + UserOffset(align) /\ record.size \in Address
               /\ record.align = BackingAlign(align) /\ record.align \in Address
               /\ p + Record <= record.user
               /\ record.user + record.requested = p + record.size
               /\ record.size = UserOffset(align) + len /\ record.size \in Nat \ {0}
               /\ UserOffset(align) \in Nat /\ Record <= UserOffset(align)
<1>0. align \in Nat \ {0} /\ align \in Address
  BY AlignAssumption, ArgumentsAssumption DEF Address
<1>1. UserOffset(align) \in Nat /\ Record <= UserOffset(align)
  BY <1>0, AlignUpBounds DEF UserOffset
<1>2. len \in Address /\ len # 0
  BY DEF Address
<1>3. UserOffset(align) + len < Limit
  BY DEF Insertable
<1>4. RecordAlign \in Address => BackingAlign(align) \in Address
  BY <1>0 DEF BackingAlign
<1>5. RecordAlign \in Address
  BY DEF Address
<1>6. QED BY <1>1, <1>2, <1>3, <1>4, <1>5 DEF NewRecord, Address

\* Everything an allocation or a replacement needs of the fresh chunk.
FreshOf(align, len, p) == NewRecord(head, p, align, len)
WithFresh(align, len, p) == Inserted(header, p, FreshOf(align, len, p))

\* The registry new, with the record of a fresh chunk at p.
HasFresh(align, len, p, record, new) ==
    /\ record \in LiveRecord /\ p \notin DOMAIN header
    /\ record.requested = len
    /\ record.user = p + UserOffset(align)
    /\ Record <= UserOffset(align) /\ UserOffset(align) \in Nat
    /\ p % BackingAlign(align) = 0
    /\ DOMAIN new = DOMAIN header \cup {p}
    /\ new[p] = record
    /\ \A a \in DOMAIN header : new[a] = header[a]
    /\ IsAFunction(new)
    /\ ChainOK(p, new)
    /\ RecordsOK(new, pool')
    /\ ChunksOf(new) = chunks \cup {Chunk(p, record)}
    /\ SegmentsOK' /\ memory' \in 0 .. MaxPages
    /\ cursor' \in Address /\ pool' \in SUBSET Address

LEMMA FreshRecord ==
    ASSUME IInv, Enters, NEW align \in Aligns \cap PowersOfTwo, NEW len \in Lengths \ {0},
           Insertable(align, len), NEW p \in Address, p # 0,
           Malloc(FreshOf(align, len, p).size, FreshOf(align, len, p).align, p),
           phase' = "ready", heapBase' = heapBase
    PROVE  HasFresh(align, len, p, FreshOf(align, len, p), WithFresh(align, len, p))
<1> DEFINE record == FreshOf(align, len, p)
           new == WithFresh(align, len, p)
<1>0. record = NewRecord(head, p, align, len) /\ new = Inserted(header, p, record)
  BY DEF FreshOf, WithFresh
<1> HIDE DEF record, new
<1>m. Malloc(record.size, record.align, p)
  BY DEF record
<1>1. head \in Address
  BY DEF IInv, TypeOK
<1>2. /\ record.next = head /\ record.requested = len /\ len \in Address
      /\ record.user = p + UserOffset(align) /\ record.size \in Address
      /\ record.align = BackingAlign(align) /\ record.align \in Address
      /\ p + Record <= record.user
      /\ record.user + record.requested = p + record.size
      /\ record.size = UserOffset(align) + len /\ record.size \in Nat \ {0}
      /\ UserOffset(align) \in Nat /\ Record <= UserOffset(align)
  BY <1>0, <1>1, NewRecordFacts
<1>3. record.size \in Nat /\ record.align \in Nat
  BY <1>2 DEF Address
<1>4. /\ SegmentsOK' /\ pool \subseteq pool'
      /\ memory' \in 0 .. MaxPages /\ cursor' \in Address /\ pool' \in SUBSET Address
      /\ p % record.align = 0
      /\ Cells(p, record.size) \subseteq pool'
      /\ \A c \in chunks : Cells(p, record.size) \cap Cells(c.start, c.size) = {}
  BY <1>3, <1>m, MallocStep
<1>5. record \in LiveRecord
  <2>1. record.user \in Cells(p, record.size)
    BY <1>2 DEF Cells, Address
  <2>2. record.user \in Address
    BY <2>1, <1>4
  <2>3. QED BY <1>0, <1>1, <1>2, <2>2 DEF NewRecord, LiveRecord
<1>6. \A c \in DOMAIN header : Cells(p, record.size) \cap Cells(c, header[c].size) = {}
  <2> SUFFICES ASSUME NEW c \in DOMAIN header
               PROVE  Cells(p, record.size) \cap Cells(c, header[c].size) = {}
    OBVIOUS
  <2>1. Chunk(c, header[c]) \in chunks
    BY DEF IInv, ChunksOf
  <2>2. Chunk(c, header[c]).start = c /\ Chunk(c, header[c]).size = header[c].size
    BY DEF Chunk
  <2>3. QED BY <2>1, <2>2, <1>4
<1>7. /\ DOMAIN header \subseteq Address
      /\ \A a \in DOMAIN header : header[a] \in LiveRecord
      /\ IsAFunction(header)
      /\ RecordsOK(header, pool) /\ ChainOK(head, header) /\ chunks = ChunksOf(header)
  BY DEF IInv, TypeOK, IsAFunction
<1>8. \A c \in DOMAIN header : /\ Cells(c, Record) \subseteq Cells(c, header[c].size)
                              /\ c \in Cells(c, header[c].size)
  BY <1>7, RecordInChunk
<1>9. Cells(p, Record) \subseteq Cells(p, record.size) /\ p \in Cells(p, record.size)
  BY <1>2 DEF Cells, Address
<1>10. p \notin DOMAIN header
  BY <1>6, <1>8, <1>9
<1>11. Overwritten(header, Cells(p, Record)) = header
  BY <1>6, <1>7, <1>8, <1>9, OverwrittenNothing
<1>12. /\ DOMAIN new = DOMAIN header \cup {p} /\ new[p] = record
       /\ \A a \in DOMAIN header : new[a] = header[a]
       /\ IsAFunction(new)
  BY <1>0, <1>10, <1>11 DEF Inserted, IsAFunction
<1>13. ChainOK(p, new)
  BY <1>2, <1>7, <1>10, <1>12, ChainInsert
<1>14. RecordsOK(new, pool')
  <2>1. RecordsOK(header, pool) /\ pool \subseteq pool'
    BY <1>4, <1>7
  <2>2. /\ record.requested # 0 /\ p + Record <= record.user
        /\ record.user + record.requested = p + record.size
        /\ Cells(p, record.size) \subseteq pool'
    BY <1>2, <1>4
  <2>3. QED BY <2>1, <2>2, <1>5, <1>6, <1>10, <1>12, RecordsInsert
<1>15. ChunksOf(new) = chunks \cup {Chunk(p, record)}
  <2>1. ChunksOf(new) = ChunksOf(header) \cup {Chunk(p, record)}
    <3>1. /\ DOMAIN new = DOMAIN header \cup {p} /\ new[p] = record
          /\ \A a \in DOMAIN header : new[a] = header[a]
      BY <1>12
    <3>2. QED BY ONLY <3>1 DEF ChunksOf
  <2>2. QED BY <2>1, <1>7
<1>16. HasFresh(align, len, p, record, new)
  BY <1>2, <1>4, <1>5, <1>10, <1>12, <1>13, <1>14, <1>15 DEF HasFresh
<1>17. QED BY <1>16 DEF record, new

\* unlink and release of one record.
Released(hd, hdr, b) == Overwritten(Unlinked(hd, hdr, b), Cells(b, hdr[b].size))

\* The registry new with head hd2: that of hd and hdr without the record b.
LacksReleased(hd, hdr, b, cells, hd2, new) ==
    /\ DOMAIN new = DOMAIN hdr \ {b} /\ IsAFunction(new)
    /\ \A a \in DOMAIN new : /\ new[a].user = hdr[a].user
                            /\ new[a].requested = hdr[a].requested
                            /\ new[a] \in LiveRecord
    /\ ChainOK(hd2, new) /\ RecordsOK(new, cells)
    /\ ChunksOf(new) = ChunksOf(hdr) \ {Chunk(b, hdr[b])}
    /\ hd2 \in Address

LEMMA ReleasedRecord ==
    ASSUME NEW hd, NEW hdr, NEW cells, ChainOK(hd, hdr), RecordsOK(hdr, cells),
           DOMAIN hdr \subseteq Address, \A a \in DOMAIN hdr : hdr[a] \in LiveRecord,
           hd \in Address, NEW b \in DOMAIN hdr
    PROVE  LacksReleased(hd, hdr, b, cells, UnlinkedHead(hd, hdr, b), Released(hd, hdr, b))
<1> DEFINE new == Released(hd, hdr, b)
<1>0. new = Overwritten(Unlinked(hd, hdr, b), Cells(b, hdr[b].size))
  BY DEF Released
<1> HIDE DEF new
<1> DEFINE U == Unlinked(hd, hdr, b)
<1>1. DOMAIN U = DOMAIN hdr
  BY DEF Unlinked
<1>2. \A c \in DOMAIN hdr : /\ Cells(c, Record) \subseteq Cells(c, hdr[c].size)
                           /\ c \in Cells(c, hdr[c].size)
  BY RecordInChunk
<1>3. \A c \in DOMAIN hdr \ {b} : Cells(c, Record) \cap Cells(b, hdr[b].size) = {}
  BY <1>2 DEF RecordsOK
<1>4. b \in Cells(b, Record)
  BY DEF Cells, Address
<1>5. {c \in DOMAIN hdr : Cells(c, Record) \cap Cells(b, hdr[b].size) = {}} = DOMAIN hdr \ {b}
  BY <1>2, <1>3, <1>4
<1> HIDE DEF U
<1>6. /\ DOMAIN new = DOMAIN hdr \ {b} /\ IsAFunction(new)
      /\ \A a \in DOMAIN new : new[a] = U[a]
  BY <1>0, <1>1, <1>5 DEF Overwritten, U, IsAFunction
<1>7. /\ ChainOK(UnlinkedHead(hd, hdr, b), new)
      /\ \A a \in DOMAIN new :
            /\ new[a].user = hdr[a].user /\ new[a].requested = hdr[a].requested
            /\ new[a].size = hdr[a].size /\ new[a].align = hdr[a].align
            /\ new[a] \in LiveRecord
  BY <1>6, ChainUnlink DEF U
<1>a. DOMAIN new = DOMAIN hdr \ {b}
  BY <1>6
<1>b. \A a \in DOMAIN new : /\ new[a].user = hdr[a].user
                           /\ new[a].requested = hdr[a].requested
                           /\ new[a].size = hdr[a].size
  BY <1>7
<1>c. \A a \in DOMAIN new : /\ new[a].size = hdr[a].size
                           /\ new[a].align = hdr[a].align
  BY <1>7
<1>8. RecordsOK(new, cells)
  BY ONLY <1>a, <1>b, RecordsOK(hdr, cells), RecordsRemove
<1>9. ChunksOf(new) = ChunksOf(hdr) \ {Chunk(b, hdr[b])}
  BY ONLY <1>a, <1>c, ChunksRemove
<1>10. UnlinkedHead(hd, hdr, b) \in Address
  BY DEF UnlinkedHead, LiveRecord
<1>11. LacksReleased(hd, hdr, b, cells, UnlinkedHead(hd, hdr, b), new)
  BY <1>6, <1>7, <1>8, <1>9, <1>10 DEF LacksReleased
<1>12. QED BY <1>11 DEF new

-----------------------------------------------------------------------------
(* Every step keeps the invariant *)

\* A call that leaves the records alone.
LEMMA QuietStep ==
    ASSUME IInv, SegmentsOK', pool \subseteq pool', phase' = "ready", heapBase' = heapBase,
           memory' \in 0 .. MaxPages, cursor' \in Address, pool' \in SUBSET Address,
           UNCHANGED <<chunks, head, header, content>>
    PROVE  IInv'
<1>1. TypeOK'
  BY DEF IInv, TypeOK
<1>2. RecordsOK(header, pool')
  BY DEF IInv, RecordsOK
<1>3. ChainOK(head', header') /\ chunks' = ChunksOf(header') /\ RecordsOK(header', pool')
  BY <1>2 DEF IInv
<1>4. QED BY <1>1, <1>3 DEF IInv, PhaseOK

\* The records a call names are records.
LEMMA NamedFacts ==
    ASSUME IInv, NEW b \in Named
    PROVE  b \in DOMAIN header
BY DEF Named, Registry

LEMMA FreeInv ==
    ASSUME IInv, NEW align \in Aligns, NEW b \in Named, Free(b, align)
    PROVE  IInv'
<1>1. b \in DOMAIN header
  BY NamedFacts
<1>2. Enters /\ phase' = "ready" /\ heapBase' = heapBase /\ NoSegment
  BY DEF Free, Return
<1>3. /\ SegmentsOK' /\ pool' = pool
      /\ memory' \in 0 .. MaxPages /\ cursor' \in Address /\ pool' \in SUBSET Address
  BY <1>2, NoSegmentStep DEF NoSegment
<1>4. /\ ChainOK(head, header) /\ RecordsOK(header, pool) /\ chunks = ChunksOf(header)
      /\ DOMAIN header \subseteq Address /\ head \in Address
      /\ \A a \in DOMAIN header : header[a] \in LiveRecord
      /\ chunks \in SUBSET [start : Address, size : Address, align : Address]
      /\ content \in [Address -> Value] /\ heapBase \in HeapBases
  BY DEF IInv, TypeOK
<1>5. /\ header' = Released(head, header, b)
      /\ head' = UnlinkedHead(head, header, b)
      /\ chunks' = chunks \ {Chunk(b, header[b])}
      /\ content' = Scribbled(content, Cells(b, header[b].size))
  BY DEF Free, Released
<1>6. /\ DOMAIN header' = DOMAIN header \ {b}
      /\ IsAFunction(header')
      /\ \A a \in DOMAIN header' : header'[a] \in LiveRecord
      /\ ChainOK(head', header') /\ RecordsOK(header', pool)
      /\ ChunksOf(header') = chunks' /\ head' \in Address
  <2>1. LacksReleased(head, header, b, pool, UnlinkedHead(head, header, b),
                      Released(head, header, b))
    BY <1>1, <1>4, ReleasedRecord
  <2>2. LacksReleased(head, header, b, pool, head', header')
    BY ONLY <2>1, <1>5
  <2>3. QED BY <2>2, <1>4, <1>5 DEF LacksReleased
<1>7. content' \in [Address -> Value]
  BY <1>4, <1>5 DEF Scribbled
<1>8. DOMAIN header' \subseteq Address /\ header' \in [DOMAIN header' -> LiveRecord]
  BY <1>4, <1>6, FunctionInto
<1>9. TypeOK'
  BY <1>2, <1>3, <1>4, <1>5, <1>6, <1>7, <1>8 DEF TypeOK
<1>10. QED BY <1>2, <1>3, <1>6, <1>9 DEF IInv, PhaseOK

LEMMA ChunkType ==
    ASSUME NEW p \in Address, NEW record \in LiveRecord
    PROVE  Chunk(p, record) \in [start : Address, size : Address, align : Address]
BY DEF Chunk, LiveRecord

LEMMA AllocateInv ==
    ASSUME IInv, NEW align \in Aligns \cap PowersOfTwo, NEW len \in Lengths \ {0},
           NEW p \in Address, Allocate(align, len, p)
    PROVE  IInv'
<1> DEFINE record == FreshOf(align, len, p)
<1>1. /\ Enters /\ Insertable(align, len) /\ Malloc(record.size, record.align, p)
      /\ p # 0 /\ phase' = "ready" /\ heapBase' = heapBase
      /\ header' = WithFresh(align, len, p) /\ head' = p
      /\ content' = Scribbled(content, Cells(p, record.size))
      /\ chunks' = chunks \cup {Chunk(p, record)}
  BY DEF Allocate, Return, FreshOf, WithFresh
<1>3. /\ record \in LiveRecord
      /\ DOMAIN header' = DOMAIN header \cup {p} /\ header'[p] = record
      /\ \A a \in DOMAIN header : header'[a] = header[a]
      /\ IsAFunction(header')
      /\ ChainOK(p, header') /\ RecordsOK(header', pool')
      /\ ChunksOf(header') = chunks \cup {Chunk(p, record)}
      /\ SegmentsOK' /\ memory' \in 0 .. MaxPages
      /\ cursor' \in Address /\ pool' \in SUBSET Address
  <2>1. HasFresh(align, len, p, record, WithFresh(align, len, p))
    BY <1>1, FreshRecord
  <2>2. HasFresh(align, len, p, record, header')
    BY ONLY <2>1, <1>1
  <2> HIDE DEF record
  <2>3. QED BY <2>2 DEF HasFresh
<1> HIDE DEF record
<1>4. /\ DOMAIN header \subseteq Address
      /\ \A a \in DOMAIN header : header[a] \in LiveRecord
      /\ chunks \in SUBSET [start : Address, size : Address, align : Address]
      /\ content \in [Address -> Value] /\ heapBase \in HeapBases
  BY DEF IInv, TypeOK
<1>5. content' \in [Address -> Value]
  BY <1>1, <1>4 DEF Scribbled
<1>6. chunks' \in SUBSET [start : Address, size : Address, align : Address]
  BY <1>1, <1>3, <1>4, ChunkType
<1>7. DOMAIN header' \subseteq Address /\ header' \in [DOMAIN header' -> LiveRecord]
  <2>1. \A a \in DOMAIN header' : header'[a] \in LiveRecord
    BY <1>3, <1>4
  <2>2. QED BY <2>1, <1>3, <1>4, FunctionInto
<1>8. TypeOK'
  BY <1>1, <1>3, <1>4, <1>5, <1>6, <1>7 DEF TypeOK
<1>9. QED BY <1>1, <1>3, <1>8 DEF IInv, PhaseOK

\* A replacement in detail: the state after insert, copy, unlink, release.
Kept(b, len) == IF header[b].requested < len THEN header[b].requested ELSE len

\* What a replacement of the buffer of b establishes.
Replaced(b, align, len, p) ==
    /\ b \in DOMAIN header /\ Kept(b, len) \in Nat
    /\ Kept(b, len) <= header[b].requested /\ Kept(b, len) <= len
    /\ p # 0 /\ p \notin DOMAIN header /\ FreshOf(align, len, p) \in LiveRecord
    /\ FreshOf(align, len, p).requested = len
    /\ FreshOf(align, len, p).user = p + UserOffset(align)
    /\ Record <= UserOffset(align) /\ UserOffset(align) \in Nat
    /\ p % BackingAlign(align) = 0
    /\ DOMAIN header' = (DOMAIN header \cup {p}) \ {b}
    /\ header' \in [DOMAIN header' -> LiveRecord]
    /\ \A a \in DOMAIN header' \ {p} :
          /\ header'[a].user = header[a].user
          /\ header'[a].requested = header[a].requested
    /\ header'[p].user = FreshOf(align, len, p).user /\ header'[p].requested = len
    /\ ChainOK(p, WithFresh(align, len, p)) /\ RecordsOK(WithFresh(align, len, p), pool')
    /\ DOMAIN WithFresh(align, len, p) = DOMAIN header \cup {p}
    /\ WithFresh(align, len, p)[p] = FreshOf(align, len, p)
    /\ \A a \in DOMAIN header : WithFresh(align, len, p)[a] = header[a]
    /\ content' = Scribbled(Copied(Scribbled(content, Cells(p, FreshOf(align, len, p).size)),
                                   header[b].user, FreshOf(align, len, p).user, Kept(b, len)),
                            Cells(b, header[b].size))
    /\ outcome' = [align |-> align, result |-> FreshOf(align, len, p).user]

LEMMA ReplaceFacts ==
    ASSUME IInv, NEW align \in Aligns \cap PowersOfTwo, NEW len \in Lengths \ {0},
           NEW b \in Named, NEW p \in Address, Replace(b, align, len, p)
    PROVE  Replaced(b, align, len, p) /\ IInv'
<1> DEFINE record == FreshOf(align, len, p)
           n == Kept(b, len)
           new == WithFresh(align, len, p)
           copied == Overwritten(new, Cells(record.user, n))
<1>1. /\ Enters /\ Insertable(align, len) /\ Malloc(record.size, record.align, p)
      /\ p # 0 /\ phase' = "ready" /\ heapBase' = heapBase
      /\ head' = UnlinkedHead(p, copied, b)
      /\ header' = Overwritten(Unlinked(p, copied, b), Cells(b, header[b].size))
      /\ content' = Scribbled(Copied(Scribbled(content, Cells(p, record.size)),
                                     header[b].user, record.user, n),
                              Cells(b, header[b].size))
      /\ chunks' = (chunks \cup {Chunk(p, record)}) \ {Chunk(b, header[b])}
      /\ outcome' = [align |-> align, result |-> record.user]
  BY DEF Replace, Return, FreshOf, WithFresh, Kept
<1>2. /\ record \in LiveRecord /\ p \notin DOMAIN header
      /\ record.requested = len /\ record.user = p + UserOffset(align)
      /\ Record <= UserOffset(align) /\ UserOffset(align) \in Nat
      /\ p % BackingAlign(align) = 0
      /\ DOMAIN new = DOMAIN header \cup {p} /\ new[p] = record
      /\ \A a \in DOMAIN header : new[a] = header[a]
      /\ IsAFunction(new)
      /\ ChainOK(p, new) /\ RecordsOK(new, pool')
      /\ ChunksOf(new) = chunks \cup {Chunk(p, record)}
      /\ SegmentsOK' /\ memory' \in 0 .. MaxPages
      /\ cursor' \in Address /\ pool' \in SUBSET Address
  <2>1. HasFresh(align, len, p, record, new)
    BY <1>1, FreshRecord
  <2> HIDE DEF record, new
  <2>2. QED BY <2>1 DEF HasFresh
<1> HIDE DEF new, record
<1>3. /\ DOMAIN header \subseteq Address /\ b \in DOMAIN header
      /\ \A a \in DOMAIN header : header[a] \in LiveRecord
      /\ chunks \in SUBSET [start : Address, size : Address, align : Address]
      /\ content \in [Address -> Value] /\ heapBase \in HeapBases
  BY NamedFacts DEF IInv, TypeOK
<1>4. n \in Nat /\ n <= header[b].requested /\ n <= len /\ len \in Nat
  <2>1. header[b] \in LiveRecord /\ len \in Lengths
    BY <1>3
  <2>2. header[b].requested \in Nat /\ len \in Nat
    BY <2>1, RecordTypes, LengthTypes
  <2>3. QED BY <2>2 DEF Kept
<1> HIDE DEF n
<1>5. DOMAIN new \subseteq Address /\ \A a \in DOMAIN new : new[a] \in LiveRecord
  BY <1>2, <1>3
<1>6. \A c \in DOMAIN new :
         /\ Cells(c, Record) \subseteq Cells(c, new[c].size)
         /\ Cells(new[c].user, new[c].requested) \subseteq Cells(c, new[c].size)
         /\ Cells(new[c].user, new[c].requested) \cap Cells(c, Record) = {}
  BY <1>2, <1>5, RecordInChunk
<1>7. Cells(record.user, n) \subseteq Cells(record.user, record.requested)
  BY <1>2, <1>4 DEF Cells, LiveRecord, Address
<1>8. \A c \in DOMAIN new : Cells(c, Record) \cap Cells(record.user, n) = {}
  <2> SUFFICES ASSUME NEW c \in DOMAIN new
               PROVE  Cells(c, Record) \cap Cells(record.user, n) = {}
    OBVIOUS
  <2>1. CASE c = p
    BY <2>1, <1>2, <1>6, <1>7
  <2>2. CASE c # p
    <3>1. Cells(p, record.size) \cap Cells(c, new[c].size) = {}
      BY <2>2, <1>2 DEF RecordsOK
    <3>2. Cells(record.user, n) \subseteq Cells(p, record.size)
      BY <1>2, <1>6, <1>7
    <3>3. QED BY <3>1, <3>2, <1>6
  <2>3. QED BY <2>1, <2>2
<1>9. copied = new
  BY <1>2, <1>8, OverwrittenNothing
<1> HIDE DEF copied
<1>10. b \in DOMAIN new /\ new[b] = header[b] /\ b # p
  BY <1>2, <1>3
<1>11. /\ header' = Released(p, new, b)
       /\ head' = UnlinkedHead(p, new, b)
  BY <1>1, <1>9, <1>10 DEF Released
<1>12. /\ DOMAIN header' = DOMAIN new \ {b}
       /\ IsAFunction(header')
       /\ \A a \in DOMAIN header' :
             /\ header'[a].user = new[a].user /\ header'[a].requested = new[a].requested
             /\ header'[a] \in LiveRecord
       /\ ChainOK(head', header') /\ RecordsOK(header', pool')
       /\ ChunksOf(header') = ChunksOf(new) \ {Chunk(b, new[b])} /\ head' \in Address
  <2>1. LacksReleased(p, new, b, pool', UnlinkedHead(p, new, b), Released(p, new, b))
    BY <1>2, <1>5, <1>10, ReleasedRecord
  <2>2. LacksReleased(p, new, b, pool', head', header')
    BY ONLY <2>1, <1>11
  <2>3. QED BY <2>2 DEF LacksReleased
<1>13. chunks' = ChunksOf(header')
  BY <1>1, <1>2, <1>10, <1>12
<1>14. content' \in [Address -> Value]
  <2> DEFINE fresh == Scribbled(content, Cells(p, record.size))
  <2>1. fresh \in [Address -> Value]
    BY <1>3 DEF Scribbled
  <2>2. Cells(header[b].user, header[b].requested) \subseteq Address
    BY <1>2, <1>6, <1>10 DEF RecordsOK
  <2> HIDE DEF fresh
  <2>3. \A a \in Cells(record.user, n) : header[b].user + (a - record.user) \in Address
    <3>1. record.user \in Nat /\ header[b].user \in Nat /\ header[b].requested \in Nat
      <4>1. record \in LiveRecord /\ header[b] \in LiveRecord
        BY <1>2, <1>3
      <4>2. QED BY <4>1, RecordTypes
    <3>2. \A a \in Cells(record.user, n) :
             header[b].user + (a - record.user) \in Cells(header[b].user, header[b].requested)
      BY <3>1, <1>4 DEF Cells
    <3>3. QED BY <3>2, <2>2
  <2>4. Copied(fresh, header[b].user, record.user, n) \in [Address -> Value]
    BY <2>1, <2>3 DEF Copied
  <2>5. QED BY <2>4, <1>1 DEF Scribbled, fresh
<1>15. chunks' \in SUBSET [start : Address, size : Address, align : Address]
  BY <1>1, <1>2, <1>3, ChunkType
<1>16. DOMAIN header' \subseteq Address /\ header' \in [DOMAIN header' -> LiveRecord]
  BY <1>5, <1>12, FunctionInto
<1>17. TypeOK'
  BY <1>1, <1>2, <1>3, <1>12, <1>14, <1>15, <1>16 DEF TypeOK
<1>18. IInv'
  BY <1>1, <1>2, <1>12, <1>13, <1>17 DEF IInv, PhaseOK
<1>19. Replaced(b, align, len, p)
  BY <1>1, <1>2, <1>3, <1>4, <1>10, <1>12, <1>16 DEF Replaced, new, record, n
<1>20. QED BY <1>18, <1>19

\* A record a write of its owner could hit: none, the buffer lies behind it.
LEMMA WriteSparesRecords ==
    ASSUME IInv, NEW b \in DOMAIN header, NEW i \in 0 .. header[b].requested - 1
    PROVE  /\ header[b].user + i \in Cells(header[b].user, header[b].requested)
           /\ header[b].user + i \in Address
           /\ Overwritten(header, {header[b].user + i}) = header
<1> DEFINE x == header[b].user + i
<1>1. /\ DOMAIN header \subseteq Address /\ IsAFunction(header)
      /\ \A a \in DOMAIN header : header[a] \in LiveRecord
      /\ RecordsOK(header, pool) /\ pool \in SUBSET Address
  BY DEF IInv, TypeOK, IsAFunction
<1>2. \A c \in DOMAIN header :
         /\ Cells(c, Record) \subseteq Cells(c, header[c].size)
         /\ Cells(header[c].user, header[c].requested) \subseteq Cells(c, header[c].size)
         /\ Cells(header[c].user, header[c].requested) \cap Cells(c, Record) = {}
  BY <1>1, RecordInChunk
<1>3. x \in Cells(header[b].user, header[b].requested)
  <2>1. header[b].user \in Nat /\ header[b].requested \in Nat
    BY <1>1, RecordTypes
  <2>2. QED BY <2>1 DEF Cells
<1>4. x \in Address
  BY <1>1, <1>2, <1>3 DEF RecordsOK
<1> HIDE DEF x
<1>5. \A c \in DOMAIN header : Cells(c, Record) \cap {x} = {}
  BY <1>1, <1>2, <1>3 DEF RecordsOK
<1>6. Overwritten(header, {x}) = header
  BY <1>1, <1>5, OverwrittenNothing
<1>7. QED BY <1>3, <1>4, <1>6 DEF x

LEMMA ClientWriteInv ==
    ASSUME IInv, ClientWrite
    PROVE  IInv'
<1>1. PICK b \in Registry(head, header), x \in Value \ {Junk} :
      \E i \in 0 .. header[b].requested - 1 :
        /\ content' = [content EXCEPT ![header[b].user + i] = x]
        /\ header' = Overwritten(header, {header[b].user + i})
        /\ UNCHANGED <<phase, heapBase, provider, chunks, head, outcome>>
  BY DEF ClientWrite
<1>2. PICK i \in 0 .. header[b].requested - 1 :
        /\ content' = [content EXCEPT ![header[b].user + i] = x]
        /\ header' = Overwritten(header, {header[b].user + i})
        /\ UNCHANGED <<phase, heapBase, provider, chunks, head, outcome>>
  BY <1>1
<1>3. b \in DOMAIN header
  BY DEF Registry
<1>4. header' = header /\ UNCHANGED <<phase, heapBase, memory, cursor, pool, chunks, head>>
  BY <1>2, <1>3, WriteSparesRecords DEF provider
<1>5. content' \in [Address -> Value]
  BY <1>2 DEF IInv, TypeOK
<1>6. TypeOK' /\ SegmentsOK' /\ PhaseOK'
  BY <1>4, <1>5 DEF IInv, TypeOK, SegmentsOK, PhaseOK, HeapBaseOK
<1>7. QED BY <1>4, <1>6 DEF IInv

\* The calls that trap before they enter.
LEMMA BusyInv ==
    ASSUME IInv, Reenter \/ FailToInitialize
    PROVE  IInv'
<1>1. UNCHANGED <<heapBase, memory, cursor, pool, chunks, head, header, content>>
  BY DEF Reenter, FailToInitialize, provider
<1>2. phase' = "busy" /\ (phase = "busy" \/ (phase = "uninitialized" /\ ~HeapBaseOK))
  BY DEF Reenter, FailToInitialize
<1>3. TypeOK' /\ SegmentsOK'
  BY <1>1, <1>2 DEF IInv, TypeOK, SegmentsOK
<1>4. PhaseOK'
  BY <1>1, <1>2 DEF IInv, PhaseOK, HeapBaseOK
<1>5. QED BY <1>1, <1>3, <1>4 DEF IInv

LEMMA RejectInv ==
    ASSUME IInv, Reject \/ \E align \in Aligns : FreeNothing(align)
    PROVE  IInv'
<1>1. /\ Enters /\ phase' = "ready" /\ heapBase' = heapBase /\ NoSegment
      /\ UNCHANGED <<chunks, head, header, content>>
  BY DEF Reject, FreeNothing, Return
<1>2. /\ SegmentsOK' /\ pool \subseteq pool'
      /\ memory' \in 0 .. MaxPages /\ cursor' \in Address /\ pool' \in SUBSET Address
  BY <1>1, NoSegmentStep
<1>3. QED BY <1>1, <1>2, QuietStep

LEMMA ExhaustedInv ==
    ASSUME IInv, NEW align \in Aligns \cap PowersOfTwo, NEW len \in Lengths \ {0},
           Exhausted(align, len)
    PROVE  IInv'
<1>1. /\ Enters /\ phase' = "ready" /\ heapBase' = heapBase
      /\ Malloc(UserOffset(align) + len, BackingAlign(align), 0)
      /\ UNCHANGED <<chunks, head, header, content>>
  BY DEF Exhausted, Return
<1>2. UserOffset(align) + len \in Nat /\ BackingAlign(align) \in Nat
  <2>1. align \in Nat \ {0}
    BY AlignAssumption
  <2>2. UserOffset(align) \in Nat
    BY <2>1, AlignUpBounds DEF UserOffset
  <2>3. QED BY <2>1, <2>2 DEF BackingAlign
<1>3. /\ SegmentsOK' /\ pool \subseteq pool'
      /\ memory' \in 0 .. MaxPages /\ cursor' \in Address /\ pool' \in SUBSET Address
  BY <1>1, <1>2, MallocStep
<1>4. QED BY <1>1, <1>3, QuietStep

LEMMA InitInv ==
    ASSUME Init PROVE IInv
<1>1. TypeOK
  <2>1. 0 \in Address
    BY DEF Address
  <2>2. header = [a \in {} |-> 0] /\ DOMAIN header = {}
    BY DEF Init
  <2>3. header \in [DOMAIN header -> LiveRecord]
    BY <2>2
  <2>4. QED BY <2>1, <2>2, <2>3 DEF Init, TypeOK
<1>2. DOMAIN header = {} /\ head = 0
  BY DEF Init
<1>3. ChainOK(head, header) /\ RecordsOK(header, pool)
  BY <1>2 DEF ChainOK, RecordsOK
<1>4. chunks = ChunksOf(header)
  BY <1>2 DEF Init, ChunksOf
<1>5. SegmentsOK /\ PhaseOK
  BY DEF Init, SegmentsOK, PhaseOK
<1>6. QED BY <1>1, <1>3, <1>4, <1>5 DEF IInv

LEMMA NextInv ==
    ASSUME IInv, [Next]_vars PROVE IInv'
<1>1. CASE Reenter \/ FailToInitialize
  BY <1>1, BusyInv
<1>2. CASE Reject
  BY <1>2, RejectInv
<1>3. CASE ClientWrite
  BY <1>3, ClientWriteInv
<1>4. ASSUME NEW align \in Aligns \cap PowersOfTwo, FreeNothing(align)
      PROVE  IInv'
  BY <1>4, RejectInv
<1>5. ASSUME NEW align \in Aligns \cap PowersOfTwo, NEW b \in Named, Free(b, align)
      PROVE  IInv'
  BY <1>5, FreeInv
<1>6. ASSUME NEW align \in Aligns \cap PowersOfTwo, NEW len \in Lengths \ {0},
             Exhausted(align, len)
      PROVE  IInv'
  BY <1>6, ExhaustedInv
<1>7. ASSUME NEW align \in Aligns \cap PowersOfTwo, NEW len \in Lengths \ {0},
             NEW p \in Address, Allocate(align, len, p)
      PROVE  IInv'
  BY <1>7, AllocateInv
<1>8. ASSUME NEW align \in Aligns \cap PowersOfTwo, NEW len \in Lengths \ {0},
             NEW b \in Named, NEW p \in Address, Replace(b, align, len, p)
      PROVE  IInv'
  BY <1>8, ReplaceFacts
<1>9. CASE Calls
  BY <1>9, <1>4, <1>5, <1>6, <1>7, <1>8 DEF Calls
<1>10. CASE UNCHANGED vars
  BY <1>10 DEF vars, provider, IInv, TypeOK, SegmentsOK, PhaseOK, HeapBaseOK
<1>11. QED BY <1>1, <1>2, <1>3, <1>9, <1>10 DEF Next

LEMMA Inductive == Spec => []IInv
<1>1. Init => IInv
  BY InitInv
<1>2. IInv /\ [Next]_vars => IInv'
  BY NextInv
<1>3. QED BY <1>1, <1>2, PTL DEF Spec

-----------------------------------------------------------------------------
(* The safety properties *)

\* Every variable keeps its type, whatever the sizes of the memory, of a
\* record and of the arguments: the arithmetic of cabi_realloc never leaves
\* the addresses, and nothing is written beyond them.
THEOREM TypesCorrect == Spec => []TypeOK
<1>1. IInv => TypeOK
  BY DEF IInv
<1>2. QED BY <1>1, Inductive, PTL

\* No call loses or leaks a record: the list reaches every intact record, and
\* dlmalloc's outstanding chunks are those of the records (insert, unlink).
THEOREM RecordsNeverLost == Spec => []RegistryIsChunks
<1>1. IInv => RegistryIsChunks
  BY RegistryComplete DEF IInv, RegistryIsChunks, ChunksOf
<1>2. QED BY <1>1, Inductive, PTL

\* No two live buffers share a cell, and no buffer meets a record (insert).
THEOREM BuffersDisjoint == Spec => []BuffersApart
<1>1. ASSUME IInv PROVE BuffersApart
  <2>1. /\ RecordsOK(header, pool) /\ DOMAIN header \subseteq Address
        /\ \A a \in DOMAIN header : header[a] \in LiveRecord
    BY <1>1 DEF IInv, TypeOK
  <2>2. \A a \in DOMAIN header : header[a].user + header[a].requested = a + header[a].size
    BY <2>1 DEF RecordsOK
  <2>3. \A a \in DOMAIN header : /\ header[a].user \in Nat /\ header[a].requested \in Nat
                                /\ header[a].size \in Nat /\ a \in Nat
    BY <2>1, RecordTypes DEF Address
  <2>4. \A a \in DOMAIN header : header[a].user + header[a].requested <= a + header[a].size
    BY <2>2, <2>3
  <2>5. QED BY <2>1, <2>4 DEF RecordsOK, BuffersApart
<1>2. QED BY <1>1, Inductive, PTL

\* The segments stay above the application's static data and below the
\* cursor, and the cursor inside the memory (Provision::alloc).
THEOREM SegmentsBounded == Spec => []SegmentsBelowCursor
<1>1. IInv => SegmentsBelowCursor
  BY DEF IInv, SegmentsOK, PhaseOK, TypeOK, SegmentsBelowCursor
<1>2. QED BY <1>1, Inductive, PTL

\* The provider stays busy only after an initialisation that failed, before
\* anything was handed out (phase::enter, initialize).
THEOREM BusyIsDead == Spec => []BusyOnlyAfterFailedStart
<1>1. IInv => BusyOnlyAfterFailedStart
  BY DEF IInv, PhaseOK, BusyOnlyAfterFailedStart
<1>2. QED BY <1>1, Inductive, PTL

\* A fresh buffer is aligned: its chunk is aligned to the larger of the two
\* alignments, its offset to the one asked for.
LEMMA FreshAligned ==
    ASSUME NEW align \in Aligns \cap PowersOfTwo, NEW p \in Address,
           p % BackingAlign(align) = 0
    PROVE  (p + UserOffset(align)) % align = 0
<1>1. align \in Nat \ {0} /\ RecordAlign \in Nat \ {0} /\ p \in Nat
  BY AlignAssumption DEF Address
<1>2. UserOffset(align) \in Nat /\ UserOffset(align) % align = 0
  BY <1>1, AlignUpBounds, AlignUpAligned DEF UserOffset
<1>3. p % align = 0
  <2>1. CASE align > RecordAlign
    BY <2>1 DEF BackingAlign
  <2>2. CASE ~(align > RecordAlign)
    <3>1. RecordAlign % align = 0 /\ p % RecordAlign = 0
      BY <1>1, <2>2, AlignAssumption DEF BackingAlign
    <3>2. QED BY <1>1, <3>1, MultipleOfMultiple
  <2>3. QED BY <2>1, <2>2
<1>4. QED BY <1>1, <1>2, <1>3, SumOfMultiples

\* A pointer cabi_realloc returns has the alignment that was asked for.
THEOREM PointersAligned == Spec => []ReturnedPointerAligned
<1>1. Init => ReturnedPointerAligned
  BY DEF Init, ReturnedPointerAligned
<1>2. ASSUME IInv, ReturnedPointerAligned, [Next]_vars
      PROVE  ReturnedPointerAligned'
  <2>1. CASE \/ Reenter \/ FailToInitialize \/ Reject
             \/ \E align \in Aligns \cap PowersOfTwo :
                   \/ FreeNothing(align) \/ \E b \in Named : Free(b, align)
                   \/ \E len \in Lengths \ {0} : Exhausted(align, len)
    BY <2>1 DEF Reenter, FailToInitialize, Reject, FreeNothing, Free, Exhausted, Return,
                ReturnedPointerAligned
  <2>2. ASSUME NEW align \in Aligns \cap PowersOfTwo, NEW len \in Lengths \ {0},
               NEW p \in Address, Allocate(align, len, p)
        PROVE  ReturnedPointerAligned'
    <3>1. /\ Enters /\ Insertable(align, len)
          /\ Malloc(FreshOf(align, len, p).size, FreshOf(align, len, p).align, p)
          /\ p # 0 /\ phase' = "ready" /\ heapBase' = heapBase
          /\ outcome' = [align |-> align, result |-> FreshOf(align, len, p).user]
      BY <2>2 DEF Allocate, Return, FreshOf
    <3>2. HasFresh(align, len, p, FreshOf(align, len, p), WithFresh(align, len, p))
      BY <1>2, <3>1, FreshRecord
    <3>3. FreshOf(align, len, p).user = p + UserOffset(align) /\ p % BackingAlign(align) = 0
      BY <3>2 DEF HasFresh
    <3>4. (p + UserOffset(align)) % align = 0
      BY <3>3, FreshAligned
    <3>5. QED BY <3>1, <3>3, <3>4 DEF ReturnedPointerAligned
  <2>3. ASSUME NEW align \in Aligns \cap PowersOfTwo, NEW len \in Lengths \ {0},
               NEW b \in Named, NEW p \in Address, Replace(b, align, len, p)
        PROVE  ReturnedPointerAligned'
    <3>0. Replaced(b, align, len, p)
      BY <1>2, <2>3, ReplaceFacts
    <3>1. /\ outcome' = [align |-> align, result |-> FreshOf(align, len, p).user]
          /\ FreshOf(align, len, p).user = p + UserOffset(align)
          /\ p % BackingAlign(align) = 0
      BY <3>0, Zenon DEF Replaced
    <3>2. (p + UserOffset(align)) % align = 0
      BY <3>1, FreshAligned
    <3>3. QED BY <3>1, <3>2 DEF ReturnedPointerAligned
  <2>4. CASE ClientWrite \/ UNCHANGED vars
    BY <2>4, <1>2 DEF ClientWrite, vars, ReturnedPointerAligned
  <2>5. QED BY <1>2, <2>1, <2>2, <2>3, <2>4 DEF Next, Calls
<1>3. QED BY <1>1, <1>2, Inductive, PTL DEF Spec

-----------------------------------------------------------------------------
(* The refinement *)

\* The buffers of a registry, and one by one.
BlocksOf(hd, hdr, data) ==
    [u \in {hdr[b].user : b \in Registry(hd, hdr)} |->
        LET b == CHOOSE c \in Registry(hd, hdr) : hdr[c].user = u
        IN  [i \in 0 .. hdr[b].requested - 1 |-> data[u + i]]]

BufferOf(record, data) == [i \in 0 .. record.requested - 1 |-> data[record.user + i]]

\* A good registry: the parts of the invariant the buffers depend on.
Layout(hd, hdr, cells) ==
    /\ ChainOK(hd, hdr) /\ RecordsOK(hdr, cells)
    /\ DOMAIN hdr \subseteq Address /\ \A a \in DOMAIN hdr : hdr[a] \in LiveRecord
    /\ cells \in SUBSET Address

LEMMA LayoutOfInv ==
    ASSUME IInv PROVE Layout(head, header, pool)
BY DEF IInv, TypeOK, Layout

\* Buffers of two records have no cell in common.
LEMMA BuffersMeetNot ==
    ASSUME NEW hd, NEW hdr, NEW cells, Layout(hd, hdr, cells),
           NEW b \in DOMAIN hdr, NEW c \in DOMAIN hdr, b # c
    PROVE  /\ Cells(hdr[b].user, hdr[b].requested) \cap Cells(hdr[c].user, hdr[c].requested) = {}
           /\ Cells(hdr[b].user, hdr[b].requested) \cap Cells(c, hdr[c].size) = {}
<1>1. \A a \in DOMAIN hdr :
         Cells(hdr[a].user, hdr[a].requested) \subseteq Cells(a, hdr[a].size)
  BY RecordInChunk DEF Layout
<1>2. Cells(b, hdr[b].size) \cap Cells(c, hdr[c].size) = {}
  BY DEF Layout, RecordsOK
<1>3. QED BY <1>1, <1>2

LEMMA BufferCells ==
    ASSUME NEW hd, NEW hdr, NEW cells, Layout(hd, hdr, cells), NEW b \in DOMAIN hdr
    PROVE  /\ hdr[b].user \in Cells(hdr[b].user, hdr[b].requested)
           /\ Cells(hdr[b].user, hdr[b].requested) \subseteq Address
           /\ hdr[b].requested \in Nat \ {0} /\ hdr[b].user \in Address \ {0}
           /\ \A i \in 0 .. hdr[b].requested - 1 :
                 hdr[b].user + i \in Cells(hdr[b].user, hdr[b].requested)
<1>1. /\ Cells(hdr[b].user, hdr[b].requested) \subseteq Cells(b, hdr[b].size)
      /\ hdr[b].user \in Cells(hdr[b].user, hdr[b].requested)
  BY RecordInChunk DEF Layout
<1>2. Cells(b, hdr[b].size) \subseteq Address /\ hdr[b].requested # 0
      /\ b + Record <= hdr[b].user
  BY DEF Layout, RecordsOK
<1>3. hdr[b].user \in Nat /\ hdr[b].requested \in Nat /\ b \in Nat
  BY RecordTypes DEF Layout, Address
<1>4. \A i \in 0 .. hdr[b].requested - 1 :
         hdr[b].user + i \in Cells(hdr[b].user, hdr[b].requested)
  BY <1>3 DEF Cells
<1>5. hdr[b].user # 0
  BY <1>2, <1>3
<1>6. QED BY <1>1, <1>2, <1>3, <1>4, <1>5

LEMMA UsersDistinct ==
    ASSUME NEW hd, NEW hdr, NEW cells, Layout(hd, hdr, cells),
           NEW b \in DOMAIN hdr, NEW c \in DOMAIN hdr, hdr[b].user = hdr[c].user
    PROVE  b = c
<1> SUFFICES ASSUME b # c PROVE FALSE
  OBVIOUS
<1>1. hdr[b].user \in Cells(hdr[b].user, hdr[b].requested)
      /\ hdr[c].user \in Cells(hdr[c].user, hdr[c].requested)
  BY BufferCells
<1>2. QED BY <1>1, BuffersMeetNot

\* B maps the address of every record's buffer to its contents.
HoldsBuffers(B, hdr, data) ==
    /\ DOMAIN B = {hdr[b].user : b \in DOMAIN hdr} /\ IsAFunction(B)
    /\ \A b \in DOMAIN hdr : B[hdr[b].user] = BufferOf(hdr[b], data)

LEMMA BlocksFacts ==
    ASSUME NEW hd, NEW hdr, NEW cells, NEW data, Layout(hd, hdr, cells)
    PROVE  HoldsBuffers(BlocksOf(hd, hdr, data), hdr, data)
<1>1. Registry(hd, hdr) = DOMAIN hdr
  BY RegistryComplete DEF Layout
<1>2. \A b, c \in DOMAIN hdr : hdr[b].user = hdr[c].user => b = c
  BY UsersDistinct
<1>3. DOMAIN BlocksOf(hd, hdr, data) = {hdr[b].user : b \in DOMAIN hdr}
  BY <1>1 DEF BlocksOf
<1>4. ASSUME NEW b \in DOMAIN hdr
      PROVE  BlocksOf(hd, hdr, data)[hdr[b].user] = BufferOf(hdr[b], data)
  <2>1. (CHOOSE c \in Registry(hd, hdr) : hdr[c].user = hdr[b].user) = b
    BY <1>1, <1>2
  <2>2. QED BY <1>1, <2>1 DEF BlocksOf, BufferOf
<1>5. IsAFunction(BlocksOf(hd, hdr, data))
  BY DEF IsAFunction, BlocksOf
<1>6. QED BY <1>3, <1>4, <1>5 DEF HoldsBuffers

\* A buffer depends on its own cells only.
LEMMA BufferUnchanged ==
    ASSUME NEW r, NEW s, NEW data, NEW other, r.user = s.user, r.requested = s.requested,
           \A i \in 0 .. r.requested - 1 : data[r.user + i] = other[r.user + i]
    PROVE  BufferOf(r, data) = BufferOf(s, other)
BY DEF BufferOf

LEMMA BlocksAreBlocksOf ==
    Blocks = BlocksOf(head, header, content)
BY DEF Blocks, BlocksOf

\* Releasing the buffer of b leaves the others as they are.
LEMMA BufferRemoved ==
    ASSUME NEW hd, NEW hdr, NEW cells, NEW data, Layout(hd, hdr, cells),
           NEW hd2, NEW new, NEW cells2, NEW other, Layout(hd2, new, cells2),
           NEW b \in DOMAIN hdr, DOMAIN new = DOMAIN hdr \ {b},
           \A a \in DOMAIN new : BufferOf(new[a], other) = BufferOf(hdr[a], data),
           \A a \in DOMAIN new : new[a].user = hdr[a].user
    PROVE  BlocksOf(hd2, new, other) = Contract!Without(BlocksOf(hd, hdr, data), hdr[b].user)
<1> DEFINE A == BlocksOf(hd2, new, other)
           B == BlocksOf(hd, hdr, data)
           u == hdr[b].user
<1>b. HoldsBuffers(B, hdr, data)
  BY BlocksFacts
<1>a. HoldsBuffers(A, new, other)
  BY BlocksFacts
<1> HIDE DEF A, B
<1>1. /\ DOMAIN B = {hdr[a].user : a \in DOMAIN hdr}
      /\ \A a \in DOMAIN hdr : B[hdr[a].user] = BufferOf(hdr[a], data)
  BY <1>b DEF HoldsBuffers
<1>2. /\ DOMAIN A = {new[a].user : a \in DOMAIN new} /\ IsAFunction(A)
      /\ \A a \in DOMAIN new : A[new[a].user] = BufferOf(new[a], other)
  BY <1>a DEF HoldsBuffers
<1>3. \A a \in DOMAIN hdr : hdr[a].user = u => a = b
  BY UsersDistinct
<1>4. DOMAIN A = DOMAIN B \ {u}
  BY <1>1, <1>2, <1>3
<1>5. \A v \in DOMAIN A : A[v] = B[v]
  BY <1>1, <1>2
<1>6. A = [v \in DOMAIN B \ {u} |-> B[v]]
  BY <1>2, <1>4, <1>5 DEF IsAFunction
<1>7. QED BY <1>6 DEF Contract!Without, A, B

\* A buffer is handed out: B are the buffers of the records K, which stay.
LEMMA BufferHandedOut ==
    ASSUME NEW hd, NEW hdr, NEW cells, NEW data, Layout(hd, hdr, cells),
           NEW hd2, NEW new, NEW cells2, NEW other, Layout(hd2, new, cells2),
           other \in [Address -> Value],
           NEW K \in SUBSET DOMAIN hdr, NEW p, DOMAIN new = K \cup {p},
           \A a \in DOMAIN hdr : Cells(hdr[a].user, hdr[a].requested)
                                   \cap Cells(new[p].user, new[p].requested) = {},
           \A a \in K : BufferOf(new[a], other) = BufferOf(hdr[a], data),
           \A a \in K : new[a].user = hdr[a].user,
           NEW B, DOMAIN B = {hdr[a].user : a \in K},
           \A a \in K : B[hdr[a].user] = BufferOf(hdr[a], data)
    PROVE  Contract!Handout(BlocksOf(hd, hdr, data), B, new[p].user, BlocksOf(hd2, new, other))
<1> DEFINE A == BlocksOf(hd2, new, other)
           before == BlocksOf(hd, hdr, data)
           u == new[p].user
           len == new[p].requested
<1>b. HoldsBuffers(before, hdr, data)
  BY BlocksFacts
<1>a. HoldsBuffers(A, new, other)
  BY BlocksFacts
<1> HIDE DEF A, before
<1>1. /\ DOMAIN before = {hdr[a].user : a \in DOMAIN hdr}
      /\ \A a \in DOMAIN hdr : before[hdr[a].user] = BufferOf(hdr[a], data)
  BY <1>b DEF HoldsBuffers
<1>2. /\ DOMAIN A = {new[a].user : a \in DOMAIN new}
      /\ \A a \in DOMAIN new : A[new[a].user] = BufferOf(new[a], other)
  BY <1>a DEF HoldsBuffers
<1>3. /\ len \in Nat \ {0} /\ u \in Address \ {0} /\ Cells(u, len) \subseteq Address
      /\ \A i \in 0 .. len - 1 : u + i \in Cells(u, len)
  BY BufferCells
<1>4. DOMAIN A = DOMAIN B \cup {u}
  BY <1>2
<1>5. \A v \in DOMAIN B \ {u} : A[v] = B[v]
  BY <1>2
<1>6. A[u] = BufferOf(new[p], other)
  BY <1>2
<1>7. DOMAIN A[u] = 0 .. len - 1 /\ \A i \in 0 .. len - 1 : A[u][i] = other[u + i]
  BY <1>6 DEF BufferOf
<1>8. \A i \in DOMAIN A[u] : A[u][i] \in Value
  BY <1>3, <1>7
<1>9. Contract!Apart(u, len, before)
  <2> SUFFICES ASSUME NEW a \in DOMAIN hdr, NEW i \in DOMAIN before[hdr[a].user]
               PROVE  ~(u <= hdr[a].user + i /\ hdr[a].user + i < u + len)
    BY <1>1 DEF Contract!Apart
  <2>1. i \in 0 .. hdr[a].requested - 1
    BY <1>1 DEF BufferOf
  <2>2. hdr[a].user + i \in Cells(hdr[a].user, hdr[a].requested) /\ hdr[a].user \in Nat
    BY <2>1, BufferCells DEF Address
  <2>3. hdr[a].user + i \notin Cells(u, len)
    BY <2>2
  <2>4. QED BY <2>1, <2>2, <2>3, <1>3 DEF Cells, Address
<1>10. len - 1 \in Address /\ (len - 1) + 1 = len
  <2>1. u + (len - 1) \in Cells(u, len)
    BY <1>3
  <2>2. QED BY <2>1, <1>3 DEF Address
<1> HIDE DEF u, len
<1>11. \E l \in Address : DOMAIN A[u] = 0 .. l /\ Contract!Apart(u, l + 1, before)
  BY <1>7, <1>9, <1>10
<1>12. Contract!Handout(before, B, u, A)
  BY <1>3, <1>4, <1>5, <1>8, <1>11 DEF Contract!Handout
<1>13. QED BY <1>12 DEF A, before, u

\* A call that writes the cells of one chunk only keeps the buffers of other
\* records.
LEMMA ScribbledElsewhere ==
    ASSUME NEW hd, NEW hdr, NEW cells, Layout(hd, hdr, cells),
           NEW a \in DOMAIN hdr, NEW c \in DOMAIN hdr, a # c,
           NEW data, NEW i \in 0 .. hdr[a].requested - 1
    PROVE  Scribbled(data, Cells(c, hdr[c].size))[hdr[a].user + i] = data[hdr[a].user + i]
<1>1. /\ hdr[a].user + i \in Cells(hdr[a].user, hdr[a].requested)
      /\ Cells(hdr[a].user, hdr[a].requested) \subseteq Address
  BY BufferCells
<1>2. Cells(hdr[a].user, hdr[a].requested) \cap Cells(c, hdr[c].size) = {}
  BY BuffersMeetNot
<1>3. QED BY <1>1, <1>2 DEF Scribbled

LEMMA BlocksNext ==
    /\ Blocks = BlocksOf(head, header, content)
    /\ Blocks' = BlocksOf(head', header', content')
BY DEF Blocks, BlocksOf

LEMMA FreeImplements ==
    ASSUME IInv, NEW align \in Aligns, NEW b \in Named, Free(b, align), IInv'
    PROVE  Contract!Free(Blocks, Blocks')
<1>1. Layout(head, header, pool)
  BY LayoutOfInv
<1>2. Layout(head', header', pool')
  BY DEF IInv, TypeOK, Layout
<1>3. b \in DOMAIN header
  BY NamedFacts
<1>4. /\ header' = Released(head, header, b)
      /\ head' = UnlinkedHead(head, header, b)
      /\ content' = Scribbled(content, Cells(b, header[b].size))
  BY DEF Free, Released
<1>5. LacksReleased(head, header, b, pool, UnlinkedHead(head, header, b),
                    Released(head, header, b))
  <2>1. /\ ChainOK(head, header) /\ RecordsOK(header, pool)
        /\ DOMAIN header \subseteq Address /\ head \in Address
        /\ \A a \in DOMAIN header : header[a] \in LiveRecord
    BY DEF IInv, TypeOK
  <2>2. QED BY <1>3, <2>1, ReleasedRecord
<1>6. LacksReleased(head, header, b, pool, head', header')
  BY ONLY <1>4, <1>5
<1>7. /\ DOMAIN header' = DOMAIN header \ {b}
      /\ \A a \in DOMAIN header' : /\ header'[a].user = header[a].user
                                  /\ header'[a].requested = header[a].requested
  BY <1>6 DEF LacksReleased
<1>8. \A a \in DOMAIN header' : header'[a].user = header[a].user
  BY <1>7
<1>9. ASSUME NEW a \in DOMAIN header'
      PROVE  BufferOf(header'[a], content') = BufferOf(header[a], content)
  <2>1. \A i \in 0 .. header[a].requested - 1 :
           content'[header[a].user + i] = content[header[a].user + i]
    BY <1>1, <1>3, <1>4, <1>7, ScribbledElsewhere
  <2>2. QED BY <1>7, <2>1, BufferUnchanged
<1>a. \A a \in DOMAIN header' : BufferOf(header'[a], content') = BufferOf(header[a], content)
  BY <1>9
<1>b. DOMAIN header' = DOMAIN header \ {b}
  BY <1>7
<1>10. BlocksOf(head', header', content')
         = Contract!Without(BlocksOf(head, header, content), header[b].user)
  BY ONLY <1>1, <1>2, <1>3, <1>a, <1>b, <1>8, BufferRemoved
<1>11. header[b].user \in DOMAIN BlocksOf(head, header, content)
  <2>1. HoldsBuffers(BlocksOf(head, header, content), header, content)
    BY <1>1, BlocksFacts
  <2>2. QED BY <2>1, <1>3 DEF HoldsBuffers
<1>12. QED BY <1>10, <1>11, BlocksNext DEF Contract!Free

LEMMA AllocateImplements ==
    ASSUME IInv, NEW align \in Aligns \cap PowersOfTwo, NEW len \in Lengths \ {0},
           NEW p \in Address, Allocate(align, len, p), IInv'
    PROVE  Contract!Alloc(Blocks, Blocks')
<1>1. Layout(head, header, pool)
  BY LayoutOfInv
<1>2. Layout(head', header', pool')
  BY DEF IInv, TypeOK, Layout
<1>3. /\ Enters /\ Insertable(align, len)
      /\ Malloc(FreshOf(align, len, p).size, FreshOf(align, len, p).align, p)
      /\ p # 0 /\ phase' = "ready" /\ heapBase' = heapBase
      /\ header' = WithFresh(align, len, p) /\ head' = p
      /\ content' = Scribbled(content, Cells(p, FreshOf(align, len, p).size))
  BY DEF Allocate, Return, FreshOf, WithFresh
<1>4. HasFresh(align, len, p, FreshOf(align, len, p), WithFresh(align, len, p))
  BY <1>3, FreshRecord
<1>5. HasFresh(align, len, p, FreshOf(align, len, p), header')
  BY ONLY <1>3, <1>4
<1>6. /\ DOMAIN header' = DOMAIN header \cup {p} /\ header'[p] = FreshOf(align, len, p)
      /\ \A a \in DOMAIN header : header'[a] = header[a]
      /\ p \notin DOMAIN header
  BY <1>5 DEF HasFresh
<1>7. content' = Scribbled(content, Cells(p, header'[p].size))
  BY <1>3, <1>6
<1>8. \A a \in DOMAIN header : header'[a].user = header[a].user
  BY <1>6
<1>9. ASSUME NEW a \in DOMAIN header
      PROVE  /\ BufferOf(header'[a], content') = BufferOf(header[a], content)
             /\ Cells(header[a].user, header[a].requested)
                  \cap Cells(header'[p].user, header'[p].requested) = {}
  <2>0. a \in DOMAIN header' /\ p \in DOMAIN header' /\ a # p /\ header'[a] = header[a]
    BY <1>6
  <2>1. \A i \in 0 .. header'[a].requested - 1 :
           Scribbled(content, Cells(p, header'[p].size))[header'[a].user + i]
             = content[header'[a].user + i]
    BY <1>2, <2>0, ScribbledElsewhere
  <2>2. BufferOf(header'[a], content') = BufferOf(header[a], content)
    BY <1>7, <2>0, <2>1, BufferUnchanged
  <2>3. Cells(header'[a].user, header'[a].requested)
          \cap Cells(header'[p].user, header'[p].requested) = {}
    BY <1>2, <2>0, BuffersMeetNot
  <2>4. QED BY <2>0, <2>2, <2>3
<1>10. \A a \in DOMAIN header : BufferOf(header'[a], content') = BufferOf(header[a], content)
  BY <1>9
<1>11. \A a \in DOMAIN header : Cells(header[a].user, header[a].requested)
                                 \cap Cells(header'[p].user, header'[p].requested) = {}
  BY <1>9
<1>12. DOMAIN header' = DOMAIN header \cup {p} /\ DOMAIN header \in SUBSET DOMAIN header
  BY <1>6
<1>13. content' \in [Address -> Value]
  BY DEF IInv, TypeOK
<1> DEFINE B == BlocksOf(head, header, content)
<1>14. HoldsBuffers(B, header, content)
  BY <1>1, BlocksFacts
<1>15. DOMAIN B = {header[a].user : a \in DOMAIN header}
  <2> HIDE DEF B
  <2> QED BY <1>14 DEF HoldsBuffers
<1>16. \A a \in DOMAIN header : B[header[a].user] = BufferOf(header[a], content)
  <2> HIDE DEF B
  <2> QED BY <1>14 DEF HoldsBuffers
<1>17. Contract!Handout(B, B, header'[p].user, BlocksOf(head', header', content'))
  <2>1. \A C : DOMAIN C = {header[a].user : a \in DOMAIN header}
                 /\ (\A a \in DOMAIN header : C[header[a].user] = BufferOf(header[a], content))
               => Contract!Handout(BlocksOf(head, header, content), C, header'[p].user,
                                   BlocksOf(head', header', content'))
    BY ONLY <1>1, <1>2, <1>8, <1>10, <1>11, <1>12, <1>13, BufferHandedOut
  <2>2. QED BY <2>1, <1>15, <1>16
<1>18. header'[p].user \in DOMAIN BlocksOf(head', header', content')
  <2>1. HoldsBuffers(BlocksOf(head', header', content'), header', content')
    BY <1>2, BlocksFacts
  <2>2. QED BY <2>1, <1>6 DEF HoldsBuffers
<1>19. QED BY <1>17, <1>18, BlocksNext DEF Contract!Alloc

LEMMA ReplaceImplements ==
    ASSUME IInv, NEW align \in Aligns \cap PowersOfTwo, NEW len \in Lengths \ {0},
           NEW b \in Named, NEW p \in Address, Replace(b, align, len, p), IInv'
    PROVE  Contract!Replace(Blocks, Blocks')
<1> DEFINE W == WithFresh(align, len, p)
           record == FreshOf(align, len, p)
           n == Kept(b, len)
           fresh == Scribbled(content, Cells(p, record.size))
           filled == Copied(fresh, header[b].user, record.user, n)
<1>1. Layout(head, header, pool)
  BY LayoutOfInv
<1>2. Layout(head', header', pool')
  BY DEF IInv, TypeOK, Layout
<1>3. Replaced(b, align, len, p)
  BY ReplaceFacts
<1>4. /\ b \in DOMAIN header /\ n \in Nat /\ n <= header[b].requested /\ n <= len
      /\ p # 0 /\ p \notin DOMAIN header /\ record \in LiveRecord /\ record.requested = len
      /\ DOMAIN header' = (DOMAIN header \cup {p}) \ {b}
      /\ header' \in [DOMAIN header' -> LiveRecord]
      /\ \A a \in DOMAIN header' \ {p} : /\ header'[a].user = header[a].user
                                        /\ header'[a].requested = header[a].requested
      /\ header'[p].user = record.user /\ header'[p].requested = len
      /\ ChainOK(p, W) /\ RecordsOK(W, pool')
      /\ DOMAIN W = DOMAIN header \cup {p} /\ W[p] = record
      /\ \A a \in DOMAIN header : W[a] = header[a]
      /\ content' = Scribbled(filled, Cells(b, header[b].size))
  BY <1>3, Zenon DEF Replaced
<1>5. Layout(p, W, pool')
  <2> HIDE DEF W, record
  <2>1. DOMAIN W \subseteq Address /\ \A a \in DOMAIN W : W[a] \in LiveRecord
    BY <1>1, <1>4 DEF Layout
  <2>2. pool' \in SUBSET Address
    BY <1>2 DEF Layout
  <2>3. QED BY <1>4, <2>1, <2>2 DEF Layout
<1> HIDE DEF W, record, n, filled, fresh
<1>c. b \in DOMAIN W /\ p \in DOMAIN W /\ b # p /\ W[b] = header[b] /\ W[p] = record
  BY <1>4
<1>d. n \in Nat /\ len \in Nat /\ n <= len /\ record.requested = len
  BY <1>4, LengthTypes
<1>e. record.user \in Nat
  BY <1>4, RecordTypes
<1>6. \* The copied cells are those of the new buffer.
      ASSUME NEW a \in DOMAIN header, a # b, NEW i \in 0 .. header[a].requested - 1
      PROVE  content'[header[a].user + i] = content[header[a].user + i]
  <2>0. a \in DOMAIN W /\ a # p /\ W[a] = header[a]
    BY <1>4
  <2>1. Scribbled(filled, Cells(b, W[b].size))[W[a].user + i] = filled[W[a].user + i]
    BY <1>5, <1>c, <1>6, <2>0, ScribbledElsewhere
  <2>2. Scribbled(content, Cells(p, W[p].size))[W[a].user + i] = content[W[a].user + i]
    BY <1>5, <1>c, <2>0, ScribbledElsewhere
  <2>3. /\ W[a].user + i \in Cells(W[a].user, W[a].requested)
        /\ Cells(W[a].user, W[a].requested) \subseteq Address
    BY <1>5, <2>0, BufferCells
  <2>4. Cells(W[a].user, W[a].requested) \cap Cells(W[p].user, W[p].requested) = {}
    BY <1>5, <1>c, <2>0, BuffersMeetNot
  <2>5. Cells(record.user, n) \subseteq Cells(record.user, record.requested)
    BY <1>d, <1>e DEF Cells
  <2>6. filled[W[a].user + i] = fresh[W[a].user + i]
    BY <1>c, <2>3, <2>4, <2>5 DEF filled, Copied
  <2>7. QED BY <1>4, <1>c, <2>0, <2>1, <2>2, <2>6 DEF fresh
<1> DEFINE K == DOMAIN header \ {b}
           Old == BlocksOf(head, header, content)
           New == BlocksOf(head', header', content')
           B == Contract!Without(Old, header[b].user)
<1>7. DOMAIN header' = K \cup {p} /\ K \in SUBSET DOMAIN header
  BY <1>4
<1>8. \A a \in K : header'[a].user = header[a].user
  BY <1>4
<1>9. \A a \in K : BufferOf(header'[a], content') = BufferOf(header[a], content)
  <2> SUFFICES ASSUME NEW a \in K
               PROVE  BufferOf(header'[a], content') = BufferOf(header[a], content)
    OBVIOUS
  <2>1. \A i \in 0 .. header[a].requested - 1 :
           content'[header[a].user + i] = content[header[a].user + i]
    BY <1>6
  <2>2. header'[a].user = header[a].user /\ header'[a].requested = header[a].requested
    BY <1>4
  <2>3. QED BY <2>1, <2>2, BufferUnchanged
<1>10. \A a \in DOMAIN header : Cells(header[a].user, header[a].requested)
                                 \cap Cells(header'[p].user, header'[p].requested) = {}
  <2> SUFFICES ASSUME NEW a \in DOMAIN header
               PROVE  Cells(header[a].user, header[a].requested)
                        \cap Cells(header'[p].user, header'[p].requested) = {}
    OBVIOUS
  <2>0. a \in DOMAIN W /\ a # p /\ W[a] = header[a]
    BY <1>4
  <2>1. Cells(W[a].user, W[a].requested) \cap Cells(W[p].user, W[p].requested) = {}
    BY <1>5, <1>c, <2>0, BuffersMeetNot
  <2>2. QED BY <2>0, <2>1, <1>4
<1>11. content' \in [Address -> Value]
  BY DEF IInv, TypeOK
<1>12. HoldsBuffers(Old, header, content) /\ HoldsBuffers(New, header', content')
  BY <1>1, <1>2, BlocksFacts
<1>13. /\ DOMAIN Old = {header[a].user : a \in DOMAIN header}
       /\ \A a \in DOMAIN header : Old[header[a].user] = BufferOf(header[a], content)
  <2> HIDE DEF Old, New
  <2> QED BY <1>12 DEF HoldsBuffers
<1>14. \A a \in DOMAIN header : header[a].user = header[b].user => a = b
  BY <1>1, <1>4, UsersDistinct
<1>15. DOMAIN B = {header[a].user : a \in K}
  <2> HIDE DEF Old
  <2> QED BY <1>4, <1>13, <1>14 DEF Contract!Without
<1>16. \A a \in K : B[header[a].user] = BufferOf(header[a], content)
  <2> HIDE DEF Old
  <2> QED BY <1>4, <1>13, <1>14 DEF Contract!Without
<1>17. Contract!Handout(Old, B, header'[p].user, New)
  <2> HIDE DEF B, K
  <2>1. \A C : DOMAIN C = {header[a].user : a \in K}
                 /\ (\A a \in K : C[header[a].user] = BufferOf(header[a], content))
               => Contract!Handout(BlocksOf(head, header, content), C, header'[p].user,
                                   BlocksOf(head', header', content'))
    BY ONLY <1>1, <1>2, <1>7, <1>8, <1>9, <1>10, <1>11, BufferHandedOut
  <2>2. QED BY <2>1, <1>15, <1>16
<1>18. header'[p].user \in DOMAIN New /\ header[b].user \in DOMAIN Old
  <2> HIDE DEF Old, New
  <2> QED BY <1>4, <1>12 DEF HoldsBuffers
<1>19. New[header'[p].user] = BufferOf(header'[p], content')
       /\ Old[header[b].user] = BufferOf(header[b], content)
  <2> HIDE DEF Old, New
  <2> QED BY <1>4, <1>12 DEF HoldsBuffers
<1>20. ASSUME NEW i \in DOMAIN New[header'[p].user] \cap DOMAIN Old[header[b].user]
       PROVE  New[header'[p].user][i] = Old[header[b].user][i]
  <2> HIDE DEF Old, New
  <2>1. i \in 0 .. len - 1 /\ i \in 0 .. header[b].requested - 1
    BY <1>4, <1>19, <1>20 DEF BufferOf
  <2>a. i \in 0 .. W[p].requested - 1 /\ i \in 0 .. W[b].requested - 1
    BY <2>1, <1>c, <1>d
  <2>2. i \in 0 .. n - 1
    BY <2>1, <1>4 DEF n, Kept
  <2>3. /\ New[header'[p].user][i] = content'[record.user + i]
        /\ Old[header[b].user][i] = content[header[b].user + i]
    BY <1>4, <1>19, <2>1 DEF BufferOf
  <2>4. content'[record.user + i] = filled[record.user + i]
    <3>1. Scribbled(filled, Cells(b, W[b].size))[W[p].user + i] = filled[W[p].user + i]
      <4>1. /\ p \in DOMAIN W /\ b \in DOMAIN W /\ p # b
            /\ i \in 0 .. W[p].requested - 1
        BY <1>c, <2>a
      <4>2. QED BY ONLY <1>5, <4>1, ScribbledElsewhere
    <3>2. QED BY <3>1, <1>4, <1>c
  <2>5. filled[record.user + i] = fresh[header[b].user + i]
    <3>1. record.user + i \in Cells(record.user, len) /\ Cells(record.user, len) \subseteq Address
      BY <1>4, <1>5, <1>c, <2>1, BufferCells
    <3>2. record.user \in Nat /\ header[b].user \in Nat
      BY <1>1, <1>4, RecordTypes DEF Layout
    <3>3. record.user + i \in Cells(record.user, n)
      BY <1>d, <2>2, <3>2 DEF Cells
    <3>4. header[b].user + ((record.user + i) - record.user) = header[b].user + i
      BY <3>2, <2>1
    <3>5. QED BY <3>1, <3>3, <3>4 DEF filled, Copied
  <2>6. fresh[header[b].user + i] = content[header[b].user + i]
    <3>1. Scribbled(content, Cells(p, W[p].size))[W[b].user + i] = content[W[b].user + i]
      <4>1. /\ p \in DOMAIN W /\ b \in DOMAIN W /\ b # p
            /\ i \in 0 .. W[b].requested - 1
        BY <1>c, <2>a
      <4>2. QED BY ONLY <1>5, <4>1, ScribbledElsewhere
    <3>2. QED BY <3>1, <1>4, <1>c DEF fresh
  <2>7. QED BY <2>3, <2>4, <2>5, <2>6
<1>21. Contract!Replace(Old, New)
  <2> HIDE DEF Old, New
  <2> QED BY <1>17, <1>18, <1>20 DEF Contract!Replace, B
<1>22. QED BY <1>21, BlocksNext

LEMMA WriteImplements ==
    ASSUME IInv, ClientWrite, IInv'
    PROVE  Contract!Write(Blocks, Blocks')
<1>1. PICK b \in Registry(head, header), x \in Value \ {Junk} :
      \E i \in 0 .. header[b].requested - 1 :
        /\ content' = [content EXCEPT ![header[b].user + i] = x]
        /\ header' = Overwritten(header, {header[b].user + i})
        /\ head' = head
  BY DEF ClientWrite
<1>2. PICK i \in 0 .. header[b].requested - 1 :
        /\ content' = [content EXCEPT ![header[b].user + i] = x]
        /\ header' = Overwritten(header, {header[b].user + i})
        /\ head' = head
  BY <1>1
<1>3. b \in DOMAIN header
  BY DEF Registry
<1>4. header' = header /\ head' = head
  BY <1>2, <1>3, WriteSparesRecords
<1>5. Layout(head, header, pool)
  BY LayoutOfInv
<1> DEFINE Old == BlocksOf(head, header, content)
           New == BlocksOf(head, header, content')
           u == header[b].user
<1>6. HoldsBuffers(Old, header, content) /\ HoldsBuffers(New, header, content')
  BY <1>5, BlocksFacts
<1>7. /\ u + i \in Cells(u, header[b].requested)
      /\ Cells(u, header[b].requested) \subseteq Address
      /\ u \in Nat
  BY <1>3, <1>5, BufferCells DEF Address
<1>8. content \in [Address -> Value]
  BY DEF IInv, TypeOK
<1>9. \A j \in 0 .. header[b].requested - 1 :
         content'[u + j] = IF j = i THEN x ELSE content[u + j]
  <2> SUFFICES ASSUME NEW j \in 0 .. header[b].requested - 1
               PROVE  content'[u + j] = IF j = i THEN x ELSE content[u + j]
    OBVIOUS
  <2>1. u + j \in Address
    BY <1>3, <1>5, BufferCells
  <2>2. u + j = u + i => j = i
    BY <1>7
  <2>3. QED BY <1>2, <1>8, <2>1, <2>2
<1>10. BufferOf(header[b], content') = [BufferOf(header[b], content) EXCEPT ![i] = x]
  BY <1>9 DEF BufferOf
<1>11. ASSUME NEW c \in DOMAIN header, c # b
       PROVE  BufferOf(header[c], content') = BufferOf(header[c], content)
  <2>1. \A j \in 0 .. header[c].requested - 1 :
           content'[header[c].user + j] = content[header[c].user + j]
    <3> SUFFICES ASSUME NEW j \in 0 .. header[c].requested - 1
                 PROVE  content'[header[c].user + j] = content[header[c].user + j]
      OBVIOUS
    <3>1. /\ header[c].user + j \in Cells(header[c].user, header[c].requested)
          /\ Cells(header[c].user, header[c].requested) \subseteq Address
      BY <1>5, BufferCells
    <3>2. Cells(header[c].user, header[c].requested) \cap Cells(u, header[b].requested) = {}
      BY <1>3, <1>5, <1>11, BuffersMeetNot
    <3>3. header[c].user + j # u + i
      BY <3>1, <3>2, <1>7
    <3>4. QED BY <1>2, <1>8, <3>1, <3>3
  <2>2. QED BY <2>1, BufferUnchanged
<1> HIDE DEF Old, New
<1>12. \A c \in DOMAIN header : header[c].user = u => c = b
  BY <1>3, <1>5, UsersDistinct
<1>13. /\ DOMAIN New = DOMAIN Old /\ u \in DOMAIN Old
       /\ IsAFunction(Old) /\ IsAFunction(New)
       /\ Old[u] = BufferOf(header[b], content)
       /\ New[u] = [Old[u] EXCEPT ![i] = x]
  BY <1>3, <1>6, <1>10 DEF HoldsBuffers
<1>14. \A v \in DOMAIN Old \ {u} : New[v] = Old[v]
  BY <1>6, <1>11 DEF HoldsBuffers
<1> HIDE DEF u
<1>15. New = [Old EXCEPT ![u] = [Old[u] EXCEPT ![i] = x]]
  BY <1>13, <1>14 DEF IsAFunction
<1>16. i \in DOMAIN Old[u]
  BY <1>13 DEF BufferOf
<1>17. Contract!Write(Old, New)
  BY <1>13, <1>15, <1>16 DEF Contract!Write
<1>18. Blocks = Old /\ Blocks' = New
  BY <1>4, BlocksNext DEF Old, New
<1>19. QED BY <1>17, <1>18

\* A step that leaves the records and the contents alone leaves the buffers.
LEMMA QuietBlocks ==
    ASSUME UNCHANGED <<head, header, content>>
    PROVE  UNCHANGED Blocks
BY BlocksNext

LEMMA StepImplements ==
    ASSUME IInv, IInv', [Next]_vars
    PROVE  [Contract!Next]_Blocks
<1>1. ASSUME NEW align \in Aligns \cap PowersOfTwo, NEW b \in Named, Free(b, align)
      PROVE  Contract!Next
  BY <1>1, FreeImplements DEF Contract!Next
<1>2. ASSUME NEW align \in Aligns \cap PowersOfTwo, NEW len \in Lengths \ {0},
             NEW p \in Address, Allocate(align, len, p)
      PROVE  Contract!Next
  BY <1>2, AllocateImplements DEF Contract!Next
<1>3. ASSUME NEW align \in Aligns \cap PowersOfTwo, NEW len \in Lengths \ {0},
             NEW b \in Named, NEW p \in Address, Replace(b, align, len, p)
      PROVE  Contract!Next
  BY <1>3, ReplaceImplements DEF Contract!Next
<1>4. CASE ClientWrite
  BY <1>4, WriteImplements DEF Contract!Next
<1>5. ASSUME \/ Reenter \/ FailToInitialize \/ Reject \/ UNCHANGED vars
             \/ \E align \in Aligns \cap PowersOfTwo :
                   FreeNothing(align) \/ \E len \in Lengths \ {0} : Exhausted(align, len)
      PROVE  UNCHANGED Blocks
  <2>1. UNCHANGED <<head, header, content>>
    BY <1>5 DEF Reenter, FailToInitialize, Reject, FreeNothing, Exhausted, vars
  <2>2. QED BY <2>1, QuietBlocks
<1>6. CASE Calls
  BY <1>6, <1>1, <1>2, <1>3, <1>5 DEF Calls
<1>7. QED BY <1>4, <1>5, <1>6 DEF Next

\* cabi_realloc implements the contract of a buffer allocator: a buffer is
\* handed out apart from every live one, aligned and not null, keeps its
\* contents while others are allocated, replaced, released or written, a
\* replacement keeps the common prefix, and a trap changes no buffer.
THEOREM AllocatorRefinement == Spec => ImplementsContract
<1>1. Init => Contract!Init
  <2> SUFFICES ASSUME Init PROVE Contract!Init
    OBVIOUS
  <2>1. DOMAIN header = {}
    BY DEF Init
  <2>2. Registry(head, header) = {}
    BY <2>1 DEF Registry
  <2>3. Blocks = [u \in {} |-> <<>>]
    BY <2>2 DEF Blocks
  <2>4. QED BY <2>3 DEF Contract!Init
<1>2. IInv /\ IInv' /\ [Next]_vars => [Contract!Next]_Blocks
  BY StepImplements
<1>3. QED BY <1>1, <1>2, Inductive, PTL DEF Spec, Contract!Spec, ImplementsContract
=============================================================================
