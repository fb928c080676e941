------------------------ MODULE CanonicalAllocator ------------------------
(***************************************************************************)
(* cabi_realloc: the canonical buffer allocator of the runtime             *)
(* (psrs-runtime/src/allocator).  Every call runs to its end in one step:  *)
(* the module is single-threaded and calls nothing but the heap getter.    *)
(*                                                                         *)
(* Memory is a row of cells.  A record of a live buffer occupies Record    *)
(* cells at the front of its backing chunk and is one unit here; it is     *)
(* lost when anything is written over one of its cells.  The registry is   *)
(* the linked list of records from `head'.  dlmalloc is external: it takes *)
(* segments from Provision and hands out any free, aligned chunk of them,  *)
(* or none.                                                                *)
(***************************************************************************)
EXTENDS Integers, FiniteSets

CONSTANTS
    Bits,         \* 32: the width of an address
    Limit,        \* 2^Bits: addresses and lengths are below it
    HalfLimit,    \* half of it: a Rust allocation stays below
    Page,         \* cells in a page
    HeapAlign,    \* the heap boundary is a multiple of it
    Record,       \* RECORD: the cells of a record
    RecordAlign,  \* the least alignment of a chunk
    Granule,      \* dlmalloc aligns every chunk to it
    MaxPages,     \* the most pages the engine gives (bound)
    StartPages,   \* the pages the memory may start with
    HeapBases,    \* the boundaries the application's getter may return
    Pointers, Lengths, Aligns,  \* the arguments of a call (bound)
    Slack,        \* what dlmalloc may ask for beyond the request
    Value, Junk,  \* contents of a cell; Junk where nobody may rely on them
    TRAP          \* the outcome of a call that traps

PowersOfTwo == {2 ^ k : k \in 0 .. Bits - 1}

ASSUME SizesAssumption ==
    /\ Bits \in Nat \ {0} /\ Limit = 2 ^ Bits /\ HalfLimit \in 1 .. Limit
    /\ Limit \in Nat \ {0} /\ Page \in Nat \ {0}
    /\ HeapAlign \in Nat \ {0} /\ Record \in Nat \ {0}
    /\ RecordAlign \in 1 .. Limit - 1 /\ Granule \in Nat \ {0}
    /\ MaxPages \in Nat /\ MaxPages * Page <= Limit
    /\ Slack \in Nat
\* Of two powers of two the smaller divides the larger.
ASSUME AlignAssumption ==
    /\ RecordAlign \in PowersOfTwo /\ Aligns \cap PowersOfTwo \subseteq Nat \ {0}
    /\ \A a \in Aligns \cap PowersOfTwo : a <= RecordAlign => RecordAlign % a = 0
ASSUME ArgumentsAssumption ==
    /\ StartPages \subseteq 0 .. MaxPages
    /\ HeapBases \subseteq 0 .. Limit - 1 /\ Pointers \subseteq 0 .. Limit - 1
    /\ Lengths \subseteq 0 .. Limit - 1 /\ Aligns \subseteq 0 .. Limit - 1
    /\ Junk \in Value

Address == 0 .. Limit - 1

\* A record: the link, and what is known of its buffer and its chunk.
LiveRecord == [next : Address, user : Address, requested : Address,
               size : Address, align : Address]

ASSUME SentinelAssumption == TRAP \notin Int

VARIABLES
    phase,     \* the provider's phase
    heapBase,  \* what the application's getter returns, fixed
    memory,    \* pages of the memory
    cursor,    \* Provision's acquisition cursor
    pool,      \* the cells of the segments dlmalloc has
    chunks,    \* dlmalloc's outstanding chunks
    head,      \* the first record's address, or 0
    header,    \* the intact records, by their first cell
    content,   \* what the cells hold for the owners of buffers
    outcome    \* the last call's alignment and result

provider == <<memory, cursor, pool>>
vars == <<phase, heapBase, memory, cursor, pool, chunks, head, header, content,
          outcome>>

-----------------------------------------------------------------------------
(* Arithmetic *)

\* padded & !(align - 1), for a power of two
AlignUp(value, align) == ((value + align - 1) \div align) * align

\* checked_add of align_up and align_u32
Alignable(value, align) == value + align - 1 < Limit

\* memory_bytes: a full memory's size is not representable and saturates.
Bytes(pages) == IF pages * Page < Limit THEN pages * Page ELSE Limit - 1

-----------------------------------------------------------------------------
(* The registry of records *)

\* The records the walk from hd meets: the least set with the first record
\* and every record a member links to.
Registry(hd, hdr) ==
    {a \in DOMAIN hdr : \A S \in SUBSET DOMAIN hdr :
        (/\ hd \in DOMAIN hdr => hd \in S
         /\ \A c \in S : hdr[c].next \in DOMAIN hdr => hdr[c].next \in S)
        => a \in S}

\* The records for which a call with these arguments passes find and the
\* check of the stored length.
Matches(old_ptr, old_len) ==
    {b \in Registry(head, header) :
        header[b].user = old_ptr /\ header[b].requested = old_len}

\* Mutant: unlinking the first record leaves the head.
UnlinkedHeadStale(hd, hdr, b) == hd

\* unlink: the head moves on, or the predecessor's link does.
UnlinkedHead(hd, hdr, b) == IF hd = b THEN hdr[b].next ELSE hd

Unlinked(hd, hdr, b) ==
    [a \in DOMAIN hdr |->
        IF hd # b /\ a \in Registry(hd, hdr) /\ hdr[a].next = b
        THEN [hdr[a] EXCEPT !.next = hdr[b].next]
        ELSE hdr[a]]

Cells(a, n) == a .. a + n - 1

\* Writing over one of its cells loses a record.
Overwritten(hdr, cells) ==
    [a \in {c \in DOMAIN hdr : Cells(c, Record) \cap cells = {}} |-> hdr[a]]

Scribbled(data, cells) == [a \in Address |-> IF a \in cells THEN Junk ELSE data[a]]

-----------------------------------------------------------------------------
(* Entering a call *)

HeapBaseOK == /\ heapBase # 0 /\ heapBase % HeapAlign = 0
              /\ heapBase <= Bytes(memory)

\* The call gets past phase::enter, and past initialize if it is the first.
Enters == phase = "ready" \/ (phase = "uninitialized" /\ HeapBaseOK)

\* The cursor a call that entered works with: initialize sets it.
Cursor == IF phase = "uninitialized" THEN heapBase ELSE cursor

\* A call while the provider is busy traps as re-entry.
Reenter == /\ phase = "busy"
           /\ \E align \in Aligns : outcome' = [align |-> align, result |-> TRAP]
           /\ UNCHANGED <<phase, heapBase, provider, chunks, head, header, content>>

\* The first call traps in initialize, after phase::enter.
FailToInitialize ==
    /\ phase = "uninitialized" /\ ~HeapBaseOK
    /\ phase' = "busy"
    /\ \E align \in Aligns : outcome' = [align |-> align, result |-> TRAP]
    /\ UNCHANGED <<heapBase, provider, chunks, head, header, content>>

-----------------------------------------------------------------------------
(* Provision and dlmalloc *)

NoSegment == cursor' = Cursor /\ UNCHANGED <<memory, pool>>

\* Mutant: the segment is used, the cursor stays.
AcquireKeepsCursor(request) ==
    LET start == AlignUp(Cursor, Page)
        end == start + AlignUp(request, Page)
    IN  /\ end < Limit /\ end <= Bytes(memory)
        /\ cursor' = Cursor
        /\ pool' = pool \cup start .. end - 1
        /\ UNCHANGED memory

\* Mutant: the segment is used though the memory did not grow.
AcquireUngrown(request) ==
    LET start == AlignUp(Cursor, Page)
        end == start + AlignUp(request, Page)
    IN  /\ cursor' = end
        /\ pool' = pool \cup start .. end - 1
        /\ UNCHANGED memory

\* Provision::alloc: plan a segment at or above the cursor, grow the memory
\* when it does not cover the segment, then move the cursor.
Acquire(request) ==
    LET start == AlignUp(Cursor, Page)
        end == start + AlignUp(request, Page)
        missing == end - Bytes(memory)
        pages == IF missing > 0 THEN AlignUp(missing, Page) \div Page ELSE 0
    IN  /\ Alignable(Cursor, Page) /\ Alignable(request, Page) /\ end < Limit
        /\ memory + pages <= MaxPages
        /\ memory' = memory + pages
        /\ end <= Bytes(memory')
        /\ cursor' = end
        /\ pool' = pool \cup start .. end - 1

Fits(p, size, align) ==
    /\ p % align = 0 /\ p % Granule = 0
    /\ Cells(p, size) \subseteq pool'
    /\ \A c \in chunks : Cells(p, size) \cap Cells(c.start, c.size) = {}

\* WasmStore::allocate: a chunk at p, or none when p is 0.  dlmalloc asks
\* for a segment of its own accord, and may find no room with or without it.
Malloc(size, align, p) ==
    IF size >= HalfLimit \/ align >= HalfLimit
    THEN p = 0 /\ NoSegment
    ELSE /\ NoSegment \/ Acquire(size) \/ Acquire(size + Slack)
         /\ p = 0 \/ Fits(p, size, align)

-----------------------------------------------------------------------------
(* realloc *)

\* Mutant: the buffer starts right behind the record.
UserOffsetPacked(align) == Record

UserOffset(align) == AlignUp(Record, align)
BackingAlign(align) == IF align > RecordAlign THEN align ELSE RecordAlign

Insertable(align, len) ==
    Alignable(Record, align) /\ UserOffset(align) + len < Limit

\* Arguments for which realloc returns an error before it asks for a chunk.
Invalid(old_ptr, old_len, align, new_len) ==
    \/ align \notin PowersOfTwo
    \/ old_ptr # 0 /\ Matches(old_ptr, old_len) = {}
    \/ old_ptr = 0 /\ old_len # 0 /\ new_len # 0
    \/ new_len # 0 /\ ~Insertable(align, new_len)

\* Mutant: an error leaves the provider busy.
ReturnBusy(align, result) ==
    /\ phase' = IF result = TRAP THEN "busy" ELSE "ready"
    /\ outcome' = [align |-> align, result |-> result]
    /\ UNCHANGED heapBase

\* The end of a call that entered: ready again, whatever realloc returned.
Return(align, result) ==
    /\ phase' = "ready"
    /\ outcome' = [align |-> align, result |-> result]
    /\ UNCHANGED heapBase

\* Mutant: the chunk's size forgets the offset of the buffer.
NewRecordShort(next, p, align, len) ==
    [next |-> next, user |-> p + UserOffset(align), requested |-> len,
     size |-> len, align |-> BackingAlign(align)]

NewRecord(next, p, align, len) ==
    [next |-> next, user |-> p + UserOffset(align), requested |-> len,
     size |-> UserOffset(align) + len, align |-> BackingAlign(align)]

Chunk(b, record) == [start |-> b, size |-> record.size, align |-> record.align]

\* insert writes the record at the front of the chunk and links it first.
Inserted(hdr, p, record) ==
    LET others == Overwritten(hdr, Cells(p, Record))
    IN  [a \in DOMAIN others \cup {p} |-> IF a = p THEN record ELSE others[a]]

\* Mutant: the last cell is not copied.
CopiedShort(data, from, to, n) ==
    [a \in Address |-> IF a \in Cells(to, n - 1) THEN data[from + (a - to)] ELSE data[a]]

Copied(data, from, to, n) ==
    [a \in Address |-> IF a \in Cells(to, n) THEN data[from + (a - to)] ELSE data[a]]

Reject ==
    \E align \in {a \in Aligns : \E old_ptr \in Pointers, old_len, new_len \in Lengths :
                                  Invalid(old_ptr, old_len, a, new_len)} :
        /\ Enters
        /\ Return(align, TRAP)
        /\ NoSegment
        /\ UNCHANGED <<chunks, head, header, content>>

FreeNothing(align) ==
    /\ Enters
    /\ Return(align, 0)
    /\ NoSegment
    /\ UNCHANGED <<chunks, head, header, content>>

\* b is the record found for the call's pointer and length.
Free(b, align) ==
    /\ Enters
    /\ head' = UnlinkedHead(head, header, b)
    /\ header' = Overwritten(Unlinked(head, header, b), Cells(b, header[b].size))
    /\ content' = Scribbled(content, Cells(b, header[b].size))
    /\ chunks' = chunks \ {Chunk(b, header[b])}
    /\ Return(align, 0)
    /\ NoSegment

Allocate(align, new_len, p) ==
    LET record == NewRecord(head, p, align, new_len)
    IN  /\ Enters
        /\ Insertable(align, new_len)
        /\ Malloc(record.size, record.align, p)
        /\ p # 0
        /\ chunks' = chunks \cup {Chunk(p, record)}
        /\ header' = Inserted(header, p, record)
        /\ content' = Scribbled(content, Cells(p, record.size))
        /\ head' = p
        /\ Return(align, record.user)

\* The new buffer is registered and filled before the old one is unlinked
\* and released.
Replace(b, align, new_len, p) ==
    LET old == header[b]
        record == NewRecord(head, p, align, new_len)
        n == IF old.requested < new_len THEN old.requested ELSE new_len
        copied == Overwritten(Inserted(header, p, record), Cells(record.user, n))
        fresh == Scribbled(content, Cells(p, record.size))
    IN  /\ Enters
        /\ Insertable(align, new_len)
        /\ Malloc(record.size, record.align, p)
        /\ p # 0
        /\ head' = UnlinkedHead(p, copied, b)
        /\ header' = Overwritten(Unlinked(p, copied, b), Cells(b, old.size))
        /\ content' = Scribbled(Copied(fresh, old.user, record.user, n),
                                Cells(b, old.size))
        /\ chunks' = (chunks \cup {Chunk(p, record)}) \ {Chunk(b, old)}
        /\ Return(align, record.user)

\* An allocation or a replacement gets no chunk: it traps, and a segment
\* acquired on the way stays with dlmalloc.
Exhausted(align, new_len) ==
    /\ Enters
    /\ Insertable(align, new_len)
    /\ Malloc(UserOffset(align) + new_len, BackingAlign(align), 0)
    /\ Return(align, TRAP)
    /\ UNCHANGED <<chunks, head, header, content>>

\* The records a call may name with its pointer and length.
Named == {b \in Registry(head, header) :
            /\ header[b].user \in Pointers \ {0}
            /\ header[b].requested \in Lengths}

Calls ==
    \E align \in Aligns \cap PowersOfTwo :
        \/ FreeNothing(align)
        \/ \E b \in Named : Free(b, align)
        \/ \E new_len \in Lengths \ {0} :
              \/ Exhausted(align, new_len)
              \/ \E p \in Address : Allocate(align, new_len, p)
              \/ \E b \in Named, p \in Address : Replace(b, align, new_len, p)

\* The owner of a live buffer writes one of its cells.
ClientWrite ==
    \E b \in Registry(head, header), x \in Value \ {Junk} :
    \E i \in 0 .. header[b].requested - 1 :
        /\ content' = [content EXCEPT ![header[b].user + i] = x]
        /\ header' = Overwritten(header, {header[b].user + i})
        /\ UNCHANGED <<phase, heapBase, provider, chunks, head, outcome>>

-----------------------------------------------------------------------------
Init ==
    /\ phase = "uninitialized"
    /\ heapBase \in HeapBases
    /\ memory \in StartPages
    /\ cursor = 0 /\ pool = {} /\ chunks = {} /\ head = 0
    /\ header = [a \in {} |-> 0]
    /\ content = [a \in Address |-> Junk]
    /\ outcome = [align |-> 1, result |-> 0]

Next == Reenter \/ FailToInitialize \/ Reject \/ Calls \/ ClientWrite

Spec == Init /\ [][Next]_vars

-----------------------------------------------------------------------------
(* Properties *)

TypeOK ==
    /\ phase \in {"uninitialized", "busy", "ready"}
    /\ heapBase \in HeapBases /\ memory \in 0 .. MaxPages
    /\ cursor \in Address /\ pool \in SUBSET Address
    /\ chunks \in SUBSET [start : Address, size : Address, align : Address]
    /\ head \in Address
    /\ DOMAIN header \subseteq Address /\ header \in [DOMAIN header -> LiveRecord]
    /\ content \in [Address -> Value]

\* The buffers that are live: their addresses and contents.
Blocks ==
    [u \in {header[b].user : b \in Registry(head, header)} |->
        LET b == CHOOSE c \in Registry(head, header) : header[c].user = u
        IN  [i \in 0 .. header[b].requested - 1 |-> content[u + i]]]

Contract == INSTANCE AllocatorContract WITH blocks <- Blocks

\* Refinement: the registry, the segments and the records implement the
\* contract: a buffer is handed out once, keeps its cells until it is
\* released, and no call that traps, fails to allocate or names another
\* length touches one.
ImplementsContract == Contract!Spec

\* No record is lost or leaked (algorithm.rs): every intact record is on the
\* list, and dlmalloc's outstanding chunks are exactly those of the records,
\* with the size and the alignment they were requested with.
RegistryIsChunks ==
    /\ Registry(head, header) = DOMAIN header
    /\ chunks = {Chunk(b, header[b]) : b \in DOMAIN header}

\* Chunks of two records never overlap, and a buffer lies in its own chunk
\* behind the record (the sizes insert computes suffice).
BuffersApart ==
    \A b \in DOMAIN header :
        /\ b + Record <= header[b].user
        /\ header[b].user + header[b].requested <= b + header[b].size
        /\ Cells(b, header[b].size) \subseteq pool
        /\ \A c \in DOMAIN header \ {b} :
              Cells(b, header[b].size) \cap Cells(c, header[c].size) = {}

\* dlmalloc never has a cell twice, below the application's static data or
\* beyond the memory: segments are between the heap boundary and the cursor,
\* the cursor inside the memory (Provision::alloc).
SegmentsBelowCursor ==
    \A a \in pool : heapBase <= a /\ a < cursor /\ cursor <= Bytes(memory)

\* Between calls the provider is busy only when its initialisation failed,
\* and then nothing was ever handed out (phase.rs, initialize).
BusyOnlyAfterFailedStart ==
    /\ phase = "busy" => ~HeapBaseOK
    /\ phase # "ready" => chunks = {} /\ pool = {} /\ head = 0

\* A returned pointer has the alignment the call asked for, whatever the
\* alignment of its chunk (UserOffset, BackingAlign).
ReturnedPointerAligned ==
    outcome.result \in {0, TRAP} \/ outcome.result % outcome.align = 0
=============================================================================
