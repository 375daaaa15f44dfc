----------------------------- MODULE BerryBytes -----------------------------
(***************************************************************************)
(* The bytes objects of the interpreter (be_byteslib.c): buffers on the    *)
(* heap that grow, shrink, move, are freed, or are looked at through other *)
(* objects ("mapped").  A call that raises before it has changed anything  *)
(* is no step.                                                             *)
(***************************************************************************)
EXTENDS BerryBits, FiniteSets

CONSTANTS
    Objects,
    BytesMax,             \* vm->bytesmaxsize: no buffer is larger
    BYTES_DEFAULT_SIZE, BYTES_HEADROOM,
    MinSize,              \* 4: the least size of a buffer that may grow
    KeepSize,             \* 64: buffers up to this size never shrink
    Unwritten,            \* a byte of the heap that nobody has written
    Numbers, Widths, Offsets, Counts, Texts,    \* arguments of calls
    MaxCalls              \* bound on the calls

\* What the code takes for granted of them.
BytesConstants ==
    /\ IsFiniteSet(Objects) /\ BYTES_HEADROOM \in Nat \ {0}
    /\ {BytesMax, BYTES_DEFAULT_SIZE, MinSize, KeepSize} \subseteq Nat
    /\ Numbers \cup Widths \cup Offsets \cup Counts \subseteq Int
    /\ Texts \subseteq Seq(0 .. 255)

VARIABLES
    mem,        \* the buffers on the heap: block -> sequence of bytes
    obj,        \* the members .p, .len and .size of each object
    want,       \* history: the bytes each object should have
    spoilt,     \* history: objects that use a block that is no longer theirs
    calls

bytesVars == <<mem, obj, want, spoilt, calls>>

Null == 0
BYTES_SIZE_FIXED  == -1
BYTES_SIZE_MAPPED == -2
NoObject == [p |-> Null, len |-> 0, size |-> 0]

\* m_read_attributes(), with the heap the next operation starts from.
Attr(o) ==
    [mem |-> mem, p |-> obj[o].p, len |-> obj[o].len,
     size |-> IF obj[o].size < 0 THEN obj[o].len ELSE obj[o].size,
     fixed |-> obj[o].size < 0, mapped |-> obj[o].size = BYTES_SIZE_MAPPED]

\* m_write_attributes().
Written(b) ==
    [p |-> b.p, len |-> b.len,
     size |-> IF b.mapped THEN BYTES_SIZE_MAPPED
              ELSE IF b.fixed THEN BYTES_SIZE_FIXED ELSE b.size]

Mapped(o) == obj[o].size = BYTES_SIZE_MAPPED
Bytes(b) == IF b.p = Null THEN <<>> ELSE SubSeq(b.mem[b.p], 1, b.len)
Content(o) == Bytes(Attr(o))

\* What a caller expects to find: a mapped object shows what is there.
Wanted(o) == IF Mapped(o) THEN Content(o) ELSE want[o]

\* The allocator hands out a block nobody points to.
Fresh(heap) ==
    CHOOSE k \in 1 .. Cardinality(DOMAIN heap) + Cardinality(Objects) + 1 :
        k \notin DOMAIN heap /\ \A o \in Objects : obj[o].p # k

Without(heap, p) == [k \in DOMAIN heap \ {p} |-> heap[k]]

\* bytes_realloc(): a block of another size may be at another place; here it
\* always is, and the old one is gone.
Realloc(b, n) ==
    LET size == Less(IF ~b.fixed /\ n < MinSize THEN MinSize ELSE n, BytesMax)
        old  == IF b.p = Null THEN <<>> ELSE b.mem[b.p]
        to   == Fresh(b.mem)
    IN  IF b.p # Null /\ Len(old) = size THEN b
        ELSE [b EXCEPT !.p = to, !.size = size,
                       !.mem = [k \in (DOMAIN b.mem \ {b.p}) \cup {to} |->
                                  IF k # to THEN b.mem[k]
                                  ELSE [i \in 1 .. size |->
                                          IF i <= Len(old) THEN old[i] ELSE Unwritten]]]

\* Mutant: a large buffer is made smaller than what it holds.
BytesResize_Shrinks(b, n) ==
    IF b.mapped \/ (b.size >= n /\ b.size <= KeepSize)
    THEN b ELSE Realloc(b, n - BYTES_HEADROOM)

\* bytes_resize(): a buffer is made smaller only if it is large and half of
\* it would do.
BytesResize(b, n) ==
    IF b.mapped \/ (b.size >= n /\ (b.size <= KeepSize \/ b.size < 2 * n))
    THEN b ELSE Realloc(b, n)

\* buf_add1 .. buf_add4, buf_add_buf(), buf_add_raw(): all or nothing.
BufAdd(b, s) ==
    IF b.len + Len(s) > b.size THEN b
    ELSE [b EXCEPT !.len = @ + Len(s), !.mem[b.p] = Over(@, b.len, s)]

\* buf_add1() in a loop: as many as there is room for.
BufAddEach(b, s) == BufAdd(b, SubSeq(s, 1, Less(Len(s), b.size - b.len)))

\* buf_set_len(): what is new is zero.
SetLen(b, n) ==
    LET len == Less(n, b.size)
    IN  [b EXCEPT !.len = len,
                  !.mem[b.p] = [i \in DOMAIN @ |-> IF i > b.len /\ i <= len
                                                   THEN 0 ELSE @[i]]]

\* The object has these bytes in place of its own.
Overwritten(b, s) == [b EXCEPT !.mem[b.p] = Over(@, 0, s)]

-----------------------------------------------------------------------------
(* What a caller expects of a sequence of bytes.                           *)

Cut(s) == SubSeq(s, 1, Less(Len(s), BytesMax))
Joined(s, t) == IF Len(s) + Len(t) <= BytesMax THEN s \o t ELSE s
Zeros(n) == [i \in 1 .. n |-> 0]

-----------------------------------------------------------------------------
(* Steps.                                                                  *)

BytesInit ==
    /\ mem = <<>> /\ obj = [o \in Objects |-> NoObject]
    /\ want = [o \in Objects |-> <<>>] /\ spoilt = {} /\ calls = 0

\* Not an object whose block is gone: what it reads is anybody's.
Usable(o) == o \notin spoilt /\ (obj[o].p = Null \/ obj[o].p \in DOMAIN mem)
HasBuffer(o) == Usable(o) /\ obj[o].p # Null
MayGrow(o) == HasBuffer(o) /\ obj[o].size >= 0

\* Which object a call makes does not matter: it is the next one.
Unborn(o) ==
    LET free == {x \in Objects : obj[x] = NoObject /\ x \notin spoilt}
    IN  free # {} /\ o = CHOOSE x \in free : TRUE

\* A call on o ends with attributes b; o should have s then.
Becomes(o, b, s) ==
    /\ calls < MaxCalls /\ calls' = calls + 1
    /\ mem' = b.mem /\ obj' = [obj EXCEPT ![o] = Written(b)]
    /\ want' = [want EXCEPT ![o] = s]
    /\ UNCHANGED spoilt

\* A call that writes bytes in place, for every object they belong to.
Rewrites(o, s) ==
    LET b == Overwritten(Attr(o), s)
    IN  /\ calls < MaxCalls /\ calls' = calls + 1
        /\ mem' = b.mem
        /\ want' = [x \in Objects |->
                      IF obj[x].p # b.p THEN want[x]
                      ELSE Over(want[x], 0, SubSeq(s, 1, Less(Len(s), Len(want[x]))))]
        /\ UNCHANGED <<obj, spoilt>>

\* m_init() without a mapped buffer; the buffer is ready to be filled.
NewBuffer(heap, text, sizeArg) ==
    LET asked == IF sizeArg = 0 THEN BYTES_DEFAULT_SIZE ELSE sizeArg
        size  == IF asked >= 0 THEN asked + BYTES_HEADROOM ELSE -asked
        hex   == Len(text) \div 2
        b == Realloc([mem |-> heap, p |-> Null, len |-> 0, size |-> 0,
                      fixed |-> asked < 0, mapped |-> FALSE],
                     IF hex > size THEN hex ELSE size)
        full == BufAddEach(b, FromHex(text))
    IN  IF b.fixed THEN SetLen(full, full.size) ELSE full

NewBytes(o, text, sizeArg) ==
    /\ Unborn(o)
    /\ sizeArg < 0 => Len(text) \div 2 <= -sizeArg
    /\ LET s == Cut(FromHex(text))
       IN  Becomes(o, NewBuffer(mem, text, sizeArg),
                   IF sizeArg < 0
                   THEN s \o Zeros(Less(-sizeArg, BytesMax) - Len(s)) ELSE s)

\* m_init() with a pointer: where another object's _buffer() is.
NewMapped(o, other, n) ==
    /\ Unborn(o) /\ HasBuffer(other) /\ n \in 1 .. obj[other].len
    /\ Becomes(o, [mem |-> mem, p |-> obj[other].p, len |-> n, size |-> n,
                   fixed |-> TRUE, mapped |-> TRUE], <<>>)

ChangeBuffer(o, other) ==
    /\ o # other /\ Mapped(o) /\ o \notin spoilt
    /\ HasBuffer(other) /\ obj[o].len <= obj[other].len
    /\ Becomes(o, [Attr(o) EXCEPT !.p = obj[other].p], <<>>)

\* m_deinit(): from the collector, or called by the script.
Deinit(o) ==
    /\ Usable(o) /\ obj[o] # NoObject
    /\ Becomes(o, [Attr(o) EXCEPT !.mem = IF Mapped(o) THEN @
                                          ELSE Without(@, obj[o].p),
                                  !.p = Null, !.len = 0, !.size = 0], <<>>)

\* bytes_check_data(): room for n more bytes.  A buffer that was freed by
\* deinit() gets a new one.
CanReserve(o, n) == Usable(o) /\ (obj[o].size < 0 => obj[o].len + n <= Attr(o).size)
Reserved(o, n) ==
    LET b == Attr(o)
    IN  IF b.len + n > b.size THEN BytesResize(b, b.len + n) ELSE b

\* m_add(), m_addfloat().
Add(o, v, n) ==
    /\ CanReserve(o, 4) /\ obj[o].size >= 0 /\ n \in -4 .. 4
    /\ LET s == IF n = 0 THEN <<>> ELSE Packed(v, n)
       IN  Becomes(o, BufAdd(Reserved(o, 4), s), Joined(want[o], s))

\* m_add(), m_addfloat(): a bad argument is found after the buffer has been
\* moved, and the object is not told.
AddRaises(o) ==
    /\ CanReserve(o, 4) /\ obj[o].size >= 0
    /\ calls < MaxCalls /\ calls' = calls + 1
    /\ LET b == Reserved(o, 4)
       IN  /\ mem' = b.mem
           /\ spoilt' = IF b.p = obj[o].p THEN spoilt ELSE spoilt \cup {o}
    /\ UNCHANGED <<obj, want>>

\* m_set(), m_setfloat(), m_setitem(); m_setbits().
Set(o, index, v, n) ==
    HasBuffer(o) /\ n \in -4 .. 4 /\ Rewrites(o, SetInt(Content(o), index, v, n))
SetField(o, offset, len, v) ==
    HasBuffer(o) /\ Rewrites(o, SetBits(Content(o), offset, len, v))

\* m_setbytes(): every bound is brought into the buffers.
SetBytes(o, index, other, first, n) ==
    /\ HasBuffer(o) /\ HasBuffer(other)
    /\ LET buf == Content(o)
           src == Content(other)
           idx == FromEnd(buf, index)
           at  == IF idx < 0 THEN 0 ELSE Less(idx, Len(buf))
           off == IF first < 0 THEN 0 ELSE Less(first, Len(src))
           len == Less(Less(IF n < 0 THEN 0 ELSE n, Len(src) - off), Len(buf) - at)
       IN  Rewrites(o, Over(buf, at, SubSeq(src, off + 1, off + len)))

\* m_reverse(): swaps groups of g bytes from both ends.
ReverseGroups(o, index, n, g) ==
    /\ HasBuffer(o) /\ g > 0
    /\ LET buf == Content(o)
           idx == FromEnd(buf, index)
           at  == IF idx < 0 THEN 0 ELSE Less(idx, Len(buf))
           len == Less(IF n < 0 THEN Len(buf) - at ELSE n, Len(buf) - at)
           groups == len \div g
           from(i) == LET k == i - 1 - at
                      IN  at + (groups - 1 - k \div g) * g + (k % g) + 1
           new == [i \in DOMAIN buf |-> IF i > at /\ i <= at + groups * g
                                        THEN buf[from(i)] ELSE buf[i]]
       IN  Rewrites(o, new)

SetSize(o, n) ==
    /\ HasBuffer(o)
    /\ LET len == IF n < 0 THEN 0 ELSE n
       IN  /\ obj[o].size < 0 => obj[o].len = len
           /\ Becomes(o, SetLen(BytesResize(Attr(o), len), len),
                      IF Mapped(o) THEN <<>>
                      ELSE SubSeq(want[o], 1, Less(len, Len(want[o])))
                             \o Zeros(Less(len, BytesMax) - Len(want[o])))

Clear(o) == MayGrow(o) /\ Becomes(o, [Attr(o) EXCEPT !.len = 0], <<>>)

\* bytes_new_object() and what is copied into it: m_copy(), m_merge(), and
\* m_item() of a range.
Copied(to, n, s, t, expected) ==
    Unborn(to) /\ Becomes(to, BufAdd(BufAdd(NewBuffer(mem, <<>>, n), s), t), expected)

CopyBytes(o, to) == HasBuffer(o) /\ Copied(to, obj[o].len, Content(o), <<>>, Wanted(o))

MergeWith(o, s, expected, to) ==
    /\ HasBuffer(o) /\ obj[o].len + Len(s) <= BytesMax
    /\ Copied(to, obj[o].len + Len(s), Content(o), s, Wanted(o) \o expected)

MergeBytes(o, other, to) ==
    HasBuffer(other) /\ MergeWith(o, Content(other), Wanted(other), to)

Slice(o, lower, upper, to) ==
    /\ HasBuffer(o)
    /\ LET low == FromEnd(Content(o), lower)
           up  == Less(FromEnd(Content(o), upper), obj[o].len - 1)
           from == IF low < 0 THEN 0 ELSE low
       IN  Copied(to, IF up > from THEN up - from ELSE 0,
                  SubSeq(Content(o), from + 1, up + 1), <<>>,
                  SubSeq(Wanted(o), from + 1, up + 1))

\* m_connect() with an integer or a string.
Connect(o, s) ==
    /\ MayGrow(o)
    /\ Becomes(o, BufAdd(BytesResize(Attr(o), obj[o].len + Len(s)), s), Joined(want[o], s))

\* m_connect(), m_appendhex(), m_appendb64() with another object: its buffer
\* is looked up before this one is resized.
WithRoom(o, n) == BytesResize(Attr(o), obj[o].len + n)
Reads(b, o, other) == obj[other].p \in DOMAIN b.mem

\* Attributes b are written, but what was read belonged to nobody.
Spoils(o, b) ==
    /\ calls < MaxCalls /\ calls' = calls + 1
    /\ mem' = b.mem /\ obj' = [obj EXCEPT ![o] = Written(b)]
    /\ spoilt' = spoilt \cup {o} /\ UNCHANGED want

ConnectBytes(o, other) ==
    /\ MayGrow(o) /\ HasBuffer(other)
    /\ LET b == WithRoom(o, obj[other].len)
       IN  IF Reads(b, o, other)
           THEN Becomes(o, BufAdd(b, Content(other)), Joined(want[o], Wanted(other)))
           ELSE Spoils(o, b)

AppendHex(o, other) ==
    /\ MayGrow(o) /\ HasBuffer(other)
    /\ LET b == WithRoom(o, 2 * obj[other].len)
       IN  IF Reads(b, o, other)
           THEN Becomes(o, BufAddEach(b, ToHex(Content(other))),
                        Cut(want[o] \o ToHex(Wanted(other))))
           ELSE Spoils(o, b)

\* The encoder does not look at the size: it writes a terminator after the
\* last character, and at the largest size it writes past the end.
AppendB64(o, other, index, n) ==
    /\ MayGrow(o) /\ HasBuffer(other)
    /\ LET src == Content(other)
           idx == FromEnd(src, index)
           at  == IF idx < 0 THEN 0 ELSE Less(idx, Len(src))
           len == Less(IF n < 0 THEN 0 ELSE n, Len(src) - at)
           b   == WithRoom(o, ((len + 2) \div 3) * 4 + 1)
           s   == Encode64(SubSeq(src, at + 1, at + len))
       IN  /\ len > 0
           /\ IF Reads(b, o, other) /\ b.len + Len(s) + 1 <= b.size
              THEN Becomes(o, BufAdd(b, s),
                      want[o] \o Encode64(SubSeq(Wanted(other), at + 1, at + len)))
              ELSE Spoils(o, b)

\* m_fromstring(), m_fromhex(), m_fromb64(): the object's bytes are
\* replaced, those of a fixed one in place.
Replace(o, s, expected) ==
    /\ HasBuffer(o)
    /\ IF obj[o].size < 0
       THEN obj[o].len = Len(s) /\ Rewrites(o, s)
       ELSE LET b == BytesResize(Attr(o), Len(s))
            IN  Becomes(o, BufAdd([b EXCEPT !.len = 0],
                                  SubSeq(s, 1, Less(Len(s), b.size))), expected)

FromString(o, text) == Replace(o, text, Cut(text))
FromHexText(o, text, skip) ==
    LET from == Less(IF skip < 0 THEN 0 ELSE skip, Len(text))
        s == FromHex(SubSeq(text, from + 1, Len(text)))
    IN  Len(s) <= BytesMax /\ Replace(o, s, s)
FromB64Text(o, text) ==
    Len(Decode64(text)) <= BytesMax /\ Replace(o, Decode64(text), Decode64(text))

BytesNext ==
    \E o \in Objects :
        \/ Deinit(o) \/ Clear(o) \/ AddRaises(o)
        \/ \E text \in Texts :
              \/ \E n \in Counts : NewBytes(o, text, n)
              \/ Connect(o, text) \/ FromString(o, text) \/ FromB64Text(o, text)
              \/ \E skip \in {0, 1} : FromHexText(o, text, skip)
              \/ \E to \in Objects : MergeWith(o, text, text, to)
        \/ \E v \in Numbers, n \in Widths : Add(o, v, n)
        \/ \E v \in Numbers : Connect(o, Packed(v, 1))
        \/ \E v \in Numbers, i \in Offsets, n \in Widths :
              Set(o, i, v, n) \/ SetField(o, i, n * 3, v)
        \/ \E n \in Counts : SetSize(o, n)
        \/ \E i \in Offsets, n \in Counts :
              \/ \E g \in Widths : ReverseGroups(o, i, n, g)
              \/ \E to \in Objects : Slice(o, i, n, to)
        \/ \E other \in Objects :
              \/ \E n \in Counts : NewMapped(o, other, n)
              \/ ChangeBuffer(o, other) \/ CopyBytes(o, other)
              \/ \E to \in Objects : MergeBytes(o, other, to)
              \/ ConnectBytes(o, other) \/ AppendHex(o, other)
              \/ \E i \in Offsets, n \in Counts :
                    \/ AppendB64(o, other, i, n)
                    \/ \E at \in Offsets : SetBytes(o, at, other, i, n)

BytesSpec == BytesInit /\ [][BytesNext]_bytesVars

-----------------------------------------------------------------------------
(* Properties.                                                             *)

\* Each buffer on the heap belongs to one object, which knows where it is and
\* how large it is, or to none because the object is spoilt: nothing is
\* leaked, used after it was freed, freed twice or written past its end,
\* however the objects grow, shrink and are finalised.
BuffersOwned ==
    /\ \A o \in Objects \ spoilt :
         obj[o].p # Null /\ ~Mapped(o) =>
             /\ obj[o].p \in DOMAIN mem
             /\ Len(mem[obj[o].p]) = Attr(o).size
             /\ obj[o].len <= Attr(o).size /\ Attr(o).size <= BytesMax
             /\ \A x \in Objects \ (spoilt \cup {o}) :
                  obj[x].p = obj[o].p => Mapped(x)
    /\ spoilt = {} => \A k \in DOMAIN mem :
                        \E o \in Objects : obj[o].p = k /\ ~Mapped(o)

\* An object holds what a caller expects of a sequence of bytes, whatever its
\* buffer went through; in particular no byte that nobody wrote.  (A mapped
\* object is a view of another's bytes, writes through it are the other's.)
BytesAsWanted ==
    \A o \in Objects \ spoilt : ~Mapped(o) => Content(o) = want[o]

\* Text made of an object's bytes gives the bytes back.
TextsReadBack ==
    \A o \in Objects \ spoilt :
        FromHex(ToHex(want[o])) = want[o] /\ Decode64(Encode64(want[o])) = want[o]

\* What bit i of a field of n bits is: from the low end of each byte, or from
\* the high end of each byte and of the field.
BitPlace(offset, len, i) ==
    IF len > 0 THEN [byte |-> (offset + i) \div 8, bit |-> (offset + i) % 8]
    ELSE LET k == offset - len - 1 - i IN [byte |-> k \div 8, bit |-> 7 - (k % 8)]
BitOf(v, i) == (v \div 2 ^ i) % 2

\* Integers and bit fields that are written where there is room are read back,
\* each bit in its place, and no other bit changes.
NumbersReadBack ==
    \A o \in Objects \ spoilt : \A at \in Offsets, n \in Widths, v \in Numbers :
        /\ n # 0 /\ Room(want[o], FromEnd(want[o], at), n) =>
             GetInt(SetInt(want[o], at, v, n), at, n, TRUE) = Signed(v, n)
        /\ LET s == want[o]
               t == SetBits(s, at, 3 * n, v)
               bits == 0 .. Width(3 * n) - 1
               places == {BitPlace(at, 3 * n, i) : i \in bits}
           IN  /\ \A i \in bits : LET b == BitPlace(at, 3 * n, i) IN
                    b.byte \in 0 .. Len(s) - 1 =>
                        /\ BitOf(At(t, b.byte), b.bit) = BitOf(v, i)
                        /\ BitOf(GetBits(t, at, 3 * n), i) = BitOf(v, i)
               /\ \A k \in 0 .. Len(s) - 1, j \in 0 .. 7 :
                    [byte |-> k, bit |-> j] \notin places =>
                        BitOf(At(t, k), j) = BitOf(At(s, k), j)
=============================================================================
