---------------------------- MODULE BerryStrings ----------------------------
(***************************************************************************)
(* The strings of the interpreter (be_string.c): short ones are interned   *)
(* in a hash table that grows and shrinks and is swept by the collector,   *)
(* long ones are objects of their own, constant ones are compiled in.      *)
(***************************************************************************)
EXTENDS Integers, Sequences, FiniteSets, SequencesExt

CONSTANTS ShortTexts, LongTexts,
          Hash,             \* str_hash(): of each short text, any number
          Consts,           \* constants: [text, hash, table]: those of the table of
                            \* constants have their hash, other compiled code's have 0
          MaxStrings,       \* bound: strings in memory
          MinTable, LoadFactor    \* the table starts with 8 places, for 4 strings each

\* What is taken for granted of the constants: a constant of the table is short
\* and has its hash.
StringsConstants ==
    /\ MaxStrings \in Nat /\ MinTable \in Nat \ {0} /\ LoadFactor \in Nat \ {0}
    /\ "" \notin ShortTexts \cup LongTexts /\ ShortTexts \cap LongTexts = {}
    /\ Hash \in [ShortTexts -> Nat]
    /\ \A c \in Consts :
         /\ c \in [text : ShortTexts \cup LongTexts, hash : Nat, table : BOOLEAN]
         /\ IF c.table THEN c.text \in ShortTexts /\ c.hash = Hash[c.text] ELSE c.hash = 0

VARIABLES
    strTable,   \* vm->strtab: a sequence of lists of strings
    strCount,
    strs,       \* the strings in memory: text, or "" for none
    isLong,
    strHeld,    \* what a root reaches: <<"mem", id>>, <<"const", c>>
    strFixed,   \* be_gc_fix
    astray      \* a string was freed between its creation and its use

strVars == <<strTable, strCount, strs, isLong, strHeld, strFixed, astray>>

Ids == 1 .. MaxStrings
StringsInit ==
    /\ strTable = [i \in 1 .. MinTable |-> <<>>] /\ strCount = 0
    /\ strs = [i \in Ids |-> ""] /\ isLong = [i \in Ids |-> FALSE]
    /\ strHeld = {} /\ strFixed = {} /\ astray = FALSE

Bucket(text, size) == (Hash[text] % size) + 1
TextOf(h) == IF h[1] = "mem" THEN strs[h[2]] ELSE h[2].text

\* The members of T in s, in their order.
Chosen(s, T) ==
    LET chosen[i \in 0 .. Len(s)] ==
          IF i = 0 THEN <<>>
          ELSE IF s[i] \in T THEN Append(chosen[i - 1], s[i]) ELSE chosen[i - 1]
    IN  chosen[Len(s)]

\* resize(): each list is taken apart from its head, each string put at the
\* head of its new list.
Resized(table, size, texts) ==
    LET all == FlattenSeq(table)
    IN  [i \in 1 .. size |->
           Reverse(Chosen(all, {s \in Range(all) : Bucket(texts[s], size) = i}))]

KeptStrings == {i \in Ids : <<"mem", i>> \in strHeld \/ i \in strFixed}

\* be_gcstrtab(): free what was not marked; shrink a table that is too sparse.
TableSwept(table) ==
    LET swept == [i \in DOMAIN table |-> Chosen(table[i], KeptStrings)]
        count == Len(FlattenSeq(swept))
        size == Len(table)
    IN  [table |-> IF count < size \div 4 /\ size > MinTable
                   THEN Resized(swept, size \div 2, strs) ELSE swept,
         count |-> count]

Lives == [i \in Ids |-> IF i \in KeptStrings THEN strs[i] ELSE ""]
CollectStrings ==
    /\ strTable' = TableSwept(strTable).table /\ strCount' = TableSwept(strTable).count
    /\ strs' = Lives
    /\ UNCHANGED <<isLong, strHeld, strFixed, astray>>

\* find_conststr()
ConstOf(text) == {c \in Consts : c.table /\ c.text = text}

Hold(h) == strHeld' = strHeld \cup {h}
FreeId(i) == strs[i] = "" /\ \A j \in 1 .. i - 1 : strs[j] # ""

\* be_newstrn() of a text that is a constant or in the table already.
Found(text) ==
    /\ text \in ShortTexts
    /\ \/ \E c \in ConstOf(text) : Hold(<<"const", c>>)
       \/ /\ ConstOf(text) = {}
          /\ \E i \in Range(strTable[Bucket(text, Len(strTable))]) :
               strs[i] = text /\ Hold(<<"mem", i>>)
    /\ UNCHANGED <<strTable, strCount, strs, isLong, strFixed, astray>>

\* be_newlongstr(); the allocation may collect.
NewLong(text, collects) ==
    \E i \in Ids :
        /\ FreeId(i)
        /\ strs' = [(IF collects THEN Lives ELSE strs) EXCEPT ![i] = text]
        /\ isLong' = [isLong EXCEPT ![i] = TRUE] /\ Hold(<<"mem", i>>)
        /\ strTable' = IF collects THEN TableSwept(strTable).table ELSE strTable
        /\ strCount' = IF collects THEN TableSwept(strTable).count ELSE strCount
        /\ UNCHANGED <<strFixed, astray>>

\* newshortstr(): the new string goes to the head of its list, which is looked
\* up again after the allocation; a full table grows.  If that needs a
\* collection, the string, which no root reaches yet, is freed before it is
\* returned.
NewShort(text, collects, tight) ==
    \E i \in Ids :
        LET before == IF collects THEN TableSwept(strTable)
                      ELSE [table |-> strTable, count |-> strCount]
            placed == [before.table EXCEPT ![Bucket(text, Len(before.table))] = <<i>> \o @]
            texts == [(IF collects THEN Lives ELSE strs) EXCEPT ![i] = text]
            grows == before.count + 1 > Len(placed) * LoadFactor
        IN  /\ FreeId(i) /\ ConstOf(text) = {}
            /\ \A s \in Range(strTable[Bucket(text, Len(strTable))]) : strs[s] # text
            /\ tight => grows
            /\ strTable' = IF grows THEN Resized(placed, 2 * Len(placed), texts) ELSE placed
            /\ strCount' = before.count + 1
            /\ strs' = texts /\ isLong' = [isLong EXCEPT ![i] = FALSE]
            /\ Hold(<<"mem", i>>) /\ strFixed' = strFixed \ {i}
            /\ astray' = tight

\* A constant of compiled code; a root that lets go; be_gc_fix, be_gc_unfix.
LoadConst(c) ==
    /\ Hold(<<"const", c>>)
    /\ UNCHANGED <<strTable, strCount, strs, isLong, strFixed, astray>>
LetGo(h) ==
    /\ strHeld' = strHeld \ {h}
    /\ UNCHANGED <<strTable, strCount, strs, isLong, strFixed, astray>>
FixString(i) ==
    /\ <<"mem", i>> \in strHeld /\ strFixed' \in {{}, {i}} \ {strFixed}
    /\ UNCHANGED <<strTable, strCount, strs, isLong, strHeld, astray>>

StringsNext ==
    /\ ~astray
    /\ \/ \E text \in ShortTexts :
            \/ Found(text)
            \/ \E collects, tight \in BOOLEAN : NewShort(text, collects, tight)
       \/ \E text \in LongTexts, collects \in BOOLEAN : NewLong(text, collects)
       \/ \E c \in Consts : LoadConst(c)
       \/ \E h \in strHeld : LetGo(h)
       \/ \E i \in Ids : FixString(i)
       \/ CollectStrings

StringsSpec == StringsInit /\ [][StringsNext]_strVars

-----------------------------------------------------------------------------
(* Comparison.                                                             *)

\* What be_eqstr() reads as the hash of a short string: in memory there is
\* none (BE_USE_STR_HASH_CACHE is 0), the place holds whatever it holds.
HashField(h, junk) == IF h[1] = "const" THEN h[2].hash ELSE junk
IsLong(h) == TextOf(h) \in LongTexts

\* Mutant: equal hashes are taken for equal strings.
EqConst_ByHash(a, b, junk) ==
    HashField(a, junk) # 0 /\ HashField(a, junk) = HashField(b, junk)

\* One of two short strings is constant: their hashes, then their texts.
EqConst(a, b, junk) ==
    /\ HashField(a, junk) # 0 /\ HashField(b, junk) # 0 =>
         HashField(a, junk) = HashField(b, junk)
    /\ TextOf(a) = TextOf(b)

\* be_eqstr(): short strings in memory are equal if they are the same object.
EqStr(a, b, junk) ==
    \/ a = b
    \/ /\ IsLong(a) = IsLong(b)
       /\ IF IsLong(a) THEN TextOf(a) = TextOf(b)
          ELSE "const" \in {a[1], b[1]} /\ EqConst(a, b, junk)

-----------------------------------------------------------------------------
(* Properties.                                                             *)

\* Comparing pointers compares texts: two strings the program holds are equal
\* to be_eqstr() exactly when they read the same, whether they were made twice,
\* survive collections in between, are constants or copies of constants, and
\* whatever lies where a constant has its hash.
EqualMeansSameText ==
    ~astray => \A a, b \in strHeld, junk \in {0} \cup Range(Hash) :
                 EqStr(a, b, junk) <=> TextOf(a) = TextOf(b)

\* Every short string that exists is in the table once, in the list its hash
\* says, through growing, shrinking and sweeping, and is counted; what a root
\* reaches or be_gc_fix() holds exists.
TableInOrder ==
    ~astray =>
      LET all == FlattenSeq(strTable)
      IN  /\ \A i, j \in DOMAIN all : all[i] = all[j] => i = j
          /\ Range(all) = {i \in Ids : strs[i] # "" /\ ~isLong[i]}
          /\ \A b \in DOMAIN strTable : \A i \in Range(strTable[b]) :
               Bucket(strs[i], Len(strTable)) = b
          /\ strCount = Len(all)
          /\ \A i \in Ids : <<"mem", i>> \in strHeld \/ i \in strFixed => strs[i] # ""
=============================================================================
