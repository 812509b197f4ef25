---------------------------- MODULE CallbackDict ----------------------------
(***************************************************************************)
(* The hash table of hiredis (dict.c) as async.c uses it: subscription     *)
(* callbacks by channel or pattern name.  A table is a record; a slot is   *)
(* the chain of its entries, newest first.  Names are byte strings and     *)
(* their hash is computed; only its low bits reach the size mask.          *)
(***************************************************************************)
EXTENDS SequencesExt, Integers

CONSTANT DICT_HT_INITIAL_SIZE   \* 4 in the code, a power of two

ASSUME DictAssumption == DICT_HT_INITIAL_SIZE \in Nat \ {0}

HashRange == 2 ^ 16

dictGenHashFunction(key) ==
    FoldLeft(LAMBDA hash, c : (hash * 33 + c) % HashRange, 5381, key)

dictCreate == [size |-> 0, used |-> 0, table |-> << >>]

Slot(d, key) == 1 + (dictGenHashFunction(key) % d.size)

ChainHas(chain, key) == \E k \in DOMAIN chain : chain[k].key = key

\* the chain from the entry of this key on
From(chain, key) ==
    LET at == CHOOSE k \in DOMAIN chain : chain[k].key = key IN SubSeq(chain, at, Len(chain))

\* the entry is there
dictHas(d, key) == d.size > 0 /\ ChainHas(d.table[Slot(d, key)], key)

\* its value; the names used are never empty, and << >> stands for NULL
dictFind(d, key) == Head(From(d.table[Slot(d, key)], key)).val

\* an entry put at the front of its chain
Link(d, entry) == [d EXCEPT !.table[Slot(d, entry.key)] = <<entry>> \o @]

\* the first of DICT_HT_INITIAL_SIZE, twice that and so on that is large enough
_dictNextPower(size) ==
    LET next[i \in Nat] == IF i >= size THEN i ELSE next[2 * i] IN next[DICT_HT_INITIAL_SIZE]

\* a new table; the entries of the old one are linked into it slot by slot
dictExpand(d, size) ==
    LET realsize == _dictNextPower(size) IN
    FoldLeft(Link, [size |-> realsize, used |-> d.used, table |-> [i \in 1..realsize |-> << >>]],
             FlattenSeq(d.table))

_dictExpandIfNeeded(d) ==
    CASE d.size = 0      -> dictExpand(d, DICT_HT_INITIAL_SIZE)
      [] d.used = d.size -> dictExpand(d, 2 * d.size)
      [] OTHER           -> d

\* the value of an entry that is there
SetValue(d, key, val) ==
    LET set(entry) == IF entry.key = key THEN [entry EXCEPT !.val = val] ELSE entry
        chain == d.table[Slot(d, key)]
    IN [d EXCEPT !.table[Slot(d, key)] = [k \in DOMAIN chain |-> set(chain[k])]]

\* dictAdd, or the value of the entry that is there set anew; the table is
\* expanded first in either case
dictReplace(d, key, val) ==
    LET e == _dictExpandIfNeeded(d) IN
    IF dictHas(e, key) THEN SetValue(e, key, val)
    ELSE [Link(e, [key |-> key, val |-> val]) EXCEPT !.used = @ + 1]

dictDelete(d, key) ==
    IF ~dictHas(d, key) THEN d
    ELSE [d EXCEPT !.table[Slot(d, key)] = SelectSeq(@, LAMBDA entry : entry.key # key),
                   !.used = @ - 1]

\* an iterator: the slot it is in, the key it has returned and the next one
dictGetIterator == [index |-> 0, key |-> << >>, next |-> << >>]

\* the iterator standing on this entry
At(d, index, key) ==
    LET rest == Tail(From(d.table[index], key)) IN
    [index |-> index, key |-> key, next |-> IF rest = << >> THEN << >> ELSE rest[1].key]

\* the iterator on the next entry; the initial one at the end
dictNext(d, it) ==
    LET slots == {i \in it.index + 1..d.size : d.table[i] # << >>}
        first == CHOOSE i \in slots : \A j \in slots : i <= j
    IN CASE it.next # << >> -> At(d, Slot(d, it.next), it.next)
         [] slots = {}      -> dictGetIterator
         [] OTHER           -> At(d, first, d.table[first][1].key)
=============================================================================
