--------------------------------- MODULE Kv ---------------------------------
(***************************************************************************)
(* A kv object (src/libutil/kv.c) as the sequence of its entries.  A key is *)
(* a sequence of symbols, so that prefixes can be put before it and taken  *)
(* off again; a value is a sequence of symbols too.  KvBuffer shows that   *)
(* the C code's operations on one flat buffer are these.                   *)
(*                                                                         *)
(* A Bug definition is the one that follows it with a mistake in it.       *)
(***************************************************************************)
EXTENDS Integers, SequencesExt

\* s is a sequence, whatever its elements.
Sequence(s) == s \in Seq(Range(s))

\* enum kv_type: string, int64, double, bool, timestamp.
KvTypes == {"s", "i", "d", "b", "t"}

Entry(key, type, val) == [key |-> key, type |-> type, val |-> val]

Keys(kv) == {kv[i].key : i \in DOMAIN kv}

\* No key occurs twice.
UniqueKeys(kv) == \A i, j \in DOMAIN kv : kv[i].key = kv[j].key => i = j

-----------------------------------------------------------------------------
\* kv_find stops at the first entry with the key, whatever its type.
KvFind(kv, key) == CHOOSE i \in DOMAIN kv :
  kv[i].key = key /\ \A j \in 1..(i - 1) : kv[j].key # key

KvHas(kv, key, type) == key \in Keys(kv) /\ kv[KvFind(kv, key)].type = type

KvGet(kv, key) == kv[KvFind(kv, key)].val

\* kv_next with the index of an entry for the pointer to it; 0 is NULL.
KvNext(kv, i) == IF i < Len(kv) THEN i + 1 ELSE 0

\* One entry goes, the first with the key.
KvDelete(kv, key) == IF key \in Keys(kv) THEN RemoveAt(kv, KvFind(kv, key)) ELSE kv

\* A bug: a new entry does not replace the old one.
BugKvPut(kv, key, type, val) == Append(kv, Entry(key, type, val))

\* kv_put_raw deletes, then appends: an entry that is put again moves to the end.
KvPut(kv, key, type, val) == Append(KvDelete(kv, key), Entry(key, type, val))

\* A loop over entries that puts those at the places chosen: later entries override
\* earlier ones, and those of kv.
PutEach(kv, entries, chosen) ==
  LET after[n \in 0..Len(entries)] ==
        IF n = 0 THEN kv
        ELSE IF n \in chosen
             THEN KvPut(after[n - 1], entries[n].key, entries[n].type, entries[n].val)
             ELSE after[n - 1]
  IN after[Len(entries)]

PutAll(kv, entries) == PutEach(kv, entries, DOMAIN entries)

KvJoin(kv1, kv2, prefix) ==
  PutAll(kv1, [n \in DOMAIN kv2 |-> [kv2[n] EXCEPT !.key = prefix \o @]])

Stripped(key, prefix) == SubSeq(key, Len(prefix) + 1, Len(key))

\* The entries whose key is longer than the prefix and begins with it.
KvSplit(kv, prefix) ==
  PutEach(<<>>, [n \in DOMAIN kv |-> [kv[n] EXCEPT !.key = Stripped(@, prefix)]],
          {n \in DOMAIN kv : IsStrictPrefix(prefix, kv[n].key)})
=============================================================================
