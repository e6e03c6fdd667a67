------------------------------ MODULE KvBuffer ------------------------------
(***************************************************************************)
(* The flat buffer of src/libutil/kv.c: entries key NUL T value NUL one    *)
(* after the other, found again only by counting NULs.  Symbols stand for  *)
(* the pieces of keys and values that are never taken apart.  An offset is *)
(* the number of symbols before a place; NULL is the null pointer.         *)
(*                                                                         *)
(* Entries maps a buffer to the sequence of entries that Kv works on, and  *)
(* the definitions at the end say that both agree.                         *)
(***************************************************************************)
EXTENDS Kv, FiniteSetsExt

NUL  == "NUL"
NULL == -1
Bad  == -1

\* strnlen of what begins at offset o, and at most max symbols long.
Strnlen(buf, o, max) == Min({max} \cup {n \in 0..(max - 1) : buf[o + n + 1] = NUL})

\* entry_length: a key and a type-and-value, neither empty, each with its NUL.
EntryLength(buf, o) ==
  LET max    == Len(buf) - o
      keylen == Strnlen(buf, o, max)
      left   == max - (keylen + 1)
      vallen == Strnlen(buf, o + keylen + 1, left)
  IN IF keylen \in {0, max} \/ vallen \in {0, left} THEN Bad ELSE keylen + vallen + 2

BufNext(buf, o) ==
  LET len == EntryLength(buf, o)
  IN IF buf = <<>> THEN NULL
     ELSE IF o = NULL THEN 0
     ELSE IF len = Bad \/ o + len = Len(buf) THEN NULL
     ELSE o + len

\* The offsets a whole iteration visits: kv_next from NULL until it is NULL again.
Visits(buf) ==
  LET walk[n \in 0..Len(buf)] ==
        IF n = 0 THEN <<BufNext(buf, NULL)>>
        ELSE LET seen == walk[n - 1]
             IN IF Last(seen) = NULL THEN seen ELSE Append(seen, BufNext(buf, Last(seen)))
  IN Front(walk[Len(buf)])

\* What the accessors read at an entry: strlen finds the NULs wherever they are.
KeyAt(buf, o) == SubSeq(buf, o + 1, o + Strnlen(buf, o, Len(buf) - o))

TypeAt(buf, o) == buf[o + Len(KeyAt(buf, o)) + 2]

ValAt(buf, o) ==
  LET v == o + Len(KeyAt(buf, o)) + 2
  IN SubSeq(buf, v + 1, v + Strnlen(buf, v, Len(buf) - v))

EntryAt(buf, o) == Entry(KeyAt(buf, o), TypeAt(buf, o), ValAt(buf, o))

Entries(buf) == [n \in DOMAIN Visits(buf) |-> EntryAt(buf, Visits(buf)[n])]

-----------------------------------------------------------------------------
\* A bug: the types are not looked at.
BugKvCheckIntegrity(buf) ==
  /\ buf # <<>> => Last(buf) = NUL
  /\ Cardinality({i \in DOMAIN buf : buf[i] = NUL}) % 2 = 0
  /\ \A n \in DOMAIN Visits(buf) : KeyAt(buf, Visits(buf)[n]) # <<>>

\* What kv_decode accepts: a final NUL, an even number of them, and at every
\* entry of an iteration a key and a type.
KvCheckIntegrity(buf) ==
  /\ buf # <<>> => Last(buf) = NUL
  /\ Cardinality({i \in DOMAIN buf : buf[i] = NUL}) % 2 = 0
  /\ \A n \in DOMAIN Visits(buf) :
       LET o == Visits(buf)[n] IN KeyAt(buf, o) # <<>> /\ TypeAt(buf, o) \in KvTypes

\* A bug: the last entry with the key is found.
BugBufFind(buf, key) ==
  LET at == {Visits(buf)[n] : n \in DOMAIN Visits(buf)}
  IN IF \E o \in at : KeyAt(buf, o) = key
     THEN Max({o \in at : KeyAt(buf, o) = key})
     ELSE NULL

BufFind(buf, key) ==
  LET at == {Visits(buf)[n] : n \in DOMAIN Visits(buf)}
  IN IF \E o \in at : KeyAt(buf, o) = key
     THEN Min({o \in at : KeyAt(buf, o) = key})
     ELSE NULL

\* memmove closes the gap.
BufDelete(buf, key) ==
  LET o == BufFind(buf, key)
  IN IF o = NULL THEN buf
     ELSE SubSeq(buf, 1, o) \o SubSeq(buf, o + EntryLength(buf, o) + 1, Len(buf))

EntryBuf(e) == e.key \o <<NUL, e.type>> \o e.val \o <<NUL>>

BufPut(buf, key, type, val) == BufDelete(buf, key) \o EntryBuf(Entry(key, type, val))

\* The buffer that holds the entries of kv, as kv_encode hands it out.
KvEncode(kv) == FlattenSeq([i \in DOMAIN kv |-> EntryBuf(kv[i])])
=============================================================================
