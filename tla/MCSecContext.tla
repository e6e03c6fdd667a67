----------------------------- MODULE MCSecContext -----------------------------
(* Model checking of SecContext on a small instance: files of several contents in
   several places, and the orders glob(3) may find them in. *)
EXTENDS SecContext, TLC

Symmetry == Permutations(UserData)

Dir(uid, mode) == [exists |-> TRUE, type |-> "dir", uid |-> uid, gid |-> 0, mode |-> mode]

Path(uid, mode, dir) ==
  [exists |-> TRUE, link |-> FALSE, type |-> "reg", uid |-> uid, gid |-> 5, mode |-> mode, dir |-> dir]

Etc == Path(0, {}, Dir(0, {}))                             \* as it should be
Tmp == Path(0, {}, Dir(0, {"iwoth", "iwgrp", "isvtx"}))    \* good, too
Open == Path(0, {}, Dir(0, {"iwoth"}))                     \* anybody may replace it
Loose == Path(0, {"iwgrp"}, Dir(0, {}))                    \* its group may change it

String(s) == [type |-> "string", v |-> s]
Table(t) == [type |-> "table", v |-> t]
Types(l) == [type |-> "array", v |-> [i \in DOMAIN l |-> String(l[i])]]

\* A [sign] table with the tables more of mechanisms.
SignTab(default, types, more) ==
  [k \in {"max-ttl", "default-type", "allowed-types"} \cup DOMAIN more |->
     CASE k = "max-ttl" -> [type |-> "int64", v |-> 30]
       [] k = "default-type" -> String(default)
       [] k = "allowed-types" -> Types(types)
       [] OTHER -> more[k]]

Socket == [k \in {"munge"} |-> Table([s \in {"socket-path"} |-> String("sock")])]
Typo == [k \in {"munge"} |-> Table([s \in {"sock"} |-> String("sock")])]
Curve == [k \in {"curve"} |-> Table([s \in {"require-ca"} |-> True])]

File(path, key, item) ==
  [path |-> path, parses |-> TRUE, table |-> [k \in {key} |-> item]]

Munge == File(Etc, "sign", Table(SignTab("munge", <<"none">>, Socket)))
BadMunge == File(Tmp, "sign", Table(SignTab("none", <<"munge">>, Typo)))
UseCurve == File(Tmp, "sign", Table(SignTab("curve", <<"none", "curve">>, Curve)))
Empty == File(Etc, "sign", Table(SignTab("none", <<>>, Curve)))
CaTable == File(Loose, "ca", Table(EmptyTable))
Off == File(Etc, "disable-path-paranoia", True)
Planted == File(Open, "sign", Table(SignTab("none", <<"none">>, Curve)))
Broken == [Munge EXCEPT !.parses = FALSE]

Found(files) == [rc |-> "found", files |-> files]

MCPatterns ==
  {[rc |-> "nomatch", files |-> <<>>], [rc |-> "aborted", files |-> <<>>]}
  \cup {Found(f) : f \in {<<Munge>>, <<Empty>>, <<Munge, UseCurve>>, <<UseCurve, Broken>>,
                         <<Off, UseCurve, CaTable>>, <<UseCurve, Off, Planted>>}}

MCImpPatterns == {Found(<<BadMunge>>), Found(<<Planted, Off>>)}
=============================================================================
