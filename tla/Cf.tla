---------------------------------- MODULE Cf ----------------------------------
(***************************************************************************)
(* The configuration library: tables read from files and merged, the       *)
(* permissions a file must have, and the check of a table against the      *)
(* options that are known (src/libutil/cf.c, path.c).                      *)
(*                                                                         *)
(* A table is a function from keys to items, an item a type and a value.   *)
(* A file is where it lies, whether it parses, and the table in it.  What  *)
(* glob(3) finds is its result and the files, in its order.                *)
(*                                                                         *)
(* A Bug definition is the one that follows it with a mistake in it.       *)
(***************************************************************************)
EXTENDS Integers, Sequences

CONSTANTS Euid, Egid   \* the effective user and group of the process

ASSUME CfAssumption == Euid \in Nat /\ Egid \in Nat

Absent == [type |-> "unknown", v |-> 0]
True == [type |-> "bool", v |-> TRUE]
EmptyTable == [k \in {} |-> Absent]

Present(x) == x.type # "unknown"

\* cf_get_in
GetIn(cf, key) == IF key \in DOMAIN cf THEN cf[key] ELSE Absent

\* cf_int64, cf_string, cf_bool: an item of another type counts as the default.
AsInt64(x) == IF x.type = "int64" THEN x.v ELSE 0
AsString(x) == IF x.type = "string" THEN x.v ELSE ""
AsBool(x) == x.type = "bool" /\ x.v
AsArray(x) == IF x.type = "array" THEN x.v ELSE <<>>

-----------------------------------------------------------------------------
\* Where a file lies: exists, link, type, uid, gid, mode, and the same of dir, its
\* parent.  mode holds the bits iwgrp, iwoth and isvtx.
Trusted(st) == st.uid \in {0, Euid}

\* A bug: who may write the directory is not looked at.
BugParentDirIsSecure(dir) == dir.exists /\ dir.type = "dir" /\ Trusted(dir)

ParentDirIsSecure(dir) ==
  /\ dir.exists
  /\ dir.type = "dir"
  /\ Trusted(dir)
  /\ "isvtx" \notin dir.mode =>
       /\ "iwgrp" \notin dir.mode \/ dir.gid \in {0, Egid}
       /\ "iwoth" \notin dir.mode

PathIsSecure(path) ==
  /\ path.exists
  /\ path.type = "reg"
  /\ ~path.link
  /\ Trusted(path)
  /\ "iwoth" \notin path.mode
  /\ "iwgrp" \in path.mode => path.gid = Egid
  /\ ParentDirIsSecure(path.dir)

-----------------------------------------------------------------------------
CheckFilePermissions(cf) ==
  \/ AsBool(GetIn(cf, "enable-path-paranoia"))
  \/ Euid = 0 /\ ~AsBool(GetIn(cf, "disable-path-paranoia"))

\* A bug: what was set first stays.
BugUpdate(cf, table) ==
  [k \in DOMAIN cf \cup DOMAIN table |-> IF k \in DOMAIN cf THEN cf[k] ELSE table[k]]

\* json_object_update: a top-level key is replaced as a whole.
Update(cf, table) ==
  [k \in DOMAIN cf \cup DOMAIN table |-> IF k \in DOMAIN table THEN table[k] ELSE cf[k]]

\* update_object goes through: what has been read so far says if a file is checked.
FileTaken(cf, file) ==
  /\ CheckFilePermissions(cf) => PathIsSecure(file.path)
  /\ file.parses

\* cf_update_glob: a file that is refused ends it, and nothing is taken over.
UpdateGlob(cf, found) ==
  LET after[n \in 0..Len(found.files)] ==
        IF n = 0 THEN [ok |-> found.rc = "found", cf |-> cf]
        ELSE LET before == after[n - 1]
                 file == found.files[n]
             IN IF before.ok /\ FileTaken(before.cf, file)
                THEN [ok |-> TRUE, cf |-> Update(before.cf, file.table)]
                ELSE [ok |-> FALSE, cf |-> cf]
      all == after[Len(found.files)]
  IN [count |-> IF all.ok THEN Len(found.files) ELSE 0, cf |-> all.cf]

-----------------------------------------------------------------------------
Option(key, type, required) == [key |-> key, type |-> type, required |-> required]

IsObject(x) == x.type \in {"table", "timestamp"}

\* cf_check under CF_STRICT; anytab stands for CF_ANYTAB.
CfCheck(item, opts, anytab) ==
  /\ IsObject(item)
  /\ \A k \in DOMAIN item.v :
       (\E o \in opts : o.key = k) \/ (anytab /\ IsObject(item.v[k]))
  /\ \A o \in opts :
       IF o.key \in DOMAIN item.v THEN item.v[o.key].type = o.type ELSE ~o.required
=============================================================================
