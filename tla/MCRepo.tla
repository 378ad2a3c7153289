------------------------------- MODULE MCRepo -------------------------------
(***************************************************************************)
(* Instances of Repo for TLC: which clients share a connection, which      *)
(* calls they make, and what the tables hold at the start.                 *)
(***************************************************************************)
EXTENDS Repo, TLC

CONSTANTS c1, c2, k1, k2, f1, f2, t1, t2, a1, v1, v2

\* Two processes with a connection each.
TwoProcesses == (c1 :> k1) @@ (c2 :> k2)

\* Two threads of one daemon.
TwoThreads == (c1 :> k1) @@ (c2 :> k1)

\* The two processes are alike, and so are the two values.
OtherProcess == (c1 :> c2) @@ (c2 :> c1) @@ (k1 :> k2) @@ (k2 :> k1)
OtherValue == (v1 :> v2) @@ (v2 :> v1)
Alike == {OtherProcess, OtherValue, OtherProcess @@ OtherValue}

Calls(op, F, T, V) == [op: op, file: F, tag: T, attr: {a1}, value: V]

\* Calls about one file, and calls that tag another one meanwhile.
TagAndAttrCalls ==
  Calls({"settag"}, {f1, f2}, {t1}, {v1})
    \cup Calls(Ops \ {"settag", "setattr"}, {f1}, {t1}, {v1})
    \cup Calls({"setattr"}, {f1}, {t1}, {v1, v2})

\* A call that tags a file, and one that makes another tag.
TagCalls == Calls({"settag"}, {f1}, {t1}, {v1}) \cup Calls({"inserttag"}, {f1}, {t2}, {v1})

\* Calls about two files that the database knows.
FileCalls == Calls({"settag", "gettags"}, {f1, f2}, {t1}, {v1})

Rows(names) == {[id |-> i, name |-> names[i]] : i \in DOMAIN names}

NoRows == {}
BothFiles == Rows(<<f1, f2>>)
OneTag == Rows(<<t1>>)
=============================================================================
