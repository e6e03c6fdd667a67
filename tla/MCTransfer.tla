----------------------------- MODULE MCTransfer -----------------------------
EXTENDS Transfer

Path(p) == [kind |-> "path", path |-> p]

MCNumerals == [n \in 0..9 |-> <<"0", "1", "2", "3", "4", "5", "6", "7", "8", "9">>[n + 1]]

MCNodes ==
  [null |-> [type |-> "c", major |-> "1", minor |-> "3"],
   sda  |-> [type |-> "b", major |-> "8", minor |-> "0"]]

\* The class pts has two majors; a block class has the same name.
MCProcDevices ==
  <<[type |-> "c", major |-> "136", name |-> "pts"], [type |-> "c", major |-> "1", name |-> "mem"],
    [type |-> "c", major |-> "137", name |-> "pts"], [type |-> "b", major |-> "8", name |-> "pts"]>>

Item(spec, access) == [spec |-> spec, access |-> access]

MCStandard == <<Item(Path("null"), <<"r", "w", "m">>)>>

Items2 ==
  {Item(Path("null"), <<"r">>), Item(Path("sda"), <<"r", "r">>), Item(Path("gone"), <<"r">>),
   Item([kind |-> "class", type |-> "c", name |-> "pts"], <<"w", "r">>),
   Item([kind |-> "class", type |-> "b", name |-> "pts"], <<"m">>),
   Item([kind |-> "other"], <<"r">>), Item(Path("sda"), <<>>), Item(Path("sda"), <<"x">>)}

MCOptions ==
  [policy : {"auto", "closed", "strict"}, allow : BoundedSeq(Items2, 2)]
    \cup [policy : {"strict", "open"},
          allow : {Malformed, <<Malformed>>, <<Item(Path("null"), <<"r">>)>>}]

MCHelperOptions ==
  {[policy |-> "strict", allow |-> <<>>], [policy |-> "strict", allow |-> Malformed]}

MCOutputs == BoundedSeq({"{", "}"}, 4)

MCArgvs == {<<"shell">>, <<"shell", "1", "1">>}

MCAllowed == {Unset, {}, {"TEST", "PATH", "LONG"}}

Var(n, v) == [name |-> n, val |-> v]

MCEnvirons ==
  BoundedSeq({Var("FLUX_JOB_ID", "1"), Var("TEST", "1"), Var("TEST", "2"), Var("PATH", "1"),
              Var("FOO", "1"), Var("LONG", "1")}, 3)

MCGarbage == BoundedSeq({NUL, "s", "x"}, 8)

Sent(n, v) == Entry(<<"IMP_RUN_ENV_">> \o n, "s", <<v>>)

RunKv == <<Entry(<<"cmd">>, "s", <<"run">>), Entry(<<"command">>, "s", <<"prolog">>)>>

ExecKvs == <<Entry(<<"cmd">>, "s", <<"exec">>), Entry(<<"J">>, "s", <<>>),
            Entry(<<"shell_path">>, "s", <<"shell">>)>>

MCForged ==
  {RunKv \o e : e \in BoundedSeq({Sent(<<"FOO">>, "1"), Sent(<<"BAR">>, "1"), Sent(<<"TEST">>, "1"),
                                  Sent(<<"TEST">>, "2"), Sent(<<"HOME">>, "1"), Sent(<<>>, "1"),
                                  Sent(<<"PATH", "=", "x">>, "1")}, 3)}
    \cup {ExecKvs \o e : e \in BoundedSeq({Entry(CountKey, "i", <<"1">>), Entry(CountKey, "s", <<"1">>),
                                           Entry(CountKey, "i", <<"x">>), Entry(CountKey, "i", <<"9">>),
                                           Entry(DevKey(0), "s", <<"c", "1", "3", "r">>),
                                           Entry(DevKey(0), "s", <<"c", "1", "3">>),
                                           Entry(<<"args", "0">>, "s", <<"a">>)}, 2)}
    \cup {<<RunKv[1]>>, <<RunKv[2]>>, <<RunKv[1], Entry(<<"command">>, "s", <<"other">>)>>}
=============================================================================
