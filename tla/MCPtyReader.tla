---------------------------- MODULE MCPtyReader ----------------------------
EXTENDS PtyReader

MCToken == {ESC, BEL, "]", "P", "\\", ";", "=", "[", "tmux;", "status", "indicator",
            "4", "1", "x", "L2", "L3", "L4", "C", "X"} \cup Command \cup State

Plain(bytes) == [bytes |-> bytes, says |-> <<>>, cut |-> FALSE]

Ended(body, end) == <<ESC, "]">> \o body \o end
ST == <<ESC, "\\">>

Doubled(s) == FlattenSeq([i \in DOMAIN s |-> IF s[i] = ESC THEN <<ESC, ESC>> ELSE <<s[i]>>])
Tmux(s)    == <<ESC, "P", "tmux;">> \o Doubled(s) \o ST
Screen(s)  == <<ESC, "P">> \o s \o ST

Status(s) == <<"21337", ";", "status", "=">> \o s

Tab(s, bytes) == [bytes |-> bytes, says |-> <<s>>, cut |-> FALSE]

MCItem ==
  { Plain(<<"x", "L4", "C", "C", "C">>), Plain(<<"L3", "C">>), Plain(<<"L2", "X", "C">>), Plain(<<"C">>),
    Plain(<<ESC, "[", "x">>), Plain(<<ESC, ESC, "x">>),
    [bytes |-> <<BEL>>, says |-> <<"notify">>, cut |-> FALSE],
    Plain(Ended(<<"0", ";", "x">>, ST)), Plain(Ended(<<"9", ";", "4", ";", "1">>, <<BEL>>)),
    Plain(Ended(Status(<<>>), <<BEL>>)), Plain(Ended(Status(<<"x", "Idle">>), ST)),
    Plain(Ended(<<"x", ";", "status", "=", "Working">>, <<BEL>>)),
    [bytes |-> <<ESC, "]", "0", ";", "x">>, says |-> <<>>, cut |-> TRUE],
    Tab("Working", Ended(<<"21337", ";", "indicator", "=", "x", ";", "status", "=", "Working", "x">>, ST)),
    Tab("Idle", Ended(Status(<<"Idle">>), <<BEL>>)),
    Tab("Idle", Tmux(Ended(Status(<<"Idle">>), <<BEL>>))),
    Tab("Waiting", Screen(Ended(Status(<<"Waiting">>), <<BEL>>))) }

\* A state that ends in ST and is wrapped by tmux, as osc.rs:6-8 says it may be.
TmuxStItem == { Tab("Idle", Tmux(Ended(Status(<<"Idle">>), ST))) }

=============================================================================
