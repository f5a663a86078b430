------------------------------ MODULE MCScript ------------------------------
(* Instances of Script for TLC: small scripts with two hooks.              *)
EXTENDS Script

TwoHooks == {"sendmsg", "recvmsg"}

\* Objects 1 and 2 are the hooks' functions.
HookFunction == [sendmsg |-> 1, recvmsg |-> 2]

\* A collected number that both hooks count in.
Counter == LuaState(<<"function", "function">>, <<<<1>>, <<1>>>>, <<Col(1)>>, <<<<Num(1)>>>>)

\* A variable of its own for each hook.
Apart == LuaState(<<"function", "function">>, <<<<1>>, <<2>>>>, <<Num(1), Num(1)>>, <<>>)

\* A table that the hooks know under two names, one of them collected.
TwoNames == LuaState(<<"function", "function", "table">>, <<<<1>>, <<2>>, <<3>>>>,
                     <<Col(1), Obj(3), Num(1)>>, <<<<Obj(3)>>>>)

\* One hook calls a helper function, which uses what the other hook collects.
Helper == LuaState(<<"function", "function", "function">>, <<<<1>>, <<2>>, <<2>>>>,
                   <<Obj(3), Col(1)>>, <<<<Num(1)>>>>)

\* Two collected names of one table.
TwoCollectors == LuaState(<<"function", "function", "table">>, <<<<1, 2>>, <<1>>, <<3>>>>,
                          <<Col(1), Col(2), Num(1)>>, <<<<Obj(3)>>, <<Obj(3)>>>>)

\* A collected entry of a table.
Entry == LuaState(<<"function", "function", "table">>, <<<<1>>, <<1>>, <<2>>>>,
                  <<Obj(3), Col(1)>>, <<<<Num(1)>>>>)

\* Not to be copied: a table in itself, a variable without a value.
Cyclic == LuaState(<<"function", "function", "table">>, <<<<1>>, <<>>, <<2>>>>,
                   <<Obj(3), Obj(3)>>, <<>>)
Unset == LuaState(<<"function", "function">>, <<<<1>>, <<>>>>, <<Col(1)>>, <<<<Nil>>>>)

SmallScripts == {Counter, Apart, TwoNames, Helper, TwoCollectors, Entry, Cyclic, Unset}
============================================================================
